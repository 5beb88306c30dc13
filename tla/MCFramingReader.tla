---------------------------- MODULE MCFramingReader ----------------------------
(* Lengths for FramingReader: below, at and above a buffer of two and a limit *)
(* of four.                                                                   *)
EXTENDS FramingReader

Lengths == {0, 1, 2, 4, 5, 6, 7}

===============================================================================

----------------------------- MODULE MCAuditLedger -----------------------------
(***************************************************************************)
(* Small instances of AuditLedger for TLC.                                 *)
(***************************************************************************)
EXTENDS AuditLedger, TLC

AllFaults == Fault

LedgerSymmetry == Permutations(Event) \cup Permutations(Gateway)

===============================================================================

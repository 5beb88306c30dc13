------------------------------- MODULE EventLog -------------------------------
(***************************************************************************)
(* What the audit ledger promises, without gateways, trees and roots: a    *)
(* log that only grows at its end and in which no event is recorded twice, *)
(* whatever writers fail, overlap or restart, and a verdict on it that     *)
(* tells sound lines from others.  AuditLedger implements it.              *)
(***************************************************************************)
EXTENDS Integers, Sequences

CONSTANTS Event, None

VARIABLES
    log,      \* the entries, each with an event or none, sound or not
    whole,    \* the last entry is complete
    saved,    \* how many entries a loss of power cannot take
    acked,    \* events that were acknowledged
    verdict   \* what the verifier says

vars == <<log, whole, saved, acked, verdict>>

Entry == [event: Event \cup {None}, sound: BOOLEAN]

Torn == [event |-> None, sound |-> FALSE]

\* Text behind an incomplete entry spoils that entry.
Grown(entry) ==
    IF whole THEN Append(log, entry) ELSE [log EXCEPT ![Len(log)] = Torn]

Fresh(entry) == \A i \in DOMAIN log : log[i].event # entry.event

Judged == verdict' = \A i \in DOMAIN log' : log'[i].sound

-------------------------------------------------------------------------------
Init ==
    /\ log = <<>> /\ whole = TRUE /\ saved = 0
    /\ acked = {}
    /\ verdict = TRUE

\* An event is recorded and acknowledged; it may not be saved yet.
Record(entry) ==
    /\ entry.event # None /\ Fresh(entry)
    /\ log' = Grown(entry) /\ whole' = TRUE
    /\ acked' = acked \cup {entry.event}
    /\ saved' \in {saved, Len(log')}

\* A write fails: part of an entry is left, or all but its end.
Fail(entry) ==
    /\ entry = Torn \/ Fresh(entry)
    /\ log' = Grown(entry) /\ whole' = FALSE
    /\ UNCHANGED <<saved, acked>>

\* Entries that were not saved disappear, the first of them perhaps in part.
LosePower ==
    /\ \E n \in saved..Len(log) :
          \/ log' = SubSeq(log, 1, n) /\ whole' = (whole \/ n < Len(log)) /\ saved' = n
          \/ log' = Append(SubSeq(log, 1, n), Torn) /\ whole' = FALSE /\ saved' = n + 1
    /\ UNCHANGED acked

Next ==
    /\ \/ \E entry \in Entry : Record(entry) \/ Fail(entry)
       \/ LosePower
    /\ Judged

Spec == Init /\ [][Next]_vars

===============================================================================

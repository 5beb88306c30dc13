------------------------------ MODULE PolicyEngine ------------------------------
(***************************************************************************)
(* PolicyEngine of pkg/guardrails: the verdict on a tool call by denylist, *)
(* allowlist, tool rule, sliding-window rate limit and constraints on the  *)
(* arguments.  e.mu makes EvaluateToolCall atomic, whichever of the        *)
(* gateway's goroutines or HTTP handlers calls it.                         *)
(*                                                                         *)
(* callHistory holds times in the code.  Its order plays no part, so here  *)
(* it is a set of positions in the list of all calls that took a slot.     *)
(***************************************************************************)
EXTENDS Integers, Sequences, FiniteSets

CONSTANTS
    Tool,        \* names of tools that calls ask for
    Forbidden,   \* those that match a pattern of the denylist
    Listed,      \* those that match the allowlist, or all when it is empty
    Disabled,    \* those whose rule says allowed: false
    Limited,     \* those whose rule has a max_per_min above 0
    MaxPerMin,   \* and its value
    Minute,      \* length of the window
    MaxTime,     \* bound on the clock
    MaxCalls     \* bound on the calls of one tool that take a slot

ASSUME PolicyAssumption ==
    /\ Forbidden \subseteq Tool /\ Listed \subseteq Tool /\ Disabled \subseteq Tool
    /\ Limited \subseteq Tool
    /\ MaxPerMin \in [Limited -> Nat \ {0}]
    /\ Minute \in Nat \ {0} /\ MaxTime \in Nat /\ MaxCalls \in Nat

VARIABLES
    now,
    slots,        \* history: the times of the calls of a tool that took a slot
    callHistory,  \* e.callHistory: the positions in slots it still holds
    refused       \* history: the times at which the rate limit refused a call

vars == <<now, slots, callHistory, refused>>

-------------------------------------------------------------------------------
\* Mutant: an entry counts for a minute and a tick.
RecentInclusive(tool) == {i \in callHistory[tool] : slots[tool][i] >= now - Minute}

\* The entries after time.Now() - 1 minute.
Recent(tool) == {i \in callHistory[tool] : slots[tool][i] > now - Minute}

\* The call gets past denylist, allowlist and the rule's switch.
Permitted(tool) == tool \notin Forbidden /\ tool \in Listed /\ tool \notin Disabled

Init ==
    /\ now = 0
    /\ slots = [tool \in Limited |-> <<>>]
    /\ callHistory = [tool \in Limited |-> {}]
    /\ refused = [tool \in Limited |-> {}]

\* EvaluateToolCall up to the rate limit: these calls leave no trace.
EvaluateUnlimited(tool) ==
    /\ ~Permitted(tool) \/ tool \notin Limited
    /\ UNCHANGED vars

\* The limit is reached: only old entries are dropped.
RefuseOverLimit(tool) ==
    /\ Permitted(tool) /\ tool \in Limited
    /\ Cardinality(Recent(tool)) >= MaxPerMin[tool]
    /\ callHistory' = [callHistory EXCEPT ![tool] = Recent(tool)]
    /\ refused' = [refused EXCEPT ![tool] = @ \cup {now}]
    /\ UNCHANGED <<now, slots>>

\* Mutant: one call too many.
TakeSlotAtLimit(tool) ==
    /\ Permitted(tool) /\ tool \in Limited
    /\ Len(slots[tool]) < MaxCalls
    /\ Cardinality(Recent(tool)) <= MaxPerMin[tool]
    /\ slots' = [slots EXCEPT ![tool] = Append(@, now)]
    /\ callHistory' = [callHistory EXCEPT ![tool] = Recent(tool) \cup {Len(slots[tool]) + 1}]
    /\ UNCHANGED <<now, refused>>

\* Mutant: the old entries are not dropped.
TakeSlotKeepingAll(tool) ==
    /\ Permitted(tool) /\ tool \in Limited
    /\ Len(slots[tool]) < MaxCalls
    /\ Cardinality(Recent(tool)) < MaxPerMin[tool]
    /\ slots' = [slots EXCEPT ![tool] = Append(@, now)]
    /\ callHistory' = [callHistory EXCEPT ![tool] = @ \cup {Len(slots[tool]) + 1}]
    /\ UNCHANGED <<now, refused>>

\* The call takes a slot; whether the constraints on its arguments then refuse
\* it or not, it keeps the slot.
TakeSlot(tool) ==
    /\ Permitted(tool) /\ tool \in Limited
    /\ Len(slots[tool]) < MaxCalls
    /\ Cardinality(Recent(tool)) < MaxPerMin[tool]
    /\ slots' = [slots EXCEPT ![tool] = Append(@, now)]
    /\ callHistory' = [callHistory EXCEPT ![tool] = Recent(tool) \cup {Len(slots[tool]) + 1}]
    /\ UNCHANGED <<now, refused>>

EvaluateToolCall(tool) == EvaluateUnlimited(tool) \/ RefuseOverLimit(tool) \/ TakeSlot(tool)

Tick == now < MaxTime /\ now' = now + 1 /\ UNCHANGED <<slots, callHistory, refused>>

Next == (\E tool \in Tool : EvaluateToolCall(tool)) \/ Tick

Spec == Init /\ [][Next]_vars

-------------------------------------------------------------------------------
\* The types of the variables; the history remembers only slots that were taken.
TypeOK ==
    /\ now \in Nat
    /\ slots \in [Limited -> Seq(Nat)]
    /\ callHistory \in [Limited -> SUBSET Nat]
    /\ refused \in [Limited -> SUBSET Nat]
    /\ \A tool \in Limited : callHistory[tool] \subseteq DOMAIN slots[tool]

\* However the calls fall, no minute sees more than max_per_min of them take a
\* slot, and so be allowed: a call comes a minute or more after the one
\* max_per_min places before it, though entries are dropped all the time.
WindowRespected ==
    \A tool \in Limited : \A i \in DOMAIN slots[tool] :
        i + MaxPerMin[tool] \in DOMAIN slots[tool] =>
            slots[tool][i + MaxPerMin[tool]] >= slots[tool][i] + Minute

\* A call is refused only when max_per_min calls took a slot in the minute
\* before it: no entry is counted longer than that.
RefusalsAreDue ==
    \A tool \in Limited : \A t \in refused[tool] :
        \E i \in DOMAIN slots[tool] :
            /\ i + MaxPerMin[tool] - 1 \in DOMAIN slots[tool]
            /\ t - Minute < slots[tool][i]
            /\ slots[tool][i + MaxPerMin[tool] - 1] <= t

\* callHistory does not grow beyond the limit.
HistoryBounded ==
    \A tool \in Limited : Cardinality(callHistory[tool]) <= MaxPerMin[tool]

===============================================================================

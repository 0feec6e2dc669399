----------------------------- MODULE StateFile -------------------------------
(***************************************************************************)
(* What the state file promises, without files, names or system calls: a    *)
(* cell that holds one unsigned tail or none.  It changes only when a       *)
(* worker that stops leaves its whole tail, or when the very tail it holds  *)
(* was taken by a worker that signs it.  Only a power failure may undo the  *)
(* last change or empty the cell; it never makes up a tail.                 *)
(***************************************************************************)
CONSTANTS
    State,      \* tails
    NoState     \* no tail

VARIABLES
    stored,     \* the tail the next worker will find
    durable,    \* the tail it was known to survive a power failure with
    tail,       \* the tail the running worker would leave if it stopped now
    taken,      \* the tail a running worker has taken from the cell
    power       \* "on" or "off"

vars == <<stored, durable, tail, taken, power>>

Init ==
    /\ stored \in State \cup {NoState} /\ durable = stored
    /\ tail = NoState /\ taken = NoState /\ power = "on"

(* A worker runs: only its memory changes. *)
Work ==
    /\ tail' \in State \cup {NoState}
    /\ taken' \in {taken, stored, NoState}
    /\ UNCHANGED <<stored, durable, power>>

Leave == tail # NoState /\ stored' = tail /\ UNCHANGED <<durable, tail, taken, power>>

Drop ==
    /\ taken # NoState /\ stored = taken
    /\ stored' = NoState /\ taken' = NoState
    /\ UNCHANGED <<durable, tail, power>>

Settle == durable' = stored /\ UNCHANGED <<stored, tail, taken, power>>

PowerFails ==
    /\ power = "on" /\ power' = "off"
    /\ stored' \in {stored, durable, NoState} /\ durable' = stored'
    /\ tail' = NoState /\ taken' = NoState

PowerReturns == power = "off" /\ power' = "on" /\ UNCHANGED <<stored, durable, tail, taken>>

Next == Work \/ Leave \/ Drop \/ Settle \/ PowerFails \/ PowerReturns

Spec == Init /\ [][Next]_vars
=============================================================================

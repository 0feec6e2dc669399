----------------------------- MODULE WorkerGate ------------------------------
(***************************************************************************)
(* The counter by which an action refuses a second worker                   *)
(* (createWrkrInstance, freeWrkrInstance).  rsyslog calls both from its     *)
(* worker threads; wrkr_count is a plain unsigned int, so an increment or   *)
(* decrement is a load and a store that other threads may come between.     *)
(***************************************************************************)
EXTENDS Naturals, FiniteSets

CONSTANT
    Threads         \* worker threads of the queue the action runs in

VARIABLES
    wrkr_count,     \* wrkr_count of the instance
    reg,            \* what a thread has loaded from it
    pc              \* where a thread is

gateVars == <<wrkr_count, reg, pc>>

GateInit ==
    /\ wrkr_count = 0
    /\ reg = [t \in Threads |-> 0]
    /\ pc = [t \in Threads |-> "out"]

(* A call loads the counter ... *)
Load(t, from, to) ==
    /\ pc[t] = from
    /\ reg' = [reg EXCEPT ![t] = wrkr_count]
    /\ pc' = [pc EXCEPT ![t] = to]
    /\ UNCHANGED wrkr_count

(* ... stores it incremented ... *)
Increment(t) ==
    /\ pc[t] = "creating"
    /\ wrkr_count' = reg[t] + 1
    /\ pc' = [pc EXCEPT ![t] = "checking"]
    /\ UNCHANGED reg

(* ... and compares: the value it stored, or the counter loaded anew.        *)
Check(t) ==
    /\ pc[t] = "checking"
    /\ \E count \in {reg[t] + 1, wrkr_count} :
           pc' = [pc EXCEPT ![t] = IF count > 1 THEN "rejected" ELSE "live"]
    /\ UNCHANGED <<wrkr_count, reg>>

(* freeWrkrInstance, for a live worker and, by rsyslog's clean-up, for one   *)
(* whose creation failed                                                     *)
Decrement(t) ==
    /\ pc[t] = "freeing"
    /\ wrkr_count' = IF reg[t] > 0 THEN reg[t] - 1 ELSE wrkr_count
    /\ pc' = [pc EXCEPT ![t] = "out"]
    /\ UNCHANGED reg

GateNext ==
    \E t \in Threads :
        \/ Load(t, "out", "creating")
        \/ Increment(t)
        \/ Check(t)
        \/ Load(t, "live", "freeing")
        \/ Load(t, "rejected", "freeing")
        \/ Decrement(t)

GateSpec == GateInit /\ [][GateNext]_gateVars

-----------------------------------------------------------------------------
(* At most one worker is accepted at any time: two would interleave two      *)
(* chains in one log (README, single worker thread required).  WorkerLife has *)
(* the same counter with calls that do not overlap.                          *)
AtMostOneLive == Cardinality({t \in Threads : pc[t] = "live"}) <= 1
=============================================================================

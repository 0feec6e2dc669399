------------------------------ MODULE ChainLog -------------------------------
(***************************************************************************)
(* What the signer promises a reader of the log, without digests, files or  *)
(* processes: the log is a succession of segments, each grows one entry at  *)
(* a time, a signature covers everything its segment holds so far, and      *)
(* never more than a bounded number of entries wait for one.                *)
(***************************************************************************)
EXTENDS Naturals

CONSTANTS
    Window,     \* entries of the open segment that may lack a signature
    Sealed      \* TRUE: a segment is only followed by another once signed

VARIABLES
    segments,   \* how many segments the log has
    len,        \* entries in the last one
    signed      \* how many of them a signature covers

vars == <<segments, len, signed>>

Init == segments = 0 /\ len = 0 /\ signed = 0

Open ==
    /\ Sealed => signed = len
    /\ segments' = segments + 1 /\ len' = 1 /\ signed' = 0

Extend ==
    /\ segments > 0 /\ len + 1 - signed <= Window
    /\ len' = len + 1
    /\ UNCHANGED <<segments, signed>>

Seal ==
    /\ segments > 0
    /\ len' = len + 1 /\ signed' = len + 1
    /\ UNCHANGED segments

Next == Open \/ Extend \/ Seal

Spec == Init /\ [][Next]_vars
=============================================================================

---------------------------- MODULE MCWorkerLife -----------------------------
(* Definitions the configuration WorkerLife.cfg gives to constants.          *)
EXTENDS WorkerLifeInv, TLC

CONSTANTS k1, sha256, sha512

(* A raw key; the same key in a certificate that is embedded *)
SomeConfs ==
    {[key |-> k1, alg |-> sha512, cert |-> c, embedcert |-> c] : c \in BOOLEAN}

(* A tail that a version without SHA-512 left *)
SomeOldStates ==
    {[alg |-> sha256, chain_hash |-> [alg |-> sha256, n |-> 2], seq |-> 3,
      sig_seq_from |-> 2, fp |-> k1]}

(* Threads are alike. *)
AnyThread == Permutations(Workers)
=============================================================================

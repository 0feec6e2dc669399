----------------------------- MODULE MCPipeline ------------------------------
(* Small instances of Pipeline for TLC. *)
EXTENDS PipelineInv

CONSTANTS k1, k2, sha256, m1, m2

PlainConf(k) ==
    [key |-> k, alg |-> sha256, embedcert |-> FALSE, statefiledir |-> TRUE]

(* One configuration, with a state directory *)
SteadyConfs == {PlainConf(k1)}

(* Certificates are embedded or not *)
VaryingConfs ==
    {[PlainConf(k1) EXCEPT !.embedcert = e] : e \in BOOLEAN}

(* Keys are rotated, certificates are embedded *)
RotatingConfs == {[PlainConf(k) EXCEPT !.embedcert = TRUE] : k \in {k1, k2}}

(* Keys and algorithms are replaced, the state directory comes and goes. *)
AnyConfs == {c \in Conf : c.embedcert /\ (c.key = k2 => c.alg = sha256)}

KeyOpts == [key |-> k1, strict |-> FALSE]
StrictOpts == [key |-> k1, strict |-> TRUE]
BundleOpts == [key |-> NoKey, strict |-> FALSE]
=============================================================================

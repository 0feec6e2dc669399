------------------------------ MODULE SDRecord -------------------------------
(***************************************************************************)
(* The structured-data element a signed message carries                     *)
(* (src/common/hcs_format.h, hcs_sd_record_t, and the hcs_format_sd_        *)
(* functions of hcs_format.c) and the stored line around it.                *)
(*                                                                         *)
(* A record keeps the fields hcs_parse_sd would return: a parameter an      *)
(* element does not carry reads as 0, or as absent.                         *)
(***************************************************************************)
EXTENDS HashChain

CONSTANTS
    NoSD,       \* the line has no [mmhashchainsigs@32473 ...] element
    NoKey,      \* no fingerprint, no certificate, no public key
    NoSig       \* the element has no s= parameter

SDTypes == {"INIT", "MSG", "SIG", "CONTINUE"}

SD == [type : SDTypes, q : Nat, h : Digest, f : Keys \cup {NoKey},
       qf : Nat, qt : Nat, s : Signature \cup {NoSig}]

SDPlain(type, seq, hash) ==
    [type |-> type, q |-> seq, h |-> hash, f |-> NoKey,
     qf |-> 0, qt |-> 0, s |-> NoSig]

SDInit(seq, hash, fp) == [SDPlain("INIT", seq, hash) EXCEPT !.f = fp]

SDMsg(seq, hash) == SDPlain("MSG", seq, hash)

(* A mutant of SDSig: qf and qt are exchanged. *)
SDSigSwapped(seq, hash, from, to, sig) ==
    [SDPlain("SIG", seq, hash) EXCEPT !.qf = to, !.qt = from, !.s = sig]

SDSig(seq, hash, from, to, sig) ==
    [SDPlain("SIG", seq, hash) EXCEPT !.qf = from, !.qt = to, !.s = sig]

(* A stored line: its chain element, the certificate element that may follow *)
(* (a key stands for the certificate issued for it) and the hashed payload.  *)
Line == [sd : SD \cup {NoSD}, cert : Keys \cup {NoKey}, msg : Payload]

ASSUME AbsentAssumption ==
    NoKey \notin Keys /\ NoSig \notin Signature /\ NoSD \notin SD
=============================================================================

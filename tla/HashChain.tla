------------------------------ MODULE HashChain ------------------------------
(***************************************************************************)
(* The hash chain of src/mmhashchainsigs/hashchain.c and the crypto calls   *)
(* it rests on (src/common/hcs_crypto.c).                                   *)
(*                                                                         *)
(* A digest is represented by what was hashed: the algorithm and the list   *)
(* of (sequence number, payload) pairs fed to the chain since its           *)
(* well-known initial value.  Two digests are equal exactly when the same   *)
(* bytes were hashed in the same order under the same algorithm, which is   *)
(* collision resistance taken as exact.  The width of a digest (64, 96 or   *)
(* 128 hex digits) identifies its algorithm, so `alg' also stands for it.   *)
(***************************************************************************)
EXTENDS Naturals, Sequences

CONSTANTS
    Algs,       \* hash algorithms the build supports (hcs_hash_alg_t)
    Keys,       \* signing keys; a key also stands for its fingerprint
    Msgs,       \* payloads: header element, client SD and MSG of a message
    EmptyMsg    \* the zero-length payload of mmhashchainsigs_final_sign

Payload == Msgs \cup {EmptyMsg}

Link == [seq : Nat, msg : Payload]
Digest == [alg : Algs, links : Seq(Link)]

(* H_alg("MMHASHCHAINSIGS_CHAIN_INIT_V1") *)
ChainInitHash(alg) == [alg |-> alg, links |-> << >>]

(* A mutant of HashChainStep: the payload is not hashed. *)
HashChainStepOfSeq(prev, seq, msg) ==
    [prev EXCEPT !.links = Append(@, [seq |-> seq, msg |-> EmptyMsg])]

(* H_alg(prev || be64(seq) || msg) *)
HashChainStep(prev, seq, msg) ==
    [prev EXCEPT !.links = Append(@, [seq |-> seq, msg |-> msg])]

-----------------------------------------------------------------------------
(* The context hashchain_ctx_t and its operations *)

Chain == [alg : Algs, current : Digest, seq : Nat, msg_count : Nat]

HashchainInit(alg) ==
    [alg |-> alg, current |-> ChainInitHash(alg), seq |-> 1, msg_count |-> 0]

HashchainUpdate(ctx, msg) ==
    [ctx EXCEPT !.current = HashChainStep(ctx.current, ctx.seq, msg),
                !.seq = @ + 1,
                !.msg_count = @ + 1]

HashchainKeepCount(ctx) == ctx \* a mutant of HashchainResetCount

HashchainResetCount(ctx) == [ctx EXCEPT !.msg_count = 0]

-----------------------------------------------------------------------------
(* Signatures: only the holder of `key' makes one, over exactly `digest'. *)

Signature == [key : Keys, digest : Digest]

HcsSign(key, digest) == [key |-> key, digest |-> digest]

HcsVerify(key, digest, sig) == sig = HcsSign(key, digest)
=============================================================================

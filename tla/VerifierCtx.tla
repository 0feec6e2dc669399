----------------------------- MODULE VerifierCtx -----------------------------
(***************************************************************************)
(* The verification engine (src/verify/verifier.c) as operators on its      *)
(* context verifier_ctx_t.  A handler returns -1 exactly when it leaves the *)
(* context in state ERROR, so the context alone says whether to go on.      *)
(***************************************************************************)
EXTENDS SDRecord

CONSTANTS
    CertifiedKeys,  \* keys whose certificate chains to the CA bundle
    NoAlg,          \* no hash algorithm locked in yet
    MaxErrors       \* VERIFIER_MAX_ERRORS

ASSUME VerifierAssumption ==
    CertifiedKeys \subseteq Keys /\ NoAlg \notin Algs /\ MaxErrors \in Nat \ {0}

(* What a recorded error says *)
ErrorKinds == {
    "no element", "expected INIT", "message before INIT", "SIG before INIT",
    "CONTINUE before INIT", "missing fingerprint", "certificate required",
    "certificate chain validation", "INIT fingerprint mismatch",
    "CONTINUE fingerprint mismatch", "unsigned before segment",
    "algorithm changed", "sequence", "hash length", "chain hash",
    "missing signature", "SIG from", "SIG to", "invalid signature",
    "empty file", "unsigned tail" }

VStates == {"EXPECT_INIT", "PROCESSING", "DONE", "ERROR"}

(* Trust anchor: a public key (from -k or -c), or NoKey for a CA bundle.     *)
VOpts == [key : Keys \cup {NoKey}, strict : BOOLEAN]

VCtx == [state : VStates, ca : BOOLEAN, key : Keys \cup {NoKey},
         alg : Algs \cup {NoAlg}, chain_hash : Digest \cup {NoAlg},
         next_seq : Nat, msg_count : Nat, sig_count : Nat,
         last_signed_seq : Nat, segment_count : Nat, strict : BOOLEAN,
         errors : Seq(ErrorKinds)]

(* While a segment is open its digest and algorithm are set. *)
VCtxOK(ctx) ==
    /\ ctx \in VCtx
    /\ ctx.state = "PROCESSING" => ctx.chain_hash \in Digest /\ ctx.alg \in Algs

VerifierInit(opts) ==
    [state |-> "EXPECT_INIT", ca |-> opts.key = NoKey, key |-> opts.key,
     alg |-> NoAlg, chain_hash |-> NoAlg, next_seq |-> 1, msg_count |-> 0,
     sig_count |-> 0, last_signed_seq |-> 0, segment_count |-> 0,
     strict |-> opts.strict, errors |-> << >>]

(* add_error, when `cond' holds; the table is full at MaxErrors *)
AddError(ctx, cond, kind) ==
    IF cond /\ Len(ctx.errors) < MaxErrors
    THEN [ctx EXCEPT !.errors = Append(@, kind)] ELSE ctx

(* An error the engine does not go on after *)
Fatal(ctx, kind) == [AddError(ctx, TRUE, kind) EXCEPT !.state = "ERROR"]

Stopped(ctx) == ctx.state \in {"ERROR", "DONE"}

-----------------------------------------------------------------------------
(* verify_sd_msg_hash: the digest is recomputed from the verifier's own      *)
(* previous digest and its own sequence number, whatever the line claims.    *)
VerifySdMsgHash(ctx, sd, m) ==
    LET c == AddError(ctx, sd.q # ctx.next_seq, "sequence")
        h == HashChainStep(ctx.chain_hash, ctx.next_seq, m)
    IN  IF sd.h.alg # ctx.alg THEN Fatal(c, "hash length")
        ELSE [AddError(c, h # sd.h, "chain hash")
              EXCEPT !.chain_hash = h, !.next_seq = @ + 1, !.msg_count = @ + 1]

(* install_pubkey_from_cert, in CA-bundle mode and only while no key is      *)
(* installed.                                                                *)
InstallKey(ctx, cert) ==
    IF ~ctx.ca \/ ctx.key # NoKey THEN ctx
    ELSE IF cert = NoKey THEN Fatal(ctx, "certificate required")
    ELSE IF cert \notin CertifiedKeys
         THEN Fatal(ctx, "certificate chain validation")
    ELSE [ctx EXCEPT !.key = cert]

HasUnsignedBeyondOne(ctx) == ctx.next_seq - 1 > ctx.last_signed_seq + 1 \* a mutant

(* (next_seq - 1) - last_signed_seq > 0 on uint64_t: the two differ, also    *)
(* when a line claimed a range beyond itself and the difference wraps.       *)
HasUnsigned(ctx) == ctx.next_seq - 1 # ctx.last_signed_seq

(* A mutant of CloseSegment: last_signed_seq is carried into the new segment. *)
CloseSegmentKeepsRange(ctx) ==
    AddError(ctx, ctx.state = "PROCESSING" /\ ctx.strict /\ HasUnsigned(ctx),
             "unsigned before segment")

(* A new segment closes the one before it. *)
CloseSegment(ctx) ==
    IF ctx.state # "PROCESSING" THEN ctx
    ELSE [AddError(ctx, ctx.strict /\ HasUnsigned(ctx),
                   "unsigned before segment") EXCEPT !.last_signed_seq = 0]

(* The hash algorithm of the first INIT is locked in; a chain starts over.   *)
OpenSegment(ctx, alg) ==
    IF ctx.alg # NoAlg /\ ctx.alg # alg THEN Fatal(ctx, "algorithm changed")
    ELSE [ctx EXCEPT !.alg = alg, !.chain_hash = ChainInitHash(alg),
                     !.next_seq = 1, !.segment_count = @ + 1,
                     !.state = "PROCESSING"]

HandleSdInit(ctx, sd, m, cert) ==
    LET keyed == InstallKey(ctx, cert)
        opened == OpenSegment(CloseSegment(keyed), sd.h.alg)
    IN  CASE sd.f = NoKey -> Fatal(ctx, "missing fingerprint")
          [] sd.f # NoKey /\ Stopped(keyed) -> keyed
          [] sd.f # NoKey /\ ~Stopped(keyed) /\ sd.f # keyed.key ->
               Fatal(keyed, "INIT fingerprint mismatch")
          [] OTHER -> IF Stopped(opened) THEN opened
                      ELSE VerifySdMsgHash(opened, sd, m)

HandleSdMsg(ctx, sd, m) ==
    IF ctx.state # "PROCESSING" THEN Fatal(ctx, "message before INIT")
    ELSE VerifySdMsgHash(ctx, sd, m)

(* A mutant of CheckSignature: nobody compares the end of the range. *)
CheckSignatureFromOnly(ctx, sd) ==
    LET from == AddError(ctx, sd.qf # ctx.last_signed_seq + 1, "SIG from")
    IN  IF HcsVerify(ctx.key, ctx.chain_hash, sd.s)
        THEN [from EXCEPT !.last_signed_seq = sd.qt, !.sig_count = @ + 1]
        ELSE AddError(from, TRUE, "invalid signature")

(* The range of a SIG must continue where the last valid one ended and reach *)
(* this entry; a valid signature moves last_signed_seq to the range the line *)
(* claims even when that range was reported.                                 *)
CheckSignature(ctx, sd) ==
    LET from == AddError(ctx, sd.qf # ctx.last_signed_seq + 1, "SIG from")
        to == AddError(from, sd.qt # ctx.next_seq - 1, "SIG to")
    IN  IF HcsVerify(ctx.key, ctx.chain_hash, sd.s)
        THEN [to EXCEPT !.last_signed_seq = sd.qt, !.sig_count = @ + 1]
        ELSE AddError(to, TRUE, "invalid signature")

HandleSdSig(ctx, sd, m) ==
    LET hashed == VerifySdMsgHash(ctx, sd, m)
    IN  IF ctx.state # "PROCESSING" THEN AddError(ctx, TRUE, "SIG before INIT")
        ELSE IF Stopped(hashed) THEN hashed
        ELSE IF sd.s = NoSig THEN AddError(hashed, TRUE, "missing signature")
        ELSE CheckSignature(hashed, sd)

HandleSdContinue(ctx, sd, m) ==
    IF ctx.state # "PROCESSING"
    THEN AddError(ctx, TRUE, "CONTINUE before INIT")
    ELSE IF sd.f # NoKey /\ sd.f # ctx.key
    THEN AddError(ctx, TRUE, "CONTINUE fingerprint mismatch")
    ELSE VerifySdMsgHash([ctx EXCEPT !.segment_count = @ + 1], sd, m)

(* verifier_process_line *)
VerifierProcessLine(ctx, line) ==
    LET sd == line.sd
    IN  CASE Stopped(ctx) -> ctx
          [] ~Stopped(ctx) /\ sd = NoSD ->
               IF ctx.state = "EXPECT_INIT" THEN Fatal(ctx, "no element")
               ELSE AddError(ctx, TRUE, "no element")
          [] ~Stopped(ctx) /\ sd # NoSD ->
               CASE sd.type = "INIT" -> HandleSdInit(ctx, sd, line.msg, line.cert)
                 [] sd.type # "INIT" /\ ctx.state = "EXPECT_INIT" ->
                      Fatal(ctx, "expected INIT")
                 [] sd.type = "SIG" /\ ctx.state # "EXPECT_INIT" ->
                      HandleSdSig(ctx, sd, line.msg)
                 [] sd.type = "CONTINUE" /\ ctx.state # "EXPECT_INIT" ->
                      HandleSdContinue(ctx, sd, line.msg)
                 [] sd.type = "MSG" /\ ctx.state # "EXPECT_INIT" ->
                      HandleSdMsg(ctx, sd, line.msg)

(* verifier_finalize and verifier_passed *)
VerifierFinalize(ctx) ==
    LET c == AddError(ctx, ctx.state = "EXPECT_INIT", "empty file")
    IN  [AddError(c, ctx.strict /\ HasUnsigned(ctx), "unsigned tail")
         EXCEPT !.state = "DONE"]

VerifierPassed(ctx) == ctx.errors = << >>
=============================================================================

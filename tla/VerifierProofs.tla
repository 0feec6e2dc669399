--------------------------- MODULE VerifierProofs ----------------------------
(* The verification engine keeps its context well typed on every line. *)
EXTENDS Reading, ChainProofs

(* verifier_init builds a well-typed context from any options. *)
LEMMA VerifierInitType ==
    ASSUME NEW opts \in VOpts
    PROVE  VCtxOK(VerifierInit(opts))
BY DEF VOpts, VCtxOK, VCtx, VStates, VerifierInit

(* add_error only ever changes the error list. *)
LEMMA AddErrorType ==
    ASSUME NEW ctx, VCtxOK(ctx), NEW cond \in BOOLEAN, NEW kind \in ErrorKinds
    PROVE  LET c == AddError(ctx, cond, kind)
           IN  /\ VCtxOK(c)
               /\ c.state = ctx.state /\ c.ca = ctx.ca /\ c.key = ctx.key
               /\ c.alg = ctx.alg /\ c.chain_hash = ctx.chain_hash
               /\ c.next_seq = ctx.next_seq
               /\ c.last_signed_seq = ctx.last_signed_seq
               /\ c.segment_count = ctx.segment_count
               /\ c.strict = ctx.strict
               /\ ~cond => c = ctx
<1>1. Append(ctx.errors, kind) \in Seq(ErrorKinds)
  BY AppendProperties DEF VCtxOK, VCtx
<1>2. [ctx EXCEPT !.errors = Append(ctx.errors, kind)] \in VCtx
  BY <1>1 DEF VCtxOK, VCtx
<1> QED
  BY <1>2 DEF VCtxOK, VCtx, AddError

(* A fatal error leaves a well-typed context in state ERROR. *)
LEMMA FatalType ==
    ASSUME NEW ctx, VCtxOK(ctx), NEW kind \in ErrorKinds
    PROVE  VCtxOK(Fatal(ctx, kind)) /\ Fatal(ctx, kind).state = "ERROR"
<1> DEFINE c == AddError(ctx, TRUE, kind)
<1>1. VCtxOK(c)
  BY AddErrorType
<1> HIDE DEF c
<1>2. /\ [c EXCEPT !.state = "ERROR"] \in VCtx
      /\ [c EXCEPT !.state = "ERROR"].state = "ERROR"
  BY <1>1 DEF VCtxOK, VCtx, VStates
<1>3. Fatal(ctx, kind) = [c EXCEPT !.state = "ERROR"]
  BY DEF Fatal, c
<1> QED
  BY <1>2, <1>3 DEF VCtxOK

(* verify_sd_msg_hash, with a segment open *)
LEMMA VerifySdMsgHashType ==
    ASSUME NEW ctx, VCtxOK(ctx), ctx.state = "PROCESSING",
           NEW sd \in SD, NEW m \in Payload
    PROVE  VCtxOK(VerifySdMsgHash(ctx, sd, m))
<1> DEFINE c == AddError(ctx, sd.q # ctx.next_seq, "sequence")
           h == HashChainStep(ctx.chain_hash, ctx.next_seq, m)
           e == AddError(c, h # sd.h, "chain hash")
<1>1. h \in Digest
  BY HashChainStepType DEF VCtxOK, VCtx
<1>2. VCtxOK(c) /\ c.state = ctx.state /\ c.alg = ctx.alg
  BY AddErrorType DEF ErrorKinds
<1>3. VerifySdMsgHash(ctx, sd, m) =
        IF sd.h.alg # ctx.alg THEN Fatal(c, "hash length")
        ELSE [e EXCEPT !.chain_hash = h, !.next_seq = e.next_seq + 1,
                       !.msg_count = e.msg_count + 1]
  BY DEF VerifySdMsgHash
<1>4. /\ VCtxOK(Fatal(c, "hash length"))
      /\ VCtxOK(e) /\ e.state = ctx.state /\ e.alg = ctx.alg
  <2> HIDE DEF c, h
  <2> DEFINE cond == h # sd.h
  <2>1. "hash length" \in ErrorKinds /\ "chain hash" \in ErrorKinds
    BY DEF ErrorKinds
  <2>2. cond \in BOOLEAN
    OBVIOUS
  <2> HIDE DEF cond
  <2>3. LET x == AddError(c, cond, "chain hash")
        IN  VCtxOK(x) /\ x.state = c.state /\ x.alg = c.alg
    BY <1>2, <2>1, <2>2, AddErrorType
  <2>4. VCtxOK(Fatal(c, "hash length"))
    BY <1>2, <2>1, FatalType
  <2> QED
    BY <1>2, <2>3, <2>4 DEF cond
<1>5. VCtxOK(e) /\ e.state = ctx.state /\ e.alg = ctx.alg
  BY <1>4
<1> HIDE DEF c, h, e
<1>6. ASSUME NEW x \in VCtx, NEW n \in Nat, NEW k \in Nat
      PROVE  LET y == [x EXCEPT !.chain_hash = h, !.next_seq = n, !.msg_count = k]
             IN  y \in VCtx /\ y.chain_hash = h /\ y.alg = x.alg
  BY <1>1 DEF VCtx
<1>7. e \in VCtx /\ e.next_seq + 1 \in Nat /\ e.msg_count + 1 \in Nat
  BY <1>5, SMTT(60) DEF VCtxOK, VCtx
<1>8. ctx.alg \in Algs
  BY DEF VCtxOK
<1>9. VCtxOK([e EXCEPT !.chain_hash = h, !.next_seq = e.next_seq + 1,
                       !.msg_count = e.msg_count + 1])
  BY <1>1, <1>5, <1>6, <1>7, <1>8 DEF VCtxOK
<1> QED
  BY <1>3, <1>4, <1>9

(* install_pubkey_from_cert: only the key changes, or the engine stops. *)
LEMMA InstallKeyType ==
    ASSUME NEW ctx, VCtxOK(ctx), NEW cert \in Keys \cup {NoKey}
    PROVE  VCtxOK(InstallKey(ctx, cert))
<1>1. VCtxOK(Fatal(ctx, "certificate required"))
      /\ VCtxOK(Fatal(ctx, "certificate chain validation"))
  BY FatalType DEF ErrorKinds
<1>2. ASSUME cert \in Keys
      PROVE  VCtxOK([ctx EXCEPT !.key = cert])
  BY <1>2 DEF VCtxOK, VCtx
<1> QED
  BY <1>1, <1>2 DEF InstallKey

(* Closing and opening a segment *)
LEMMA CloseSegmentType ==
    ASSUME NEW ctx, VCtxOK(ctx)
    PROVE  VCtxOK(CloseSegment(ctx))
<1> DEFINE cond == ctx.strict /\ HasUnsigned(ctx)
           c == AddError(ctx, cond, "unsigned before segment")
<1>1. cond \in BOOLEAN
  BY DEF VCtxOK, VCtx, HasUnsigned
<1>2. CloseSegment(ctx) =
        IF ctx.state # "PROCESSING" THEN ctx
        ELSE [c EXCEPT !.last_signed_seq = 0]
  BY DEF CloseSegment
<1> HIDE DEF cond
<1>3. VCtxOK(c)
  BY <1>1, AddErrorType DEF ErrorKinds
<1> HIDE DEF c
<1>4. VCtxOK([c EXCEPT !.last_signed_seq = 0])
  BY <1>3 DEF VCtxOK, VCtx
<1> QED
  BY <1>2, <1>4

(* A segment opened in a supported algorithm has its digest set. *)
LEMMA OpenSegmentType ==
    ASSUME NEW ctx, VCtxOK(ctx), NEW alg \in Algs
    PROVE  LET c == OpenSegment(ctx, alg)
           IN  VCtxOK(c) /\ (~Stopped(c) => c.state = "PROCESSING")
<1> DEFINE h == ChainInitHash(alg)
           k == ctx.segment_count + 1
           c0 == Fatal(ctx, "algorithm changed")
           c1 == [ctx EXCEPT !.alg = alg, !.chain_hash = h, !.next_seq = 1,
                             !.segment_count = k, !.state = "PROCESSING"]
<1>1. VCtxOK(c0) /\ c0.state = "ERROR"
  BY FatalType DEF ErrorKinds
<1>2. h \in Digest
  BY ChainInitHashType
<1>3. ctx \in VCtx /\ k \in Nat
  BY DEF VCtxOK, VCtx
<1>4. OpenSegment(ctx, alg) =
        IF ctx.alg # NoAlg /\ ctx.alg # alg THEN c0 ELSE c1
  BY DEF OpenSegment
<1> HIDE DEF c0, h, k
<1>5. /\ c1 \in VCtx /\ c1.chain_hash = h /\ c1.alg = alg
      /\ c1.state = "PROCESSING"
  BY <1>2, <1>3 DEF VCtx, VStates
<1> HIDE DEF c1
<1>6. VCtxOK(c1)
  BY <1>2, <1>5 DEF VCtxOK
<1> QED
  BY <1>1, <1>4, <1>5, <1>6 DEF Stopped

(* Each handler, on any record hcs_parse_sd can return *)
LEMMA HandleSdInitType ==
    ASSUME NEW ctx, VCtxOK(ctx), NEW sd \in SD, NEW m \in Payload,
           NEW cert \in Keys \cup {NoKey}
    PROVE  VCtxOK(HandleSdInit(ctx, sd, m, cert))
<1> DEFINE keyed == InstallKey(ctx, cert)
           opened == OpenSegment(CloseSegment(keyed), sd.h.alg)
<1>1. VCtxOK(keyed)
  BY InstallKeyType
<1>2. sd.h.alg \in Algs
  BY DEF SD, Digest
<1> HIDE DEF keyed
<1>3. VCtxOK(CloseSegment(keyed))
  BY <1>1, CloseSegmentType
<1>4. VCtxOK(opened) /\ (~Stopped(opened) => opened.state = "PROCESSING")
  BY <1>2, <1>3, OpenSegmentType
<1> HIDE DEF opened
<1>5. ~Stopped(opened) => VCtxOK(VerifySdMsgHash(opened, sd, m))
  BY <1>4, VerifySdMsgHashType
<1>6. /\ VCtxOK(Fatal(ctx, "missing fingerprint"))
      /\ VCtxOK(Fatal(keyed, "INIT fingerprint mismatch"))
  BY <1>1, FatalType DEF ErrorKinds
<1> QED
  BY <1>1, <1>4, <1>5, <1>6 DEF HandleSdInit, keyed, opened

(* handle_sd_msg keeps the context well typed. *)
LEMMA HandleSdMsgType ==
    ASSUME NEW ctx, VCtxOK(ctx), NEW sd \in SD, NEW m \in Payload
    PROVE  VCtxOK(HandleSdMsg(ctx, sd, m))
BY FatalType, VerifySdMsgHashType DEF HandleSdMsg, ErrorKinds

(* Checking a signature keeps the context well typed. *)
LEMMA CheckSignatureType ==
    ASSUME NEW ctx, VCtxOK(ctx), NEW sd \in SD
    PROVE  VCtxOK(CheckSignature(ctx, sd))
<1> DEFINE from == AddError(ctx, sd.qf # ctx.last_signed_seq + 1, "SIG from")
           to == AddError(from, sd.qt # ctx.next_seq - 1, "SIG to")
           bad == AddError(to, TRUE, "invalid signature")
           good == [to EXCEPT !.last_signed_seq = sd.qt,
                              !.sig_count = to.sig_count + 1]
<1>1. CheckSignature(ctx, sd) =
        IF HcsVerify(ctx.key, ctx.chain_hash, sd.s) THEN good ELSE bad
  BY DEF CheckSignature
<1>2. VCtxOK(from)
  BY AddErrorType DEF ErrorKinds
<1> HIDE DEF from
<1>3. VCtxOK(to)
  BY <1>2, AddErrorType DEF ErrorKinds
<1> HIDE DEF to
<1>4. VCtxOK(bad)
  BY <1>3, AddErrorType DEF ErrorKinds
<1>5. ASSUME NEW n \in Nat, NEW k \in Nat
      PROVE  VCtxOK([to EXCEPT !.last_signed_seq = n, !.sig_count = k])
  BY <1>3 DEF VCtxOK, VCtx
<1>6. sd.qt \in Nat /\ to.sig_count + 1 \in Nat
  BY <1>3, SMTT(60) DEF VCtxOK, VCtx, SD
<1>7. VCtxOK(good)
  BY <1>5, <1>6
<1> HIDE DEF good, bad
<1> QED
  BY <1>1, <1>4, <1>7

(* handle_sd_sig keeps the context well typed. *)
LEMMA HandleSdSigType ==
    ASSUME NEW ctx, VCtxOK(ctx), NEW sd \in SD, NEW m \in Payload
    PROVE  VCtxOK(HandleSdSig(ctx, sd, m))
<1> DEFINE hashed == VerifySdMsgHash(ctx, sd, m)
<1>1. ctx.state = "PROCESSING" => VCtxOK(hashed)
  BY VerifySdMsgHashType
<1> HIDE DEF hashed
<1>2. ctx.state = "PROCESSING" =>
        /\ VCtxOK(CheckSignature(hashed, sd))
        /\ VCtxOK(AddError(hashed, TRUE, "missing signature"))
  BY <1>1, CheckSignatureType, AddErrorType DEF ErrorKinds
<1>3. VCtxOK(AddError(ctx, TRUE, "SIG before INIT"))
  BY AddErrorType DEF ErrorKinds
<1> QED
  BY <1>1, <1>2, <1>3 DEF HandleSdSig, hashed

(* handle_sd_continue keeps the context well typed. *)
LEMMA HandleSdContinueType ==
    ASSUME NEW ctx, VCtxOK(ctx), NEW sd \in SD, NEW m \in Payload
    PROVE  VCtxOK(HandleSdContinue(ctx, sd, m))
<1> DEFINE next == [ctx EXCEPT !.segment_count = ctx.segment_count + 1]
<1>1. VCtxOK(next) /\ next.state = ctx.state
  BY DEF VCtxOK, VCtx
<1> HIDE DEF next
<1>2. ctx.state = "PROCESSING" => VCtxOK(VerifySdMsgHash(next, sd, m))
  BY <1>1, VerifySdMsgHashType
<1>3. /\ VCtxOK(AddError(ctx, TRUE, "CONTINUE before INIT"))
      /\ VCtxOK(AddError(ctx, TRUE, "CONTINUE fingerprint mismatch"))
  BY AddErrorType DEF ErrorKinds
<1> QED
  BY <1>2, <1>3 DEF HandleSdContinue, next

(* verifier_process_line keeps the context well typed on every line. *)
THEOREM VerifierProcessLineType ==
    ASSUME NEW ctx, VCtxOK(ctx), NEW line \in Line
    PROVE  VCtxOK(VerifierProcessLine(ctx, line))
<1>1. /\ line.msg \in Payload /\ line.cert \in Keys \cup {NoKey}
      /\ line.sd # NoSD => line.sd \in SD
  BY DEF Line
<1>2. line.sd # NoSD => line.sd.type \in SDTypes
  BY <1>1 DEF SD
<1>3. /\ VCtxOK(Fatal(ctx, "no element"))
      /\ VCtxOK(Fatal(ctx, "expected INIT"))
      /\ VCtxOK(AddError(ctx, TRUE, "no element"))
  BY FatalType, AddErrorType DEF ErrorKinds
<1>4. line.sd # NoSD =>
        /\ VCtxOK(HandleSdInit(ctx, line.sd, line.msg, line.cert))
        /\ VCtxOK(HandleSdSig(ctx, line.sd, line.msg))
        /\ VCtxOK(HandleSdContinue(ctx, line.sd, line.msg))
        /\ VCtxOK(HandleSdMsg(ctx, line.sd, line.msg))
  BY <1>1, HandleSdInitType, HandleSdSigType, HandleSdContinueType,
     HandleSdMsgType
<1> QED
  BY <1>2, <1>3, <1>4 DEF VerifierProcessLine, SDTypes

(***************************************************************************)
(* A run without an error                                                   *)
(***************************************************************************)

(* add_error leaves a trace whenever it is called with cause, also when the  *)
(* table is full: it is full of errors then.                                 *)
LEMMA AddErrorClean ==
    ASSUME NEW ctx, VCtxOK(ctx), NEW cond \in BOOLEAN, NEW kind \in ErrorKinds
    PROVE  LET c == AddError(ctx, cond, kind)
           IN  /\ c.errors = << >> <=> ctx.errors = << >> /\ ~cond
               /\ c.msg_count = ctx.msg_count
<1>1. ctx \in VCtx /\ ctx.errors \in Seq(ErrorKinds) /\ Len(ctx.errors) \in Nat
  BY DEF VCtxOK, VCtx
<1>2. /\ Append(ctx.errors, kind) \in Seq(ErrorKinds)
      /\ Append(ctx.errors, kind) # << >>
  BY <1>1, AppendProperties
<1>3. ~(Len(ctx.errors) < MaxErrors) => ctx.errors # << >>
  BY <1>1, VerifierAssumption
<1>4. AddError(ctx, cond, kind) =
        IF cond /\ Len(ctx.errors) < MaxErrors
        THEN [ctx EXCEPT !.errors = Append(ctx.errors, kind)] ELSE ctx
  BY DEF AddError
<1>5. LET c == [ctx EXCEPT !.errors = Append(ctx.errors, kind)]
      IN  c.errors = Append(ctx.errors, kind) /\ c.msg_count = ctx.msg_count
  BY <1>1 DEF VCtx
<1> QED
  BY <1>2, <1>3, <1>4, <1>5

(* An error the engine stops at is on record.                                *)
LEMMA FatalClean ==
    ASSUME NEW ctx, VCtxOK(ctx), NEW kind \in ErrorKinds
    PROVE  /\ Fatal(ctx, kind).errors # << >>
           /\ Fatal(ctx, kind).msg_count = ctx.msg_count
<1> DEFINE c == AddError(ctx, TRUE, kind)
<1>1. VCtxOK(c) /\ c.errors # << >> /\ c.msg_count = ctx.msg_count
  BY AddErrorType, AddErrorClean
<1> HIDE DEF c
<1>2. /\ [c EXCEPT !.state = "ERROR"].errors = c.errors
      /\ [c EXCEPT !.state = "ERROR"].msg_count = c.msg_count
  BY <1>1 DEF VCtxOK, VCtx
<1> QED
  BY <1>1, <1>2 DEF Fatal, c

(* verify_sd_msg_hash finds nothing exactly when the line continues the      *)
(* chain the verifier has computed.                                          *)
LEMMA VerifyClean ==
    ASSUME NEW ctx, VCtxOK(ctx), ctx.state = "PROCESSING",
           NEW sd \in SD, NEW m \in Payload
    PROVE  LET d == VerifySdMsgHash(ctx, sd, m)
           IN  d.errors = << >> =>
                 /\ ctx.errors = << >> /\ sd.q = ctx.next_seq
                 /\ sd.h = HashChainStep(ctx.chain_hash, ctx.next_seq, m)
                 /\ sd.h.alg = ctx.alg
                 /\ d = [ctx EXCEPT !.chain_hash = sd.h,
                                    !.next_seq = ctx.next_seq + 1,
                                    !.msg_count = ctx.msg_count + 1]
<1> DEFINE bad == sd.q # ctx.next_seq
           c == AddError(ctx, bad, "sequence")
           h == HashChainStep(ctx.chain_hash, ctx.next_seq, m)
           diff == h # sd.h
           e == AddError(c, diff, "chain hash")
           d == [e EXCEPT !.chain_hash = h, !.next_seq = e.next_seq + 1,
                          !.msg_count = e.msg_count + 1]
<1>1. VerifySdMsgHash(ctx, sd, m) =
        IF sd.h.alg # ctx.alg THEN Fatal(c, "hash length") ELSE d
  BY DEF VerifySdMsgHash
<1>2. /\ bad \in BOOLEAN /\ diff \in BOOLEAN
      /\ "sequence" \in ErrorKinds /\ "chain hash" \in ErrorKinds
      /\ "hash length" \in ErrorKinds
  BY DEF ErrorKinds
<1> HIDE DEF bad, diff, h
<1>3. /\ VCtxOK(c) /\ (~bad => c = ctx)
      /\ c.errors = << >> <=> ctx.errors = << >> /\ ~bad
  <2>1. VCtxOK(c) /\ (~bad => c = ctx)
    BY <1>2, AddErrorType
  <2>2. c.errors = << >> <=> ctx.errors = << >> /\ ~bad
    BY <1>2, AddErrorClean
  <2> HIDE DEF c
  <2> QED
    BY <2>1, <2>2
<1> HIDE DEF c
<1>4. /\ VCtxOK(e) /\ (~diff => e = c)
      /\ e.errors = << >> <=> c.errors = << >> /\ ~diff
  <2>1. VCtxOK(e) /\ (~diff => e = c)
    BY <1>2, <1>3, AddErrorType
  <2>2. e.errors = << >> <=> c.errors = << >> /\ ~diff
    BY <1>2, <1>3, AddErrorClean
  <2> HIDE DEF e
  <2> QED
    BY <2>1, <2>2
<1>5. Fatal(c, "hash length").errors # << >>
  BY <1>2, <1>3, FatalClean
<1> HIDE DEF e
<1>6. d.errors = e.errors
  BY <1>4 DEF VCtxOK, VCtx
<1>7. d.errors = << >> => e = ctx /\ ctx.errors = << >> /\ ~bad /\ ~diff
  BY <1>3, <1>4, <1>6
<1> HIDE DEF d
<1>8. e = ctx /\ ~diff =>
        d = [ctx EXCEPT !.chain_hash = sd.h, !.next_seq = ctx.next_seq + 1,
                        !.msg_count = ctx.msg_count + 1]
  BY DEF d, diff
<1> QED
  BY <1>1, <1>5, <1>7, <1>8 DEF bad, diff, h

(* install_pubkey_from_cert finds nothing when there is a key afterwards, or *)
(* none was to be taken from a certificate.                                  *)
LEMMA InstallKeyClean ==
    ASSUME NEW ctx, VCtxOK(ctx), NEW cert \in Keys \cup {NoKey}
    PROVE  LET d == InstallKey(ctx, cert)
           IN  d.errors = << >> =>
                 /\ ctx.errors = << >>
                 /\ d = [ctx EXCEPT !.key = d.key]
                 /\ ctx.key # NoKey => d.key = ctx.key
<1>1. /\ Fatal(ctx, "certificate required").errors # << >>
      /\ Fatal(ctx, "certificate chain validation").errors # << >>
  BY FatalClean DEF ErrorKinds
<1>2. /\ [ctx EXCEPT !.key = cert].errors = ctx.errors
      /\ [ctx EXCEPT !.key = cert].key = cert
      /\ [ctx EXCEPT !.key = ctx.key] = ctx
  BY DEF VCtxOK, VCtx
<1> QED
  BY <1>1, <1>2 DEF InstallKey

(* Closing a segment finds nothing when a strict run sees it signed.         *)
LEMMA CloseSegmentClean ==
    ASSUME NEW ctx, VCtxOK(ctx)
    PROVE  LET d == CloseSegment(ctx)
           IN  d.errors = << >> =>
                 /\ ctx.errors = << >>
                 /\ IF ctx.state = "PROCESSING"
                    THEN /\ ctx.strict => ~HasUnsigned(ctx)
                         /\ d = [ctx EXCEPT !.last_signed_seq = 0]
                    ELSE d = ctx
<1> DEFINE cond == ctx.strict /\ HasUnsigned(ctx)
           c == AddError(ctx, cond, "unsigned before segment")
<1>1. cond \in BOOLEAN
  BY DEF VCtxOK, VCtx, HasUnsigned
<1>2. CloseSegment(ctx) =
        IF ctx.state # "PROCESSING" THEN ctx
        ELSE [c EXCEPT !.last_signed_seq = 0]
  BY DEF CloseSegment
<1> HIDE DEF cond
<1>3. /\ VCtxOK(c) /\ (~cond => c = ctx)
      /\ c.errors = << >> <=> ctx.errors = << >> /\ ~cond
  BY <1>1, AddErrorType, AddErrorClean DEF ErrorKinds
<1> HIDE DEF c
<1>4. [c EXCEPT !.last_signed_seq = 0].errors = c.errors
  BY <1>3 DEF VCtxOK, VCtx
<1> QED
  BY <1>2, <1>3, <1>4 DEF cond

(* What every line that is counted leaves behind.                            *)
Advanced(ctx, sd, d) ==
    /\ d.errors = << >> /\ d.state = "PROCESSING"
    /\ d.chain_hash = sd.h /\ d.next_seq = sd.q + 1 /\ d.alg = sd.h.alg
    /\ d.msg_count = ctx.msg_count + 1
    /\ d.strict = ctx.strict /\ d.ca = ctx.ca

(* The entry continues the chain of the open segment.                        *)
Continues(ctx, sd, m) ==
    /\ ctx.state = "PROCESSING" /\ sd.h.alg = ctx.alg
    /\ sd.q = ctx.next_seq /\ sd.h = HashChainStep(ctx.chain_hash, sd.q, m)

(* The fields after verify_sd_msg_hash found nothing                         *)
LEMMA VerifyCleanFields ==
    ASSUME NEW ctx, VCtxOK(ctx), ctx.state = "PROCESSING",
           NEW sd \in SD, NEW m \in Payload
    PROVE  LET d == VerifySdMsgHash(ctx, sd, m)
           IN  d.errors = << >> =>
                 /\ ctx.errors = << >> /\ Continues(ctx, sd, m)
                 /\ Advanced(ctx, sd, d) /\ d.key = ctx.key
                 /\ d.last_signed_seq = ctx.last_signed_seq
<1> DEFINE d == VerifySdMsgHash(ctx, sd, m)
<1> SUFFICES ASSUME d.errors = << >>
             PROVE  /\ ctx.errors = << >> /\ Continues(ctx, sd, m)
                    /\ Advanced(ctx, sd, d) /\ d.key = ctx.key
                    /\ d.last_signed_seq = ctx.last_signed_seq
  OBVIOUS
<1>1. /\ ctx.errors = << >> /\ sd.q = ctx.next_seq
      /\ sd.h = HashChainStep(ctx.chain_hash, ctx.next_seq, m)
      /\ sd.h.alg = ctx.alg
      /\ d = [ctx EXCEPT !.chain_hash = sd.h, !.next_seq = ctx.next_seq + 1,
                         !.msg_count = ctx.msg_count + 1]
  BY VerifyClean
<1> HIDE DEF d
<1>2. ctx \in VCtx
  BY DEF VCtxOK
<1>3. /\ d.errors = ctx.errors /\ d.state = ctx.state /\ d.chain_hash = sd.h
      /\ d.next_seq = ctx.next_seq + 1 /\ d.alg = ctx.alg
      /\ d.msg_count = ctx.msg_count + 1 /\ d.strict = ctx.strict
      /\ d.ca = ctx.ca /\ d.key = ctx.key
      /\ d.last_signed_seq = ctx.last_signed_seq
  BY <1>1, <1>2 DEF VCtx
<1> QED
  BY <1>1, <1>3 DEF Continues, Advanced

(* Opening a segment finds nothing when the algorithm is the locked-in one.  *)
LEMMA OpenSegmentClean ==
    ASSUME NEW ctx, VCtxOK(ctx), NEW alg \in Algs
    PROVE  LET d == OpenSegment(ctx, alg)
           IN  d.errors = << >> =>
                 /\ ctx.errors = << >> /\ ctx.alg \in {NoAlg, alg}
                 /\ VCtxOK(d) /\ d.state = "PROCESSING" /\ d.alg = alg
                 /\ d.chain_hash = ChainInitHash(alg) /\ d.next_seq = 1
                 /\ d.msg_count = ctx.msg_count /\ d.strict = ctx.strict
                 /\ d.ca = ctx.ca /\ d.key = ctx.key
                 /\ d.last_signed_seq = ctx.last_signed_seq
<1> DEFINE h == ChainInitHash(alg)
           k == ctx.segment_count + 1
           c0 == Fatal(ctx, "algorithm changed")
           c1 == [ctx EXCEPT !.alg = alg, !.chain_hash = h, !.next_seq = 1,
                             !.segment_count = k, !.state = "PROCESSING"]
<1>1. c0.errors # << >>
  BY FatalClean DEF ErrorKinds
<1>2. h \in Digest
  BY ChainInitHashType
<1>3. ctx \in VCtx /\ k \in Nat
  BY DEF VCtxOK, VCtx
<1>4. OpenSegment(ctx, alg) =
        IF ctx.alg # NoAlg /\ ctx.alg # alg THEN c0 ELSE c1
  BY DEF OpenSegment
<1>5. VCtxOK(OpenSegment(ctx, alg))
  BY OpenSegmentType
<1> HIDE DEF c0, h, k
<1>6. /\ c1.errors = ctx.errors /\ c1.state = "PROCESSING" /\ c1.alg = alg
      /\ c1.chain_hash = h /\ c1.next_seq = 1 /\ c1.msg_count = ctx.msg_count
      /\ c1.strict = ctx.strict /\ c1.ca = ctx.ca /\ c1.key = ctx.key
      /\ c1.last_signed_seq = ctx.last_signed_seq
  BY <1>2, <1>3 DEF VCtx, VStates
<1> HIDE DEF c1
<1> QED
  BY <1>1, <1>4, <1>5, <1>6 DEF h

(* An INIT line without a finding                                            *)
LEMMA InitClean ==
    ASSUME NEW ctx, VCtxOK(ctx), ~Stopped(ctx), NEW sd \in SD,
           NEW m \in Payload, NEW cert \in Keys \cup {NoKey}
    PROVE  LET d == HandleSdInit(ctx, sd, m, cert)
           IN  d.errors = << >> =>
                 /\ ctx.errors = << >> /\ ctx.alg \in {NoAlg, sd.h.alg}
                 /\ sd.q = 1
                 /\ sd.h = HashChainStep(ChainInitHash(sd.h.alg), 1, m)
                 /\ ctx.state = "PROCESSING" /\ ctx.strict => ~HasUnsigned(ctx)
                 /\ Advanced(ctx, sd, d)
                 /\ d.key = sd.f /\ sd.f # NoKey
                 /\ ctx.key # NoKey => d.key = ctx.key
                 /\ d.last_signed_seq = IF ctx.state = "PROCESSING" THEN 0
                                        ELSE ctx.last_signed_seq
<1> DEFINE keyed == InstallKey(ctx, cert)
           closed == CloseSegment(keyed)
           opened == OpenSegment(closed, sd.h.alg)
           e == VerifySdMsgHash(opened, sd, m)
           d == HandleSdInit(ctx, sd, m, cert)
<1> SUFFICES ASSUME d.errors = << >>
             PROVE  /\ ctx.errors = << >> /\ ctx.alg \in {NoAlg, sd.h.alg}
                    /\ sd.q = 1
                    /\ sd.h = HashChainStep(ChainInitHash(sd.h.alg), 1, m)
                    /\ ctx.state = "PROCESSING" /\ ctx.strict => ~HasUnsigned(ctx)
                    /\ Advanced(ctx, sd, d)
                    /\ d.key = sd.f /\ sd.f # NoKey
                    /\ ctx.key # NoKey => d.key = ctx.key
                    /\ d.last_signed_seq = IF ctx.state = "PROCESSING" THEN 0
                                           ELSE ctx.last_signed_seq
  OBVIOUS
<1>1. /\ Fatal(ctx, "missing fingerprint").errors # << >>
      /\ VCtxOK(keyed)
      /\ Fatal(keyed, "INIT fingerprint mismatch").errors # << >>
  <2>1. VCtxOK(keyed)
    BY InstallKeyType
  <2> HIDE DEF keyed
  <2> QED
    BY <2>1, FatalClean DEF ErrorKinds
<1>2. /\ sd.f # NoKey
      /\ \/ Stopped(keyed) /\ d = keyed
         \/ ~Stopped(keyed) /\ sd.f = keyed.key
            /\ d = IF Stopped(opened) THEN opened ELSE e
  BY <1>1 DEF HandleSdInit
<1>3. keyed.errors = << >> =>
        /\ ctx.errors = << >> /\ keyed = [ctx EXCEPT !.key = keyed.key]
        /\ ctx.key # NoKey => keyed.key = ctx.key
  BY InstallKeyClean
<1>4. sd.h.alg \in Algs
  BY DEF SD, Digest
<1> HIDE DEF keyed, d
<1>5. keyed.errors = << >> =>
        /\ keyed.state = ctx.state /\ ~Stopped(keyed)
        /\ keyed.alg = ctx.alg /\ keyed.strict = ctx.strict
        /\ keyed.ca = ctx.ca /\ keyed.msg_count = ctx.msg_count
        /\ keyed.next_seq = ctx.next_seq
        /\ keyed.last_signed_seq = ctx.last_signed_seq
  BY <1>3 DEF VCtxOK, VCtx, Stopped
<1>6. /\ VCtxOK(closed)
      /\ closed.errors = << >> =>
            /\ keyed.errors = << >>
            /\ IF keyed.state = "PROCESSING"
               THEN /\ keyed.strict => ~HasUnsigned(keyed)
                    /\ closed = [keyed EXCEPT !.last_signed_seq = 0]
               ELSE closed = keyed
  BY <1>1, CloseSegmentType, CloseSegmentClean
<1> HIDE DEF closed
<1>7. closed.errors = << >> =>
        /\ closed.state = keyed.state /\ closed.alg = keyed.alg
        /\ closed.strict = keyed.strict /\ closed.ca = keyed.ca
        /\ closed.msg_count = keyed.msg_count /\ closed.key = keyed.key
        /\ closed.last_signed_seq = IF keyed.state = "PROCESSING" THEN 0
                                    ELSE keyed.last_signed_seq
  BY <1>1, <1>6 DEF VCtxOK, VCtx
<1>8. VCtxOK(opened) /\ (~Stopped(opened) => opened.state = "PROCESSING")
  BY <1>4, <1>6, OpenSegmentType
<1>9. opened.errors = << >> =>
        /\ closed.errors = << >> /\ closed.alg \in {NoAlg, sd.h.alg}
        /\ opened.state = "PROCESSING"
        /\ opened.chain_hash = ChainInitHash(sd.h.alg) /\ opened.next_seq = 1
        /\ opened.msg_count = closed.msg_count /\ opened.strict = closed.strict
        /\ opened.ca = closed.ca /\ opened.key = closed.key
        /\ opened.last_signed_seq = closed.last_signed_seq
  BY <1>4, <1>6, OpenSegmentClean
<1> HIDE DEF opened
<1>10. ~Stopped(opened) /\ e.errors = << >> =>
         /\ opened.errors = << >> /\ Continues(opened, sd, m)
         /\ Advanced(opened, sd, e) /\ e.key = opened.key
         /\ e.last_signed_seq = opened.last_signed_seq
  BY <1>8, VerifyCleanFields
<1> HIDE DEF e
<1>11. ~Stopped(keyed)
  BY <1>2, <1>5
<1>12. opened.errors = << >> /\ ~Stopped(opened) /\ d = e
  BY <1>2, <1>9, <1>10, <1>11 DEF Stopped
<1>13. keyed.errors = << >> /\ closed.errors = << >>
  BY <1>6, <1>9, <1>12
<1>14. HasUnsigned(keyed) = HasUnsigned(ctx)
  BY <1>5, <1>13 DEF HasUnsigned
<1>15. Continues(opened, sd, m) /\ Advanced(opened, sd, d)
       /\ d.key = opened.key /\ d.last_signed_seq = opened.last_signed_seq
  BY <1>10, <1>12
<1>16. sd.q = 1 /\ sd.h = HashChainStep(ChainInitHash(sd.h.alg), 1, m)
  BY <1>9, <1>12, <1>13, <1>15 DEF Continues
<1>17. Advanced(ctx, sd, d)
  BY <1>5, <1>7, <1>9, <1>12, <1>13, <1>15 DEF Advanced
<1> QED
  BY <1>2, <1>3, <1>5, <1>6, <1>7, <1>9, <1>11, <1>12, <1>13, <1>14, <1>15,
     <1>16, <1>17

(* A signature without a finding covers the range up to its own line.        *)
LEMMA CheckSignatureClean ==
    ASSUME NEW ctx, VCtxOK(ctx), NEW sd \in SD
    PROVE  LET d == CheckSignature(ctx, sd)
           IN  d.errors = << >> =>
                 /\ ctx.errors = << >> /\ sd.qf = ctx.last_signed_seq + 1
                 /\ sd.qt = ctx.next_seq - 1
                 /\ sd.s = HcsSign(ctx.key, ctx.chain_hash)
                 /\ d = [ctx EXCEPT !.last_signed_seq = sd.qt,
                                    !.sig_count = ctx.sig_count + 1]
<1> DEFINE off == sd.qf # ctx.last_signed_seq + 1
           short == sd.qt # ctx.next_seq - 1
           from == AddError(ctx, off, "SIG from")
           to == AddError(from, short, "SIG to")
           bad == AddError(to, TRUE, "invalid signature")
           good == [to EXCEPT !.last_signed_seq = sd.qt,
                              !.sig_count = to.sig_count + 1]
<1>1. from.next_seq = ctx.next_seq
  BY AddErrorType DEF ErrorKinds
<1>2. CheckSignature(ctx, sd) =
        IF HcsVerify(ctx.key, ctx.chain_hash, sd.s) THEN good ELSE bad
  BY <1>1 DEF CheckSignature
<1>3. /\ off \in BOOLEAN /\ short \in BOOLEAN /\ TRUE \in BOOLEAN
      /\ "SIG from" \in ErrorKinds /\ "SIG to" \in ErrorKinds
      /\ "invalid signature" \in ErrorKinds
  BY DEF ErrorKinds
<1> HIDE DEF off, short
<1>4. /\ VCtxOK(from) /\ (~off => from = ctx)
      /\ from.errors = << >> <=> ctx.errors = << >> /\ ~off
  <2>1. VCtxOK(from) /\ (~off => from = ctx)
    BY <1>3, AddErrorType
  <2>2. from.errors = << >> <=> ctx.errors = << >> /\ ~off
    BY <1>3, AddErrorClean
  <2> HIDE DEF from
  <2> QED
    BY <2>1, <2>2
<1> HIDE DEF from
<1>5. /\ VCtxOK(to) /\ (~short => to = from)
      /\ to.errors = << >> <=> from.errors = << >> /\ ~short
  <2>1. VCtxOK(to) /\ (~short => to = from)
    BY <1>3, <1>4, AddErrorType
  <2>2. to.errors = << >> <=> from.errors = << >> /\ ~short
    BY <1>3, <1>4, AddErrorClean
  <2> HIDE DEF to
  <2> QED
    BY <2>1, <2>2
<1> HIDE DEF to
<1>6. bad.errors # << >>
  BY <1>3, <1>5, AddErrorClean
<1>7. good.errors = to.errors
  BY <1>5 DEF VCtxOK, VCtx
<1> HIDE DEF bad, good
<1> SUFFICES ASSUME CheckSignature(ctx, sd).errors = << >>
             PROVE  /\ ctx.errors = << >> /\ ~off /\ ~short
                    /\ sd.s = HcsSign(ctx.key, ctx.chain_hash)
                    /\ CheckSignature(ctx, sd) =
                         [ctx EXCEPT !.last_signed_seq = sd.qt,
                                     !.sig_count = ctx.sig_count + 1]
  BY DEF off, short
<1>8. /\ HcsVerify(ctx.key, ctx.chain_hash, sd.s)
      /\ CheckSignature(ctx, sd) = good
  BY <1>2, <1>6
<1>9. ctx.errors = << >> /\ ~off /\ ~short /\ to = ctx
  BY <1>4, <1>5, <1>7, <1>8
<1>10. good = [ctx EXCEPT !.last_signed_seq = sd.qt,
                          !.sig_count = ctx.sig_count + 1]
  BY <1>9 DEF good
<1> QED
  BY <1>8, <1>9, <1>10 DEF HcsVerify

(* A SIG line without a finding                                              *)
LEMMA SigClean ==
    ASSUME NEW ctx, VCtxOK(ctx), NEW sd \in SD, NEW m \in Payload
    PROVE  LET d == HandleSdSig(ctx, sd, m)
           IN  d.errors = << >> =>
                 /\ ctx.errors = << >> /\ Continues(ctx, sd, m)
                 /\ Advanced(ctx, sd, d) /\ d.key = ctx.key
                 /\ sd.qf = ctx.last_signed_seq + 1 /\ sd.qt = sd.q
                 /\ sd.s # NoSig /\ sd.s = HcsSign(ctx.key, sd.h)
                 /\ d.last_signed_seq = sd.q
<1> DEFINE hashed == VerifySdMsgHash(ctx, sd, m)
           d == HandleSdSig(ctx, sd, m)
           missing == AddError(hashed, TRUE, "missing signature")
<1>1. /\ TRUE \in BOOLEAN /\ "SIG before INIT" \in ErrorKinds
      /\ "missing signature" \in ErrorKinds
  BY DEF ErrorKinds
<1>2. AddError(ctx, TRUE, "SIG before INIT").errors # << >>
  BY <1>1, AddErrorClean
<1> SUFFICES ASSUME d.errors = << >>
             PROVE  /\ ctx.errors = << >> /\ Continues(ctx, sd, m)
                    /\ Advanced(ctx, sd, d) /\ d.key = ctx.key
                    /\ sd.qf = ctx.last_signed_seq + 1 /\ sd.qt = sd.q
                    /\ sd.s # NoSig /\ sd.s = HcsSign(ctx.key, sd.h)
                    /\ d.last_signed_seq = sd.q
  OBVIOUS
<1>3. ctx.state = "PROCESSING"
  BY <1>2 DEF HandleSdSig
<1>4. /\ VCtxOK(hashed)
      /\ hashed.errors = << >> =>
            /\ ctx.errors = << >> /\ Continues(ctx, sd, m)
            /\ Advanced(ctx, sd, hashed) /\ hashed.key = ctx.key
            /\ hashed.last_signed_seq = ctx.last_signed_seq
  BY <1>3, VerifySdMsgHashType, VerifyCleanFields
<1>5. d = IF Stopped(hashed) THEN hashed
          ELSE IF sd.s = NoSig THEN missing ELSE CheckSignature(hashed, sd)
  BY <1>3 DEF HandleSdSig
<1> HIDE DEF hashed, d
<1>6. missing.errors # << >>
  BY <1>1, <1>4, AddErrorClean
<1>7. ~Stopped(hashed)
  BY <1>4, <1>5 DEF Advanced, Stopped
<1>8. d = CheckSignature(hashed, sd) /\ sd.s # NoSig
  BY <1>5, <1>6, <1>7
<1>9. /\ hashed.errors = << >> /\ sd.qf = hashed.last_signed_seq + 1
      /\ sd.qt = hashed.next_seq - 1
      /\ sd.s = HcsSign(hashed.key, hashed.chain_hash)
      /\ d = [hashed EXCEPT !.last_signed_seq = sd.qt,
                            !.sig_count = hashed.sig_count + 1]
  BY <1>4, <1>8, CheckSignatureClean
<1>10. /\ d.errors = hashed.errors /\ d.state = hashed.state
       /\ d.chain_hash = hashed.chain_hash /\ d.next_seq = hashed.next_seq
       /\ d.alg = hashed.alg /\ d.msg_count = hashed.msg_count
       /\ d.strict = hashed.strict /\ d.ca = hashed.ca /\ d.key = hashed.key
       /\ d.last_signed_seq = sd.qt
  BY <1>4, <1>9 DEF VCtxOK, VCtx
<1>11. sd.qt = sd.q
  BY <1>4, <1>9 DEF Advanced, SD
<1>12. Advanced(ctx, sd, d)
  BY <1>4, <1>9, <1>10 DEF Advanced
<1> QED
  BY <1>4, <1>8, <1>9, <1>10, <1>11, <1>12 DEF Advanced

(* A CONTINUE line without a finding                                         *)
LEMMA ContinueClean ==
    ASSUME NEW ctx, VCtxOK(ctx), NEW sd \in SD, NEW m \in Payload
    PROVE  LET d == HandleSdContinue(ctx, sd, m)
           IN  d.errors = << >> =>
                 /\ ctx.errors = << >> /\ Continues(ctx, sd, m)
                 /\ Advanced(ctx, sd, d) /\ d.key = ctx.key
                 /\ sd.f \in {NoKey, ctx.key}
                 /\ d.last_signed_seq = ctx.last_signed_seq
<1> DEFINE next == [ctx EXCEPT !.segment_count = ctx.segment_count + 1]
           hashed == VerifySdMsgHash(next, sd, m)
           d == HandleSdContinue(ctx, sd, m)
<1>1. /\ TRUE \in BOOLEAN /\ "CONTINUE before INIT" \in ErrorKinds
      /\ "CONTINUE fingerprint mismatch" \in ErrorKinds
  BY DEF ErrorKinds
<1>2. /\ AddError(ctx, TRUE, "CONTINUE before INIT").errors # << >>
      /\ AddError(ctx, TRUE, "CONTINUE fingerprint mismatch").errors # << >>
  BY <1>1, AddErrorClean
<1>3. /\ VCtxOK(next) /\ next.errors = ctx.errors /\ next.state = ctx.state
      /\ next.alg = ctx.alg /\ next.chain_hash = ctx.chain_hash
      /\ next.next_seq = ctx.next_seq /\ next.msg_count = ctx.msg_count
      /\ next.strict = ctx.strict /\ next.ca = ctx.ca /\ next.key = ctx.key
      /\ next.last_signed_seq = ctx.last_signed_seq
  BY SMTT(60) DEF VCtxOK, VCtx
<1> SUFFICES ASSUME d.errors = << >>
             PROVE  /\ ctx.errors = << >> /\ Continues(ctx, sd, m)
                    /\ Advanced(ctx, sd, d) /\ d.key = ctx.key
                    /\ sd.f \in {NoKey, ctx.key}
                    /\ d.last_signed_seq = ctx.last_signed_seq
  OBVIOUS
<1>4. ctx.state = "PROCESSING" /\ sd.f \in {NoKey, ctx.key} /\ d = hashed
  BY <1>2 DEF HandleSdContinue
<1> HIDE DEF next, d
<1>5. hashed.errors = << >> =>
        /\ next.errors = << >> /\ Continues(next, sd, m)
        /\ Advanced(next, sd, hashed) /\ hashed.key = next.key
        /\ hashed.last_signed_seq = next.last_signed_seq
  BY <1>3, <1>4, VerifyCleanFields
<1> QED
  BY <1>3, <1>4, <1>5 DEF Continues, Advanced

(* verifier_process_line finds nothing: what the line was.                   *)
LEMMA LineClean ==
    ASSUME NEW ctx, VCtxOK(ctx), ~Stopped(ctx), NEW line \in Line,
           NEW d, d = VerifierProcessLine(ctx, line), d.errors = << >>
    PROVE  LET sd == line.sd
           IN  /\ ctx.errors = << >> /\ sd # NoSD /\ sd \in SD
               /\ Advanced(ctx, sd, d)
               /\ IF sd.type = "INIT"
                  THEN /\ sd.q = 1 /\ ctx.alg \in {NoAlg, sd.h.alg}
                       /\ sd.h = HashChainStep(ChainInitHash(sd.h.alg), 1, line.msg)
                       /\ ctx.state = "PROCESSING" /\ ctx.strict =>
                             ~HasUnsigned(ctx)
                       /\ d.key = sd.f /\ sd.f # NoKey
                       /\ ctx.key # NoKey => d.key = ctx.key
                       /\ d.last_signed_seq = IF ctx.state = "PROCESSING" THEN 0
                                              ELSE ctx.last_signed_seq
                  ELSE /\ Continues(ctx, sd, line.msg) /\ d.key = ctx.key
                       /\ sd.type = "CONTINUE" => sd.f \in {NoKey, ctx.key}
                       /\ IF sd.type = "SIG"
                          THEN /\ sd.qf = ctx.last_signed_seq + 1 /\ sd.qt = sd.q
                               /\ sd.s # NoSig /\ sd.s = HcsSign(ctx.key, sd.h)
                               /\ d.last_signed_seq = sd.q
                          ELSE d.last_signed_seq = ctx.last_signed_seq
<1> DEFINE sd == line.sd
<1>1. /\ line.msg \in Payload /\ line.cert \in Keys \cup {NoKey}
      /\ sd # NoSD => sd \in SD /\ sd.type \in SDTypes
  BY DEF Line, SD
<1>2. /\ Fatal(ctx, "no element").errors # << >>
      /\ Fatal(ctx, "expected INIT").errors # << >>
      /\ Fatal(ctx, "message before INIT").errors # << >>
      /\ AddError(ctx, TRUE, "no element").errors # << >>
  <2>1. /\ TRUE \in BOOLEAN /\ "no element" \in ErrorKinds
        /\ "expected INIT" \in ErrorKinds
        /\ "message before INIT" \in ErrorKinds
    BY DEF ErrorKinds
  <2> QED
    BY <2>1, FatalClean, AddErrorClean
<1>3. sd # NoSD
  BY <1>2 DEF VerifierProcessLine
<1>4. CASE sd.type = "INIT"
  <2>1. d = HandleSdInit(ctx, sd, line.msg, line.cert)
    BY <1>3, <1>4 DEF VerifierProcessLine
  <2> QED
    BY <1>1, <1>3, <1>4, <2>1, InitClean
<1>5. CASE sd.type # "INIT"
  <2>1. ctx.state # "EXPECT_INIT"
    BY <1>2, <1>3, <1>5 DEF VerifierProcessLine
  <2>2. CASE sd.type = "SIG"
    <3>1. d = HandleSdSig(ctx, sd, line.msg)
      BY <1>3, <2>1, <2>2 DEF VerifierProcessLine
    <3> QED
      BY <1>1, <1>3, <2>2, <3>1, SigClean
  <2>3. CASE sd.type = "CONTINUE"
    <3>1. d = HandleSdContinue(ctx, sd, line.msg)
      BY <1>3, <2>1, <2>3 DEF VerifierProcessLine
    <3> QED
      BY <1>1, <1>3, <2>3, <3>1, ContinueClean
  <2>4. CASE sd.type = "MSG"
    <3>1. d = HandleSdMsg(ctx, sd, line.msg)
      BY <1>3, <2>1, <2>4 DEF VerifierProcessLine
    <3>2. ctx.state = "PROCESSING" /\ d = VerifySdMsgHash(ctx, sd, line.msg)
      BY <1>2, <3>1 DEF HandleSdMsg
    <3> QED
      BY <1>1, <1>3, <2>4, <3>2, VerifyCleanFields
  <2> QED
    BY <1>1, <1>3, <1>5, <2>2, <2>3, <2>4 DEF SDTypes
<1> QED
  BY <1>4, <1>5

(* What is said of a line depends on it and on the lines before it.          *)
LEMMA ReachAgrees ==
    ASSUME NEW a, NEW b, NEW i \in Nat, \A j \in 1 .. (i - 1) : a[j] = b[j],
           NEW s, Reach(a, i, s)
    PROVE  Reach(b, i, s)
<1>1. ASSUME NEW j \in 1 .. (i - 1)
      PROVE  SignedIn(a, j, i) <=> SignedIn(b, j, i)
  <2>1. \A n \in (j + 1) .. (i - 1) : n \in 1 .. (i - 1)
    OBVIOUS
  <2>2. \A n \in (j + 1) .. (i - 1) : a[n] = b[n]
    BY <2>1
  <2> QED
    BY <2>2 DEF SignedIn
<1> QED
  BY <1>1 DEF Reach

(* The same of soundness                                                     *)
LEMMA SoundAgrees ==
    ASSUME NEW a, NEW b, NEW i \in Nat \ {0}, \A j \in 1 .. i : a[j] = b[j],
           NEW key, Sound(a, i, key)
    PROVE  Sound(b, i, key)
<1>1. a[i] = b[i] /\ a[1] = b[1] /\ (i > 1 => a[i - 1] = b[i - 1])
  <2>1. i \in 1 .. i /\ 1 \in 1 .. i /\ (i > 1 => i - 1 \in 1 .. i)
    OBVIOUS
  <2> QED
    BY <2>1
<1>2. Chains(b, i)
  BY <1>1 DEF Sound, Chains
<1>3. \A s : Reach(a, i, s) => Reach(b, i, s)
  <2>1. \A j \in 1 .. (i - 1) : a[j] = b[j]
    OBVIOUS
  <2> QED
    BY <2>1, ReachAgrees
<1> QED
  BY <1>1, <1>2, <1>3 DEF Sound

(* Append keeps the lines there are.                                         *)
LEMMA AppendLine ==
    ASSUME NEW lines \in Seq(Line), NEW line \in Line
    PROVE  LET new == Append(lines, line)
           IN  /\ new \in Seq(Line) /\ Len(lines) \in Nat
               /\ Len(new) = Len(lines) + 1
               /\ \A i \in 1 .. Len(lines) : new[i] = lines[i]
               /\ new[Len(lines) + 1] = line
BY AppendProperties

(* Signatures reach as far in a longer sequence; an INIT line is out of the  *)
(* reach of all of them, and a SIG line reaches to itself.                   *)
LEMMA ReachGrows ==
    ASSUME NEW lines \in Seq(Line), NEW line \in Line,
           NEW s \in Nat, Reach(lines, Len(lines) + 1, s)
    PROVE  LET n == Len(lines)
               new == Append(lines, line)
           IN  /\ Reach(new, n + 1, s)
               /\ line.sd.type = "INIT" => Reach(new, n + 2, 0)
               /\ line.sd.type \notin {"INIT", "SIG"} => Reach(new, n + 2, s)
               /\ line.sd.type = "SIG" /\ line.sd.q \in Nat /\ line.sd.q > s /\
                  (\A j \in 1 .. n : lines[j].sd.type = "SIG" => lines[j].sd.q \in Nat) =>
                      Reach(new, n + 2, line.sd.q)
<1> DEFINE n == Len(lines)
           new == Append(lines, line)
<1>1. /\ n \in Nat /\ new[n + 1] = line
      /\ \A j \in 1 .. n : new[j] = lines[j]
  BY AppendLine
<1> HIDE DEF n, new
<1>2. n + 1 \in Nat /\ (n + 1) - 1 = n /\ (n + 2) - 1 = n + 1
  BY <1>1
<1>3. Reach(lines, n + 1, s)
  BY DEF n
<1>4. Reach(new, n + 1, s)
  BY <1>1, <1>2, <1>3, ReachAgrees
<1>5. ASSUME NEW j \in 1 .. n
      PROVE  SignedIn(new, j, n + 2) <=>
                 SignedIn(new, j, n + 1) /\ line.sd.type # "INIT"
  <2>1. (j + 1) .. (n + 1) = ((j + 1) .. n) \cup {n + 1}
    BY <1>1
  <2> QED
    BY <1>1, <1>2, <2>1 DEF SignedIn
<1>6. SignedIn(new, n + 1, n + 2) <=> line.sd.type = "SIG"
  BY <1>1, <1>2 DEF SignedIn
<1>7. 1 .. (n + 1) = (1 .. n) \cup {n + 1}
  BY <1>1
<1>8. line.sd.type = "INIT" => Reach(new, n + 2, 0)
  BY <1>1, <1>2, <1>5, <1>6, <1>7 DEF Reach
<1>9. line.sd.type \notin {"INIT", "SIG"} => Reach(new, n + 2, s)
  BY <1>1, <1>2, <1>4, <1>5, <1>6, <1>7 DEF Reach
<1>10. ASSUME line.sd.type = "SIG", line.sd.q \in Nat, line.sd.q > s,
              \A j \in 1 .. n : lines[j].sd.type = "SIG" => lines[j].sd.q \in Nat
       PROVE  Reach(new, n + 2, line.sd.q)
  <2>1. ASSUME NEW j \in 1 .. (n + 1), SignedIn(new, j, n + 2)
        PROVE  new[j].sd.q <= line.sd.q
    <3>1. CASE j = n + 1
      BY <1>1, <1>10, <3>1
    <3>2. CASE j \in 1 .. n
      <4>1. SignedIn(new, j, n + 1)
        BY <1>5, <2>1, <3>2
      <4>2. new[j].sd.q <= s /\ new[j].sd.q \in Nat
        BY <1>1, <1>2, <1>4, <1>10, <3>2, <4>1 DEF Reach, SignedIn
      <4> QED
        BY <1>10, <4>2
    <3> QED
      BY <1>7, <3>1, <3>2
  <2>2. /\ n + 1 \in 1 .. (n + 1) /\ SignedIn(new, n + 1, n + 2)
        /\ new[n + 1].sd.q = line.sd.q
    BY <1>1, <1>6, <1>10
  <2> QED
    BY <1>2, <2>1, <2>2 DEF Reach
<1> QED
  BY <1>4, <1>8, <1>9, <1>10 DEF n, new

(* The lines counted so far stay sound when one more is read.                *)
LEMMA CountsAppend ==
    ASSUME NEW c, VCtxOK(c), NEW lines \in Seq(Line), NEW line \in Line,
           Counts(c, lines)
    PROVE  Counts(c, Append(lines, line))
<1> DEFINE n == Len(lines)
           new == Append(lines, line)
<1>1. /\ n \in Nat /\ Len(new) = n + 1
      /\ \A i \in 1 .. n : new[i] = lines[i]
  BY AppendLine
<1>2. c.msg_count \in Nat /\ c.msg_count <= n
  BY DEF VCtxOK, VCtx, Counts
<1> HIDE DEF new
<1>3. ASSUME NEW i \in 1 .. c.msg_count
      PROVE  Sound(new, i, c.key) /\ new[i] = lines[i]
  <2>1. /\ i \in Nat \ {0} /\ \A j \in 1 .. i : lines[j] = new[j]
        /\ i \in 1 .. n
    BY <1>1, <1>2
  <2>2. Sound(lines, i, c.key)
    BY DEF Counts
  <2> QED
    BY <1>1, <2>1, <2>2, SoundAgrees
<1>4. ASSUME NEW i \in 2 .. c.msg_count
      PROVE  new[i] = lines[i] /\ new[i - 1] = lines[i - 1]
  <2>1. i \in 1 .. c.msg_count /\ i - 1 \in 1 .. c.msg_count
    BY <1>2
  <2> QED
    BY <1>3, <2>1
<1>5. c.msg_count > 0 => new[c.msg_count] = lines[c.msg_count]
  BY <1>2, <1>3
<1> QED
  BY <1>1, <1>2, <1>3, <1>4, <1>5 DEF Counts, new

(* verifier_init knows nothing.                                              *)
LEMMA TracksInit ==
    ASSUME NEW opts \in VOpts
    PROVE  Tracks(VerifierInit(opts), << >>)
<1> DEFINE c == VerifierInit(opts)
<1>1. /\ c.state = "EXPECT_INIT" /\ c.alg = NoAlg /\ c.next_seq = 1
      /\ c.msg_count = 0 /\ c.last_signed_seq = 0
  BY DEF VerifierInit
<1> HIDE DEF c
<1> QED
  BY <1>1 DEF Tracks, Counts, AtStart, InSegment, c

(* A line processed without a finding was sound.                             *)
LEMMA CleanIsSound ==
    ASSUME NEW c, VCtxOK(c), ~Stopped(c), NEW lines \in Seq(Line),
           Tracks(c, lines), NEW line \in Line,
           NEW d, d = VerifierProcessLine(c, line), d.errors = << >>
    PROVE  LET n == Len(lines)
           IN  /\ Sound(Append(lines, line), n + 1, d.key)
               /\ c.msg_count = n /\ (n > 0 => c.key = d.key)
               /\ Reach(lines, n + 1, c.last_signed_seq)
<1> DEFINE n == Len(lines)
           new == Append(lines, line)
           sd == line.sd
<1>1. /\ n \in Nat /\ new[n + 1] = line
      /\ \A i \in 1 .. n : new[i] = lines[i]
  BY AppendLine
<1>2. /\ c.errors = << >> /\ sd # NoSD /\ sd \in SD /\ Advanced(c, sd, d)
      /\ sd.type = "INIT" =>
            /\ sd.q = 1 /\ c.alg \in {NoAlg, sd.h.alg}
            /\ sd.h = HashChainStep(ChainInitHash(sd.h.alg), 1, line.msg)
            /\ d.key = sd.f /\ (c.key # NoKey => d.key = c.key)
      /\ sd.type # "INIT" =>
            /\ Continues(c, sd, line.msg) /\ d.key = c.key
            /\ sd.type = "CONTINUE" => sd.f \in {NoKey, c.key}
            /\ sd.type = "SIG" =>
                  /\ sd.qf = c.last_signed_seq + 1 /\ sd.qt = sd.q
                  /\ sd.s # NoSig /\ sd.s = HcsSign(c.key, sd.h)
  BY LineClean
<1>3. Counts(c, lines) /\ AtStart(c, lines) /\ InSegment(c, lines)
  BY <1>2 DEF Tracks
<1>4. c.state \in {"EXPECT_INIT", "PROCESSING"} /\ c.last_signed_seq \in Nat
  BY DEF VCtxOK, VCtx, VStates, Stopped
<1>5. CASE c.state = "EXPECT_INIT"
  <2>1. lines = << >> /\ n = 0 /\ c.msg_count = 0 /\ c.last_signed_seq = 0
    BY <1>3, <1>5 DEF AtStart
  <2>2. sd.type = "INIT"
    BY <1>2, <1>5 DEF Continues
  <2>3. new[1] = line
    BY <1>1, <2>1
  <2> HIDE DEF new, n
  <2>4. Sound(new, 1, d.key)
    BY <1>2, <2>2, <2>3 DEF Sound, Chains
  <2>5. Reach(lines, 1, 0)
    BY DEF Reach
  <2> QED
    BY <2>1, <2>4, <2>5 DEF new, n
<1>6. CASE c.state = "PROCESSING"
  <2>1. /\ n > 0 /\ c.msg_count = n /\ c.key # NoKey
        /\ c.chain_hash = lines[n].sd.h /\ c.next_seq = lines[n].sd.q + 1
        /\ c.alg = lines[1].sd.h.alg /\ Reach(lines, n + 1, c.last_signed_seq)
    BY <1>3, <1>6 DEF InSegment
  <2>2. c.alg \in Algs /\ c.alg # NoAlg
    BY <1>6, VerifierAssumption DEF VCtxOK
  <2>3. new[n] = lines[n] /\ new[1] = lines[1]
    BY <1>1, <2>1
  <2>4. c.last_signed_seq + 1 > 0 /\ (c.last_signed_seq + 1) - 1 = c.last_signed_seq
        /\ (n + 1) - 1 = n /\ n + 1 > 1
    BY <1>1, <1>4, <2>1
  <2>5. Reach(new, n + 1, c.last_signed_seq)
    BY <1>4, <2>1, ReachGrows
  <2> HIDE DEF new, n, sd
  <2>6. d.key = c.key
    BY <1>2, <2>1
  <2>7. sd.h.alg = new[1].sd.h.alg
    BY <1>2, <2>1, <2>2, <2>3 DEF Continues
  <2>8. Chains(new, n + 1)
    BY <1>1, <1>2, <2>1, <2>3, <2>4 DEF Chains, Continues, sd
  <2>9. Sound(new, n + 1, d.key)
    BY <1>1, <1>2, <2>4, <2>5, <2>6, <2>7, <2>8 DEF Sound, sd
  <2> QED
    BY <2>1, <2>6, <2>9 DEF new, n
<1> QED
  BY <1>4, <1>5, <1>6

(* Reading one more line: verifier_process_line keeps knowing what the lines *)
(* it counted are, and its fields stay the sum of them.                      *)
LEMMA TracksGrows ==
    ASSUME NEW c, VCtxOK(c), NEW lines \in Seq(Line), Tracks(c, lines),
           NEW line \in Line
    PROVE  Tracks(VerifierProcessLine(c, line), Append(lines, line))
<1> DEFINE n == Len(lines)
           new == Append(lines, line)
           sd == line.sd
           d == VerifierProcessLine(c, line)
<1>1. /\ n \in Nat /\ new[n + 1] = line /\ Len(new) = n + 1
      /\ new \in Seq(Line)
      /\ \A i \in 1 .. n : new[i] = lines[i]
  BY AppendLine
<1>2. CASE Stopped(c)
  <2>1. d = c
    BY <1>2 DEF VerifierProcessLine
  <2>2. c.errors = << >> => Counts(c, new)
    BY CountsAppend DEF Tracks
  <2> QED
    BY <1>2, <2>1, <2>2 DEF Tracks, AtStart, InSegment, Stopped
<1>3. CASE ~Stopped(c) /\ d.errors = << >>
  <2>1. /\ c.errors = << >> /\ sd # NoSD /\ sd \in SD /\ Advanced(c, sd, d)
        /\ IF sd.type = "INIT"
           THEN /\ sd.q = 1 /\ d.key = sd.f /\ sd.f # NoKey
                /\ c.state = "PROCESSING" /\ c.strict => ~HasUnsigned(c)
                /\ d.last_signed_seq = IF c.state = "PROCESSING" THEN 0
                                       ELSE c.last_signed_seq
           ELSE /\ Continues(c, sd, line.msg) /\ d.key = c.key
                /\ IF sd.type = "SIG" THEN d.last_signed_seq = sd.q
                   ELSE d.last_signed_seq = c.last_signed_seq
    BY <1>3, LineClean
  <2>2. /\ Sound(new, n + 1, d.key) /\ c.msg_count = n
        /\ n > 0 => c.key = d.key
        /\ Reach(lines, n + 1, c.last_signed_seq)
    BY <1>3, CleanIsSound
  <2>3. Counts(c, lines) /\ AtStart(c, lines) /\ InSegment(c, lines)
        /\ Counts(c, new)
    BY <2>1, CountsAppend DEF Tracks
  <2>4. /\ c.state \in {"EXPECT_INIT", "PROCESSING"} /\ c.last_signed_seq \in Nat
        /\ c.next_seq \in Nat /\ sd.q \in Nat /\ d.strict = c.strict
    BY <1>3, <2>1 DEF VCtxOK, VCtx, VStates, Stopped, SD, Advanced
  <2>5. ASSUME NEW j \in 1 .. n
        PROVE  Sound(lines, j, c.key) /\ lines[j].sd # NoSD /\ lines[j].sd.q \in Nat
    <3>1. Sound(lines, j, c.key)
      BY <2>2, <2>3 DEF Counts
    <3>2. lines[j].sd # NoSD
      BY <3>1 DEF Sound, Chains
    <3>3. lines[j] \in Line
      BY ElementOfSeq
    <3>4. lines[j].sd \in SD
      BY <3>2, <3>3 DEF Line
    <3>5. lines[j].sd.q \in Nat
      BY <3>4 DEF SD
    <3> QED
      BY <3>1, <3>2, <3>5
  <2>6. IF sd.type = "INIT" THEN d.last_signed_seq = 0
        ELSE /\ c.state = "PROCESSING" /\ sd.q = c.next_seq
             /\ c.last_signed_seq < sd.q
    BY <2>1, <2>3, <2>4 DEF AtStart, InSegment, Continues
  <2>7. /\ d.last_signed_seq \in Nat /\ d.next_seq = sd.q + 1
        /\ d.next_seq - 1 = sd.q /\ d.msg_count = n + 1
    <3>1. d.next_seq = sd.q + 1 /\ d.msg_count = c.msg_count + 1
      BY <2>1 DEF Advanced
    <3>2. d.last_signed_seq \in Nat
      BY <2>1, <2>4, <2>6
    <3> HIDE DEF d, n, sd
    <3> QED
      BY <2>2, <2>4, <3>1, <3>2
  <2>8. Reach(new, n + 2, d.last_signed_seq)
    BY <2>1, <2>2, <2>4, <2>5, <2>6, ReachGrows
  <2>9. /\ d.last_signed_seq < d.next_seq
        /\ d.last_signed_seq = d.next_seq - 1 => sd.type = "SIG"
    BY <2>1, <2>4, <2>6, <2>7
  <2>10. d.alg = new[1].sd.h.alg /\ d.key # NoKey
    <3>1. Sound(new, n + 1, d.key) /\ new[n + 1].sd = sd
      BY <1>1, <2>2
    <3>2. sd.h.alg = new[1].sd.h.alg
      BY <3>1 DEF Sound
    <3>3. d.key # NoKey
      BY <2>1, <2>3, <2>6 DEF InSegment
    <3> QED
      BY <2>1, <3>2, <3>3 DEF Advanced
  <2> HIDE DEF new, d, n, sd
  <2>11. InSegment(d, new) /\ AtStart(d, new)
    <3>1. (n + 1) + 1 = n + 2 /\ n + 1 > 0
      BY <1>1
    <3>2. d.state = "PROCESSING" /\ d.chain_hash = sd.h
      BY <2>1 DEF Advanced
    <3>3. new[n + 1].sd = sd
      BY <1>1 DEF sd
    <3> QED
      BY <1>1, <2>7, <2>8, <2>9, <2>10, <3>1, <3>2, <3>3 DEF InSegment, AtStart
  <2>12. ASSUME NEW i \in 1 .. (n + 1)
         PROVE  Sound(new, i, d.key)
    <3>1. CASE i = n + 1
      BY <2>2, <3>1
    <3>2. CASE i \in 1 .. n
      BY <1>1, <2>2, <2>3, <3>2 DEF Counts
    <3> QED
      BY <1>1, <3>1, <3>2
  <2>13. ASSUME c.strict, NEW i \in 2 .. (n + 1), new[i].sd.type = "INIT"
         PROVE  new[i - 1].sd.type = "SIG"
    <3>1. CASE i = n + 1
      <4>1. sd.type = "INIT" /\ n > 0 /\ i - 1 = n /\ c.state = "PROCESSING"
        BY <1>1, <2>3, <2>4, <2>13, <3>1 DEF AtStart, sd, n
      <4>2. ~HasUnsigned(c)
        BY <2>1, <2>13, <4>1
      <4>3. lines[n].sd.type = "SIG"
        BY <2>2, <2>3, <2>13, <4>1, <4>2 DEF Counts
      <4>4. new[n] = lines[n]
        BY <1>1, <4>1
      <4> QED
        BY <4>1, <4>3, <4>4
    <3>2. CASE i \in 2 .. n
      BY <2>2, <2>3, <2>13, <3>2 DEF Counts
    <3> QED
      BY <1>1, <3>1, <3>2
  <2>14. ~HasUnsigned(d) => new[n + 1].sd.type = "SIG"
    BY <1>1, <2>7, <2>9 DEF HasUnsigned, sd
  <2>15. Counts(d, new)
    BY <1>1, <2>4, <2>7, <2>12, <2>13, <2>14 DEF Counts
  <2> QED
    BY <2>11, <2>15 DEF Tracks, new, d
<1> QED
  BY <1>2, <1>3 DEF Tracks

(* An error that does not apply leaves the context alone. *)
LEMMA NoError == \A ctx, kind : AddError(ctx, FALSE, kind) = ctx
BY DEF AddError

(* verify_sd_msg_hash on the entry the verifier expects *)
LEMMA VerifyAccepts ==
    ASSUME NEW ctx, VCtxOK(ctx), ctx.state = "PROCESSING",
           ctx.chain_hash.alg = ctx.alg, NEW m \in Payload, NEW sd \in SD,
           sd.q = ctx.next_seq,
           sd.h = HashChainStep(ctx.chain_hash, ctx.next_seq, m)
    PROVE  LET d == VerifySdMsgHash(ctx, sd, m)
           IN  /\ d.state = "PROCESSING" /\ d.errors = ctx.errors
               /\ d.ca = ctx.ca /\ d.key = ctx.key /\ d.strict = ctx.strict
               /\ d.alg = ctx.alg /\ d.chain_hash = sd.h
               /\ d.next_seq = ctx.next_seq + 1
               /\ d.last_signed_seq = ctx.last_signed_seq
               /\ d.segment_count = ctx.segment_count
<1> DEFINE h == HashChainStep(ctx.chain_hash, ctx.next_seq, m)
<1>1. h.alg = ctx.alg
  BY HashChainStepType DEF VCtxOK, VCtx
<1>2. AddError(ctx, sd.q # ctx.next_seq, "sequence") = ctx
  BY DEF AddError
<1>3. AddError(ctx, h # sd.h, "chain hash") = ctx
  BY DEF AddError
<1>4. VerifySdMsgHash(ctx, sd, m) =
        [ctx EXCEPT !.chain_hash = h, !.next_seq = ctx.next_seq + 1,
                    !.msg_count = ctx.msg_count + 1]
  BY <1>1, <1>2, <1>3 DEF VerifySdMsgHash
<1> HIDE DEF h
<1>5. ctx \in VCtx
  BY DEF VCtxOK
<1> QED
  BY <1>4, <1>5 DEF VCtx, h

(* How far the signatures reach is one number.                               *)
LEMMA ReachUnique ==
    ASSUME NEW lines, NEW i \in Nat, NEW s \in Nat, NEW t \in Nat,
           Reach(lines, i, s), Reach(lines, i, t)
    PROVE  s = t
<1>1. ASSUME NEW a \in Nat, NEW b \in Nat, Reach(lines, i, a), Reach(lines, i, b)
      PROVE  a <= b
  <2>1. CASE a = 0
    BY <2>1
  <2>2. CASE a # 0
    <3>1. PICK j \in 1 .. (i - 1) : SignedIn(lines, j, i) /\ lines[j].sd.q = a
      BY <1>1, <2>2 DEF Reach
    <3> QED
      BY <1>1, <3>1 DEF Reach
  <2> QED
    BY <2>1, <2>2
<1>2. s <= t /\ t <= s
  BY <1>1
<1> QED
  BY <1>2

(* verifier_finalize adds no finding to a context that stays without one.    *)
LEMMA FinalizeClean ==
    ASSUME NEW c, VCtxOK(c)
    PROVE  LET d == VerifierFinalize(c)
           IN  /\ VCtxOK(d) /\ d.state = "DONE" /\ d.strict = c.strict
               /\ d.key = c.key /\ d.msg_count = c.msg_count
               /\ d.ca = c.ca
               /\ d.next_seq = c.next_seq
               /\ d.last_signed_seq = c.last_signed_seq
               /\ d.errors = << >> <=>
                      /\ c.errors = << >> /\ c.state # "EXPECT_INIT"
                      /\ c.strict => ~HasUnsigned(c)
<1> DEFINE empty == c.state = "EXPECT_INIT"
           tail == c.strict /\ HasUnsigned(c)
           a == AddError(c, empty, "empty file")
           b == AddError(a, tail, "unsigned tail")
           d == [b EXCEPT !.state = "DONE"]
<1>1. VerifierFinalize(c) = d
  BY DEF VerifierFinalize
<1>2. /\ empty \in BOOLEAN /\ tail \in BOOLEAN
      /\ "empty file" \in ErrorKinds /\ "unsigned tail" \in ErrorKinds
  BY DEF VCtxOK, VCtx, HasUnsigned, ErrorKinds
<1> HIDE DEF empty, tail
<1>3. /\ VCtxOK(a) /\ a.strict = c.strict /\ a.key = c.key /\ a.ca = c.ca
      /\ a.msg_count = c.msg_count /\ a.next_seq = c.next_seq
      /\ a.last_signed_seq = c.last_signed_seq
      /\ a.errors = << >> <=> c.errors = << >> /\ ~empty
  <2>1. a.errors = << >> <=> c.errors = << >> /\ ~empty
    BY <1>2, AddErrorClean
  <2>2. /\ VCtxOK(a) /\ a.strict = c.strict /\ a.key = c.key
        /\ a.ca = c.ca /\ a.next_seq = c.next_seq
        /\ a.last_signed_seq = c.last_signed_seq
    BY <1>2, AddErrorType
  <2>3. a.msg_count = c.msg_count
    BY <1>2, AddErrorClean
  <2> QED
    BY <2>1, <2>2, <2>3
<1> HIDE DEF a
<1>4. /\ VCtxOK(b) /\ b.strict = a.strict /\ b.key = a.key /\ b.ca = a.ca
      /\ b.msg_count = a.msg_count /\ b.next_seq = a.next_seq
      /\ b.last_signed_seq = a.last_signed_seq
      /\ b.errors = << >> <=> a.errors = << >> /\ ~tail
  <2>1. b.errors = << >> <=> a.errors = << >> /\ ~tail
    BY <1>2, <1>3, AddErrorClean
  <2>2. /\ VCtxOK(b) /\ b.strict = a.strict /\ b.key = a.key
        /\ b.ca = a.ca /\ b.next_seq = a.next_seq
        /\ b.last_signed_seq = a.last_signed_seq
    BY <1>2, <1>3, AddErrorType
  <2>3. b.msg_count = a.msg_count
    BY <1>2, <1>3, AddErrorClean
  <2> QED
    BY <2>1, <2>2, <2>3
<1> HIDE DEF b
<1>5. /\ VCtxOK(d) /\ d.state = "DONE" /\ d.strict = b.strict /\ d.key = b.key
      /\ d.msg_count = b.msg_count /\ d.ca = b.ca /\ d.next_seq = b.next_seq
      /\ d.last_signed_seq = b.last_signed_seq /\ d.errors = b.errors
  BY <1>4 DEF VCtxOK, VCtx, VStates
<1> HIDE DEF d
<1> QED
  BY <1>1, <1>3, <1>4, <1>5 DEF empty, tail

(* Finalising keeps what is known of the lines.                              *)
LEMMA TracksFinalize ==
    ASSUME NEW c, VCtxOK(c), NEW lines, Tracks(c, lines)
    PROVE  Tracks(VerifierFinalize(c), lines)
<1> DEFINE d == VerifierFinalize(c)
<1>1. /\ d.state = "DONE" /\ d.strict = c.strict /\ d.key = c.key
      /\ d.msg_count = c.msg_count /\ d.next_seq = c.next_seq
      /\ d.last_signed_seq = c.last_signed_seq
      /\ d.errors = << >> => c.errors = << >>
  BY FinalizeClean
<1> HIDE DEF d
<1> QED
  BY <1>1 DEF Tracks, Counts, AtStart, InSegment, HasUnsigned, d

(* A segment of the locked-in algorithm opens under the trusted key without  *)
(* a finding.                                                                *)
LEMMA OpensClean ==
    ASSUME NEW c, VCtxOK(c), ~Stopped(c), c.errors = << >>, ~c.strict,
           NEW k \in Keys, NEW cert \in Keys \cup {NoKey},
           c.key = k \/ (c.ca /\ c.key = NoKey /\ cert = k /\ k \in CertifiedKeys),
           NEW alg \in Algs, c.alg \in {NoAlg, alg}
    PROVE  LET keyed == InstallKey(c, cert)
               closed == CloseSegment(keyed)
               opened == OpenSegment(closed, alg)
           IN  /\ VCtxOK(keyed) /\ keyed.key = k /\ ~Stopped(keyed)
               /\ VCtxOK(closed) /\ closed.errors = << >> /\ closed.key = k
               /\ closed.ca = c.ca /\ closed.strict = c.strict
               /\ VCtxOK(opened) /\ opened.errors = << >> /\ opened.key = k
               /\ opened.ca = c.ca /\ opened.strict = c.strict
               /\ opened.state = "PROCESSING" /\ opened.alg = alg
               /\ opened.next_seq = 1 /\ opened.chain_hash = ChainInitHash(alg)
<1> DEFINE keyed == InstallKey(c, cert)
           closed == CloseSegment(keyed)
           opened == OpenSegment(closed, alg)
<1>1. c \in VCtx /\ c.strict = FALSE /\ k # NoKey
  BY AbsentAssumption DEF VCtxOK, VCtx
<1>2. /\ VCtxOK(keyed) /\ keyed.key = k /\ keyed.errors = << >>
      /\ keyed.state = c.state /\ keyed.strict = FALSE /\ keyed.alg = c.alg
      /\ keyed.ca = c.ca
  <2>1. keyed = IF c.key = k THEN c ELSE [c EXCEPT !.key = k]
    <3>1. CASE c.key = k
      BY <1>1, <3>1 DEF InstallKey
    <3>2. CASE c.key # k
      BY <1>1, <3>2 DEF InstallKey
    <3> QED
      BY <3>1, <3>2
  <2>2. VCtxOK(keyed)
    BY InstallKeyType
  <2> HIDE DEF keyed
  <2> QED
    BY <1>1, <2>1, <2>2 DEF VCtx
<1>3. ~Stopped(keyed)
  BY <1>2 DEF Stopped
<1> HIDE DEF keyed
<1>4. /\ VCtxOK(closed) /\ closed.errors = << >> /\ closed.alg = c.alg
      /\ closed.key = k /\ closed.ca = c.ca /\ closed.strict = FALSE
  <2>1. closed = IF keyed.state # "PROCESSING" THEN keyed
                 ELSE [keyed EXCEPT !.last_signed_seq = 0]
    BY <1>2 DEF CloseSegment, AddError
  <2>2. VCtxOK(closed)
    BY <1>2, CloseSegmentType
  <2> HIDE DEF closed
  <2> QED
    BY <1>2, <2>1, <2>2 DEF VCtxOK, VCtx
<1> HIDE DEF closed
<1>5. /\ VCtxOK(opened) /\ opened.errors = << >> /\ opened.state = "PROCESSING"
      /\ opened.alg = alg /\ opened.next_seq = 1 /\ opened.key = k
      /\ opened.ca = c.ca /\ opened.strict = FALSE
      /\ opened.chain_hash = ChainInitHash(alg)
  <2> DEFINE h == ChainInitHash(alg)
             m == closed.segment_count + 1
             up == [closed EXCEPT !.alg = alg, !.chain_hash = h, !.next_seq = 1,
                           !.segment_count = m, !.state = "PROCESSING"]
  <2>1. opened = up
    BY <1>4 DEF OpenSegment
  <2>2. VCtxOK(opened) /\ closed \in VCtx
    BY <1>4, OpenSegmentType DEF VCtxOK
  <2> HIDE DEF opened, h, m
  <2>3. /\ up.errors = closed.errors /\ up.state = "PROCESSING" /\ up.alg = alg
        /\ up.next_seq = 1 /\ up.chain_hash = h /\ up.key = closed.key
        /\ up.ca = closed.ca /\ up.strict = closed.strict
    BY <2>2 DEF VCtx
  <2> HIDE DEF up
  <2> QED
    BY <1>4, <2>1, <2>2, <2>3 DEF h
<1> QED
  BY <1>1, <1>2, <1>3, <1>4, <1>5 DEF keyed, closed, opened

(* A run that is not strict finds nothing in a line the holder of the key    *)
(* may have written next.                                                    *)
LEMMA SoundIsClean ==
    ASSUME NEW c, VCtxOK(c), ~Stopped(c), c.errors = << >>, ~c.strict,
           NEW lines \in Seq(Line), Tracks(c, lines), NEW line \in Line,
           NEW k \in Keys, Sound(Append(lines, line), Len(lines) + 1, k),
           \/ c.key = k
           \/ /\ c.ca /\ c.key = NoKey /\ k \in CertifiedKeys
              /\ line.sd.type = "INIT" => line.cert = k
    PROVE  VerifierProcessLine(c, line).errors = << >>
<1> DEFINE n == Len(lines)
           new == Append(lines, line)
           sd == line.sd
           d == VerifierProcessLine(c, line)
<1>1. /\ n \in Nat /\ new[n + 1] = line
      /\ \A i \in 1 .. n : new[i] = lines[i]
  BY AppendLine
<1>2. /\ Chains(new, n + 1) /\ sd.h.alg = new[1].sd.h.alg
      /\ sd.type = "INIT" => sd.f = k
      /\ sd.type = "CONTINUE" => sd.f \in {NoKey, k}
      /\ sd.type = "SIG" =>
           /\ sd.qt = sd.q /\ sd.qf > 0 /\ Reach(new, n + 1, sd.qf - 1)
           /\ sd.s = HcsSign(k, sd.h)
  BY <1>1 DEF Sound
<1>3. /\ sd # NoSD
      /\ sd.type = "INIT" =>
           sd.q = 1 /\ sd.h = HashChainStep(ChainInitHash(sd.h.alg), 1, line.msg)
      /\ sd.type # "INIT" =>
           /\ n > 0 /\ sd.q = new[n].sd.q + 1
           /\ sd.h = HashChainStep(new[n].sd.h, sd.q, line.msg)
  BY <1>1, <1>2 DEF Chains
<1>4. /\ sd \in SD /\ sd.q \in Nat /\ sd.qf \in Nat /\ sd.h \in Digest
      /\ sd.h.alg \in Algs /\ sd.type \in SDTypes
      /\ line.msg \in Payload /\ line.cert \in Keys \cup {NoKey}
      /\ k # NoKey
  BY <1>3, AbsentAssumption DEF Line, SD, Digest
<1>5. Counts(c, lines) /\ AtStart(c, lines) /\ InSegment(c, lines)
  BY DEF Tracks
<1>6. /\ c \in VCtx /\ c.state \in {"EXPECT_INIT", "PROCESSING"}
      /\ c.last_signed_seq \in Nat /\ c.strict = FALSE
  BY DEF VCtxOK, VCtx, VStates, Stopped
<1>7. c.state = "PROCESSING" =>
        /\ n > 0 /\ c.key = k /\ c.chain_hash = new[n].sd.h
        /\ c.next_seq = new[n].sd.q + 1 /\ c.alg = sd.h.alg
        /\ Reach(lines, n + 1, c.last_signed_seq)
  BY <1>1, <1>2, <1>5 DEF InSegment
<1>8. c.state = "EXPECT_INIT" => n = 0 /\ c.alg = NoAlg
  BY <1>5 DEF AtStart
<1>9. CASE sd.type = "INIT"
  <2> DEFINE keyed == InstallKey(c, line.cert)
             closed == CloseSegment(keyed)
             opened == OpenSegment(closed, sd.h.alg)
             e == VerifySdMsgHash(opened, sd, line.msg)
  <2>1. /\ keyed.key = k /\ ~Stopped(keyed)
        /\ VCtxOK(opened) /\ opened.errors = << >> /\ opened.state = "PROCESSING"
        /\ opened.alg = sd.h.alg /\ opened.next_seq = 1
        /\ opened.chain_hash = ChainInitHash(sd.h.alg)
    <3> DEFINE g == sd.h.alg
    <3>1. g \in Algs /\ c.alg \in {NoAlg, g}
      BY <1>4, <1>6, <1>7, <1>8
    <3>2. c.key = k \/ (c.ca /\ c.key = NoKey /\ line.cert = k /\ k \in CertifiedKeys)
      BY <1>9
    <3> HIDE DEF g
    <3>3. LET op == OpenSegment(CloseSegment(InstallKey(c, line.cert)), g)
          IN  /\ keyed.key = k /\ ~Stopped(keyed)
              /\ VCtxOK(op) /\ op.errors = << >> /\ op.state = "PROCESSING"
              /\ op.alg = g /\ op.next_seq = 1 /\ op.chain_hash = ChainInitHash(g)
      BY <1>4, <3>1, <3>2, OpensClean
    <3> QED
      BY <3>3 DEF g
  <2>2. d = IF Stopped(opened) THEN opened ELSE e
    <3>1. sd.f = keyed.key /\ sd.f # NoKey
      BY <1>2, <1>4, <1>9, <2>1
    <3> HIDE DEF keyed
    <3>2. HandleSdInit(c, sd, line.msg, line.cert) =
            IF Stopped(opened) THEN opened ELSE e
      BY <2>1, <3>1 DEF HandleSdInit, keyed
    <3> QED
      BY <1>3, <1>9, <3>2 DEF VerifierProcessLine
  <2> HIDE DEF keyed, closed, d
  <2>3. opened.chain_hash.alg = opened.alg
    BY <1>4, <2>1, ChainInitHashType
  <2> HIDE DEF opened, sd
  <2>4. e.errors = << >>
    <3>1. sd.q = opened.next_seq
          /\ sd.h = HashChainStep(opened.chain_hash, opened.next_seq, line.msg)
      BY <1>3, <1>9, <2>1
    <3> HIDE DEF sd
    <3>2. e.errors = opened.errors
      BY <1>4, <2>1, <2>3, <3>1, VerifyAccepts
    <3> QED
      BY <2>1, <3>2
  <2> QED
    BY <2>2, <2>1, <2>4 DEF Stopped, d
<1>10. CASE sd.type # "INIT"
  <2>1. n > 0 /\ c.state = "PROCESSING" /\ n \in 1 .. n
    BY <1>1, <1>3, <1>6, <1>8, <1>10
  <2>2. /\ c.key = k /\ c.alg = sd.h.alg /\ sd.q = c.next_seq
        /\ sd.h = HashChainStep(c.chain_hash, c.next_seq, line.msg)
    BY <1>3, <1>7, <1>10, <2>1
  <2>3. c.chain_hash \in Digest /\ c.next_seq \in Nat
    BY <2>1 DEF VCtxOK, VCtx
  <2>4. c.chain_hash.alg = c.alg
    BY <1>4, <2>2, <2>3, HashChainStepType
  <2> DEFINE e == VerifySdMsgHash(c, sd, line.msg)
  <2>5. /\ e.state = "PROCESSING" /\ e.errors = << >> /\ e.key = k
        /\ e.chain_hash = sd.h /\ e.next_seq = sd.q + 1
        /\ e.last_signed_seq = c.last_signed_seq /\ VCtxOK(e)
    <3> HIDE DEF sd
    <3> QED
      BY <1>4, <2>1, <2>2, <2>4, VerifyAccepts, VerifySdMsgHashType
  <2>6. CASE sd.type = "MSG"
    <3>1. d = e
      BY <1>3, <2>1, <2>6 DEF VerifierProcessLine, HandleSdMsg, Stopped
    <3> QED
      BY <2>5, <3>1
  <2>7. CASE sd.type = "CONTINUE"
    <3> DEFINE next == [c EXCEPT !.segment_count = c.segment_count + 1]
               x == VerifySdMsgHash(next, sd, line.msg)
    <3>1. d = x
      BY <1>2, <1>3, <2>1, <2>2, <2>7
      DEF VerifierProcessLine, HandleSdContinue, Stopped
    <3>2. /\ VCtxOK(next) /\ next.state = c.state /\ next.alg = c.alg
          /\ next.chain_hash = c.chain_hash /\ next.next_seq = c.next_seq
          /\ next.errors = c.errors
      <4>1. c \in VCtx /\ c.segment_count + 1 \in Nat
        BY <1>6 DEF VCtxOK, VCtx
      <4>2. next \in VCtx
        BY <4>1 DEF VCtx
      <4>3. /\ next.state = c.state /\ next.alg = c.alg /\ next.key = c.key
            /\ next.chain_hash = c.chain_hash /\ next.next_seq = c.next_seq
            /\ next.errors = c.errors /\ next.strict = c.strict
        BY <4>1 DEF VCtx
      <4> HIDE DEF next
      <4> QED
        BY <1>6, <2>1, <4>1, <4>2, <4>3 DEF VCtxOK
    <3> HIDE DEF next, d, sd
    <3>3. x.errors = next.errors
      BY <1>4, <2>1, <2>2, <2>4, <3>2, VerifyAccepts
    <3> QED
      BY <3>1, <3>2, <3>3 DEF d
  <2>8. CASE sd.type = "SIG"
    <3>1. sd.s = HcsSign(k, sd.h) /\ sd.s # NoSig
      BY <1>2, <1>4, <2>8, AbsentAssumption DEF HcsSign, Signature
    <3> HIDE DEF e
    <3>2. HandleSdSig(c, sd, line.msg) = CheckSignature(e, sd)
      BY <2>1, <2>5, <3>1 DEF HandleSdSig, Stopped, e
    <3>3. d = CheckSignature(e, sd)
      BY <1>3, <2>1, <2>8, <3>2 DEF VerifierProcessLine, Stopped
    <3>4. sd.qf - 1 = c.last_signed_seq
      <4>1. sd.qf - 1 \in Nat
        BY <1>2, <1>4, <2>8
      <4>2. Reach(lines, n + 1, sd.qf - 1)
        <5>1. n + 1 \in Nat /\ (n + 1) - 1 = n
          BY <1>1
        <5> HIDE DEF new, n
        <5>2. \A i \in 1 .. ((n + 1) - 1) : new[i] = lines[i]
          BY <1>1, <5>1
        <5> QED
          BY <1>2, <2>8, <5>1, <5>2, ReachAgrees
      <4>3. n + 1 \in Nat
        BY <1>1
      <4> QED
        BY <1>6, <1>7, <2>1, <4>1, <4>2, <4>3, ReachUnique
    <3>5. sd.qf = e.last_signed_seq + 1 /\ sd.qt = e.next_seq - 1
      BY <1>2, <1>4, <1>6, <2>5, <2>8, <3>4
    <3>6. AddError(e, sd.qf # e.last_signed_seq + 1, "SIG from") = e
          /\ AddError(e, sd.qt # e.next_seq - 1, "SIG to") = e
      BY <3>5 DEF AddError
    <3>7. HcsVerify(e.key, e.chain_hash, sd.s)
      BY <2>5, <3>1 DEF HcsVerify
    <3>8. CheckSignature(e, sd) =
            [e EXCEPT !.last_signed_seq = sd.qt, !.sig_count = e.sig_count + 1]
      BY <3>6, <3>7 DEF CheckSignature
    <3>9. [e EXCEPT !.last_signed_seq = sd.qt,
                    !.sig_count = e.sig_count + 1].errors = e.errors
      BY <2>5 DEF VCtxOK, VCtx
    <3> QED
      BY <2>5, <3>3, <3>8, <3>9
  <2> QED
    BY <1>4, <1>10, <2>6, <2>7, <2>8 DEF SDTypes
<1> QED
  BY <1>9, <1>10

(* A sound line's digest ends with its own number and message, and starts    *)
(* from the digest of the line before it.                                    *)
LEMMA SoundEntry ==
    ASSUME NEW lines \in Seq(Line), NEW i \in 1 .. Len(lines), NEW key,
           \A j \in 1 .. i : Sound(lines, j, key)
    PROVE  LET l == lines[i]
           IN  /\ l.sd # NoSD /\ l.sd.q \in Nat /\ l.sd.h \in Digest
               /\ l.msg \in Payload /\ l.sd.h.links # << >>
               /\ l.sd.type = "INIT" =>
                    \E p \in Digest : p.links = << >> /\
                        l.sd.h = HashChainStep(p, l.sd.q, l.msg)
               /\ l.sd.type # "INIT" =>
                    /\ i > 1 /\ lines[i - 1].sd.h \in Digest
                    /\ lines[i - 1].sd.h.links # << >>
                    /\ lines[i - 1].sd.q \in Nat
                    /\ l.sd.q = lines[i - 1].sd.q + 1
                    /\ l.sd.h = HashChainStep(lines[i - 1].sd.h, l.sd.q, l.msg)
<1>1. ASSUME NEW j \in 1 .. i
      PROVE  /\ lines[j].sd # NoSD /\ lines[j].sd.q \in Nat
             /\ lines[j].sd.h \in Digest /\ lines[j].msg \in Payload
             /\ lines[j].sd.h.alg \in Algs /\ Chains(lines, j)
  <2>1. Chains(lines, j) /\ lines[j].sd # NoSD
    BY DEF Sound, Chains
  <2>2. lines[j] \in Line
    BY ElementOfSeq
  <2>3. lines[j].sd \in SD /\ lines[j].msg \in Payload
    BY <2>1, <2>2 DEF Line
  <2> QED
    BY <2>1, <2>3 DEF SD, Digest
<1>2. ASSUME NEW j \in 1 .. i
      PROVE  /\ lines[j].sd.type = "INIT" =>
                  \E p \in Digest : p.links = << >> /\
                      lines[j].sd.h = HashChainStep(p, lines[j].sd.q, lines[j].msg)
             /\ lines[j].sd.type # "INIT" =>
                  /\ j > 1 /\ lines[j].sd.q = lines[j - 1].sd.q + 1
                  /\ lines[j].sd.h =
                       HashChainStep(lines[j - 1].sd.h, lines[j].sd.q, lines[j].msg)
  <2> DEFINE p == ChainInitHash(lines[j].sd.h.alg)
  <2>1. p \in Digest /\ p.links = << >>
    BY <1>1, ChainInitHashType DEF ChainInitHash
  <2>2. lines[j].sd.type = "INIT" =>
          lines[j].sd.h = HashChainStep(p, lines[j].sd.q, lines[j].msg)
    BY <1>1 DEF Chains
  <2> HIDE DEF p
  <2> QED
    BY <1>1, <2>1, <2>2 DEF Chains
<1>3. ASSUME NEW j \in 1 .. i
      PROVE  lines[j].sd.h.links # << >>
  <2>1. \E p \in Digest :
          lines[j].sd.h = HashChainStep(p, lines[j].sd.q, lines[j].msg)
    <3>1. lines[j].sd.type # "INIT" => j - 1 \in 1 .. i
      BY <1>2
    <3> QED
      BY <1>1, <1>2, <3>1
  <2> QED
    BY <1>1, <2>1, HashChainStepLinks
<1>4. i \in 1 .. i /\ (i > 1 => i - 1 \in 1 .. i)
  <2>1. Len(lines) \in Nat
    BY LenProperties
  <2> QED
    BY <2>1
<1> QED
  BY <1>1, <1>2, <1>3, <1>4

(* Two sound lines with the same digest are the same entry of the same       *)
(* chain, and so are the lines before them.                                  *)
LEMMA SoundMatch ==
    ASSUME NEW a \in Seq(Line), NEW i \in 1 .. Len(a), NEW k,
           \A n \in 1 .. i : Sound(a, n, k),
           NEW b \in Seq(Line), NEW j \in 1 .. Len(b), NEW l,
           \A n \in 1 .. j : Sound(b, n, l),
           a[i].sd.h = b[j].sd.h
    PROVE  /\ a[i].sd.q = b[j].sd.q /\ a[i].msg = b[j].msg
           /\ a[i].sd.type # "INIT" =>
                 /\ i > 1 /\ j > 1 /\ a[i - 1].sd.h = b[j - 1].sd.h
<1>1. /\ a[i].sd.q \in Nat /\ a[i].msg \in Payload
      /\ a[i].sd.type = "INIT" =>
           \E p \in Digest : p.links = << >> /\
               a[i].sd.h = HashChainStep(p, a[i].sd.q, a[i].msg)
      /\ a[i].sd.type # "INIT" =>
           /\ i > 1 /\ a[i - 1].sd.h \in Digest /\ a[i - 1].sd.h.links # << >>
           /\ a[i].sd.h = HashChainStep(a[i - 1].sd.h, a[i].sd.q, a[i].msg)
  BY SoundEntry
<1>2. /\ b[j].sd.q \in Nat /\ b[j].msg \in Payload
      /\ b[j].sd.type = "INIT" =>
           \E p \in Digest : p.links = << >> /\
               b[j].sd.h = HashChainStep(p, b[j].sd.q, b[j].msg)
      /\ b[j].sd.type # "INIT" =>
           /\ j > 1 /\ b[j - 1].sd.h \in Digest /\ b[j - 1].sd.h.links # << >>
           /\ b[j].sd.h = HashChainStep(b[j - 1].sd.h, b[j].sd.q, b[j].msg)
  BY SoundEntry
<1>3. PICK p \in Digest :
        /\ a[i].sd.h = HashChainStep(p, a[i].sd.q, a[i].msg)
        /\ a[i].sd.type # "INIT" => p.links # << >> /\ p = a[i - 1].sd.h
  BY <1>1
<1>4. PICK r \in Digest :
        /\ b[j].sd.h = HashChainStep(r, b[j].sd.q, b[j].msg)
        /\ b[j].sd.type = "INIT" => r.links = << >>
        /\ b[j].sd.type # "INIT" => r = b[j - 1].sd.h
  BY <1>2
<1>5. p = r /\ a[i].sd.q = b[j].sd.q /\ a[i].msg = b[j].msg
  <2>1. HashChainStep(p, a[i].sd.q, a[i].msg) = HashChainStep(r, b[j].sd.q, b[j].msg)
    BY <1>3, <1>4
  <2>2. /\ a[i].sd.q \in Nat /\ a[i].msg \in Payload
        /\ b[j].sd.q \in Nat /\ b[j].msg \in Payload
    BY <1>1, <1>2
  <2> QED
    BY <2>1, <2>2, HashChainStepInjective, SMTT(60)
<1> QED
  BY <1>1, <1>2, <1>3, <1>4, <1>5
=============================================================================

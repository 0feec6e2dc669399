------------------------------ MODULE LogProofs ------------------------------
(***************************************************************************)
(* An honest log verifies: the inductive invariant of PipelineInv is        *)
(* preserved by every step, and with it NoFalseAlarm, StateFileMatchesLog   *)
(* and the refinement of ChainLog.  Last, from TailInv alone, that a saved   *)
(* tail is given up only for its signature.                                 *)
(***************************************************************************)
EXTENDS PipelineProofs

(***************************************************************************)
(* What the verifier does with each kind of line the signer emits           *)
(***************************************************************************)

(* An INIT line opens a segment. *)
LEMMA AcceptInit ==
    ASSUME NEW ctx, VCtxOK(ctx), Content(ctx), conf \in Conf,
           Opts.strict => ~HasUnsigned(ctx),
           NEW m \in Payload, NEW line \in Line, line.msg = m, line.sd \in SD,
           line.sd = SDInit(1, HashChainStep(ChainInitHash(conf.alg), 1, m),
                            conf.key)
    PROVE  LET d == VerifierProcessLine(ctx, line)
           IN  /\ Content(d)
               /\ Synced(d, line.sd.h, conf.alg, 2, 1)
               /\ LogStep(ctx, d)
<1> DEFINE iv == ChainInitHash(conf.alg)
           h == HashChainStep(iv, 1, m)
           sd == line.sd
           k == ctx.segment_count + 1
           closed == CloseSegment(ctx)
           opened == OpenSegment(closed, sd.h.alg)
           d == VerifySdMsgHash(opened, sd, m)
<1>1. /\ conf.alg \in Algs /\ conf.key \in Keys /\ iv \in Digest
      /\ iv.alg = conf.alg /\ h \in Digest /\ h.alg = conf.alg
  BY ChainInitHashType, HashChainStepType DEF Conf
<1>2. /\ sd.type = "INIT" /\ sd.q = 1 /\ sd.h = h /\ sd.f = conf.key
      /\ sd # NoSD /\ sd.f # NoKey
  BY <1>1, SDInitType, AbsentAssumption
<1>3. /\ ctx \in VCtx /\ ~Stopped(ctx) /\ ctx.errors = << >> /\ ~ctx.ca
      /\ ctx.key = conf.key /\ ctx.strict = Opts.strict
  BY DEF Content, VCtxOK, Stopped
<1>4. InstallKey(ctx, line.cert) = ctx
  BY <1>3 DEF InstallKey
<1>5. VerifierProcessLine(ctx, line) = IF Stopped(opened) THEN opened ELSE d
  BY <1>2, <1>3, <1>4 DEF VerifierProcessLine, HandleSdInit
<1>6. closed = IF ctx.state # "PROCESSING" THEN ctx
               ELSE [ctx EXCEPT !.last_signed_seq = 0]
  BY <1>3, NoError DEF CloseSegment, AddError
<1>7. /\ closed \in VCtx /\ closed.last_signed_seq = 0
      /\ closed.alg = ctx.alg /\ closed.segment_count = ctx.segment_count
      /\ closed.errors = << >> /\ ~closed.ca /\ closed.key = conf.key
      /\ closed.strict = Opts.strict
  BY <1>3, <1>6 DEF VCtx, Content
<1>8. closed.alg = NoAlg \/ closed.alg = conf.alg
  BY <1>7 DEF Content
<1>9. opened = [closed EXCEPT !.alg = conf.alg, !.chain_hash = iv,
                              !.next_seq = 1, !.segment_count = k,
                              !.state = "PROCESSING"]
  BY <1>1, <1>2, <1>7, <1>8 DEF OpenSegment
<1>10. k \in Nat /\ k > 0
  BY <1>3 DEF VCtx
<1> HIDE DEF closed, iv, k, opened
<1>11. /\ opened \in VCtx /\ opened.state = "PROCESSING"
       /\ opened.chain_hash = iv /\ opened.alg = conf.alg
       /\ opened.next_seq = 1 /\ opened.segment_count = k
       /\ opened.last_signed_seq = 0 /\ opened.errors = << >> /\ ~opened.ca
       /\ opened.key = conf.key /\ opened.strict = Opts.strict
  BY <1>1, <1>7, <1>9, <1>10 DEF VCtx, VStates
<1> HIDE DEF h
<1>12. VCtxOK(opened) /\ ~Stopped(opened)
  BY <1>1, <1>11 DEF VCtxOK, Stopped
<1>13. /\ d.state = "PROCESSING" /\ d.errors = << >>
       /\ ~d.ca /\ d.key = conf.key /\ d.strict = Opts.strict
       /\ d.alg = conf.alg /\ d.chain_hash = h /\ d.next_seq = 2
       /\ d.last_signed_seq = 0 /\ d.segment_count = k
  BY <1>1, <1>2, <1>11, <1>12, VerifyAccepts DEF h
<1> QED
  BY <1>1, <1>2, <1>5, <1>10, <1>12, <1>13 DEF Content, Synced, LogStep, k

(* A MSG line extends the segment by an entry that waits for a signature. *)
LEMMA AcceptMsg ==
    ASSUME NEW ctx, VCtxOK(ctx), Content(ctx), conf \in Conf,
           ctx.state = "PROCESSING",
           ctx.next_seq - ctx.last_signed_seq <= SignWindow,
           NEW m \in Payload, NEW line \in Line, line.msg = m, line.sd \in SD,
           line.sd = SDMsg(ctx.next_seq,
                           HashChainStep(ctx.chain_hash, ctx.next_seq, m))
    PROVE  LET d == VerifierProcessLine(ctx, line)
           IN  /\ Content(d) /\ LogStep(ctx, d)
               /\ Synced(d, line.sd.h, conf.alg, ctx.next_seq + 1,
                         ctx.last_signed_seq + 1)
<1> DEFINE h == HashChainStep(ctx.chain_hash, ctx.next_seq, m)
           d == VerifySdMsgHash(ctx, line.sd, m)
<1>1. /\ ctx \in VCtx /\ ctx.next_seq \in Nat /\ ctx.chain_hash \in Digest
      /\ ~Stopped(ctx) /\ ctx.errors = << >> /\ ~ctx.ca /\ ctx.key = conf.key
      /\ ctx.strict = Opts.strict /\ ctx.segment_count > 0
      /\ ctx.alg = conf.alg /\ ctx.chain_hash.alg = ctx.alg
  BY DEF Content, VCtxOK, VCtx, Stopped
<1>2. h \in Digest /\ h.alg = conf.alg
  BY <1>1, HashChainStepType
<1> HIDE DEF h
<1>3. /\ line.sd.type = "MSG" /\ line.sd.q = ctx.next_seq /\ line.sd.h = h
      /\ line.sd # NoSD
  BY <1>1, <1>2, SDMsgType, AbsentAssumption DEF h
<1>4. VerifierProcessLine(ctx, line) = d
  BY <1>1, <1>3 DEF VerifierProcessLine, HandleSdMsg
<1>5. /\ d.state = "PROCESSING" /\ d.errors = << >>
      /\ ~d.ca /\ d.key = conf.key /\ d.strict = Opts.strict
      /\ d.alg = conf.alg /\ d.chain_hash = h /\ d.next_seq = ctx.next_seq + 1
      /\ d.last_signed_seq = ctx.last_signed_seq
      /\ d.segment_count = ctx.segment_count
  BY <1>1, <1>3, VerifyAccepts DEF h
<1> QED
  BY <1>1, <1>2, <1>3, <1>4, <1>5 DEF Content, Synced, LogStep

(* A SIG line whose range starts where the last signature ended signs all of *)
(* the segment.                                                              *)
LEMMA AcceptSig ==
    ASSUME NEW ctx, VCtxOK(ctx), Content(ctx), conf \in Conf,
           ctx.state = "PROCESSING",
           NEW m \in Payload, NEW line \in Line, line.msg = m, line.sd \in SD,
           NEW h, h = HashChainStep(ctx.chain_hash, ctx.next_seq, m),
           line.sd = SDSig(ctx.next_seq, h, ctx.last_signed_seq + 1,
                           ctx.next_seq, HcsSign(conf.key, h))
    PROVE  LET d == VerifierProcessLine(ctx, line)
           IN  /\ Content(d) /\ LogStep(ctx, d)
               /\ Synced(d, h, conf.alg, ctx.next_seq + 1, ctx.next_seq + 1)
<1> DEFINE n == ctx.next_seq
           c == VerifySdMsgHash(ctx, line.sd, m)
           d == [c EXCEPT !.last_signed_seq = n, !.sig_count = c.sig_count + 1]
<1>1. /\ ctx \in VCtx /\ n \in Nat /\ ctx.last_signed_seq \in Nat
      /\ ctx.chain_hash \in Digest
      /\ ~Stopped(ctx) /\ ctx.errors = << >> /\ ~ctx.ca /\ ctx.key = conf.key
      /\ ctx.strict = Opts.strict /\ ctx.segment_count > 0
      /\ ctx.alg = conf.alg /\ ctx.chain_hash.alg = ctx.alg /\ conf.key \in Keys
  BY DEF Content, VCtxOK, VCtx, Stopped, Conf
<1>2. h \in Digest /\ h.alg = conf.alg
  BY <1>1, HashChainStepType
<1>3. ctx.last_signed_seq + 1 \in Nat
  BY <1>1
<1>4. /\ line.sd.type = "SIG" /\ line.sd.q = n /\ line.sd.h = h
      /\ line.sd.qf = ctx.last_signed_seq + 1 /\ line.sd.qt = n
      /\ line.sd.s = HcsSign(conf.key, h) /\ line.sd # NoSD
  <2> DEFINE f == ctx.last_signed_seq + 1
             sd == SDSig(n, h, f, n, HcsSign(conf.key, h))
  <2>1. n \in Nat /\ h \in Digest /\ f \in Nat /\ conf.key \in Keys
    BY <1>1, <1>2, <1>3
  <2>2. line.sd = sd /\ line.sd # NoSD
    BY AbsentAssumption
  <2> HIDE DEF f, n
  <2>3. /\ sd.type = "SIG" /\ sd.q = n /\ sd.h = h
        /\ sd.qf = f /\ sd.qt = n /\ sd.s = HcsSign(conf.key, h)
    BY <2>1, SDSigType
  <2> HIDE DEF sd
  <2> QED
    BY <2>2, <2>3 DEF f
<1>5. line.sd.s # NoSig
  BY <1>1, <1>2, <1>4, AbsentAssumption DEF HcsSign, Signature
<1>6. /\ c.state = "PROCESSING" /\ c.errors = << >>
      /\ ~c.ca /\ c.key = conf.key /\ c.strict = Opts.strict
      /\ c.alg = conf.alg /\ c.chain_hash = h /\ c.next_seq = n + 1
      /\ c.last_signed_seq = ctx.last_signed_seq
      /\ c.segment_count = ctx.segment_count
  BY <1>1, <1>4, VerifyAccepts
<1>7. c \in VCtx
  BY VerifySdMsgHashType DEF VCtxOK
<1>8. VerifierProcessLine(ctx, line) =
        IF Stopped(c) THEN c ELSE CheckSignature(c, line.sd)
  BY <1>1, <1>4, <1>5 DEF VerifierProcessLine, HandleSdSig
<1> HIDE DEF c
<1>9. /\ AddError(c, line.sd.qf # c.last_signed_seq + 1, "SIG from") = c
      /\ AddError(c, line.sd.qt # c.next_seq - 1, "SIG to") = c
  <2>1. line.sd.qf = c.last_signed_seq + 1 /\ line.sd.qt = c.next_seq - 1
    BY <1>1, <1>4, <1>6
  <2> QED
    BY <2>1 DEF AddError
<1>10. HcsVerify(c.key, c.chain_hash, line.sd.s)
  BY <1>4, <1>6 DEF HcsVerify
<1>11. CheckSignature(c, line.sd) = d
  BY <1>4, <1>9, <1>10 DEF CheckSignature
<1>12. /\ d.state = "PROCESSING" /\ d.errors = << >>
       /\ ~d.ca /\ d.key = conf.key /\ d.strict = Opts.strict
       /\ d.alg = conf.alg /\ d.chain_hash = h /\ d.next_seq = n + 1
       /\ d.last_signed_seq = n /\ d.segment_count = ctx.segment_count
  BY <1>6, <1>7 DEF VCtx
<1> HIDE DEF d
<1> QED
  BY <1>1, <1>2, <1>6, <1>8, <1>11, <1>12 DEF Stopped, Content, Synced, LogStep

(***************************************************************************)
(* The invariant, action by action                                          *)
(***************************************************************************)

(* Storing the line in hand: the verifier is where Ahead said it would be.   *)
LEMMA StoreKeepsInv ==
    ASSUME TypeOK, IInv, Store
    PROVE  IInv'
<1>1. /\ inhand # NoLine /\ inhand' = NoLine /\ conf' = conf /\ wrkr' = wrkr
      /\ disk' = disk /\ v' = Ahead /\ Ahead' = Ahead
  BY DEF Store, HandOver, Ahead
<1>2. Running /\ Running' /\ disk = NoState
  BY <1>1 DEF IInv, InHandFits, FileSynced, Running
<1>3. VerifierContent'
  BY <1>1 DEF IInv, VerifierContent, Content
<1>4. WorkerSynced' /\ PendingIsFile'
  BY <1>1 DEF IInv, WorkerSynced, PendingIsFile, Running, Synced
<1>5. NothingOwed'
  BY <1>1 DEF IInv, NothingOwed, Running, HasUnsigned
<1> QED
  BY <1>1, <1>2, <1>3, <1>4, <1>5 DEF IInv, InHandFits, FileSynced

(* A running worker hands on a line the verifier will accept. *)
LEMMA EmitKeepsInv ==
    ASSUME TypeOK, IInv, inhand = NoLine, NEW d, d = VerifierProcessLine(v, inhand'),
           inhand' # NoLine, UNCHANGED <<conf, v>>, disk' = NoState, Running',
           wrkr'.pending = NoState, Content(d), LogStep(v, d),
           wrkr'.chain.alg = conf.alg, wrkr'.fp = conf.key,
           wrkr'.sig_seq_from + wrkr'.chain.msg_count = wrkr'.chain.seq,
           IF wrkr'.is_first
           THEN wrkr'.chain = HashchainInit(conf.alg) /\ ~HasUnsigned(d)
           ELSE Synced(d, wrkr'.chain.current, conf.alg, wrkr'.chain.seq,
                       wrkr'.sig_seq_from)
    PROVE  IInv'
<1>1. Ahead' = d /\ wrkr' # NoWorker /\ wrkr'.initialized
  BY DEF Ahead, Running
<1>2. VerifierContent'
  BY <1>1 DEF IInv, VerifierContent, Content
<1>3. InHandFits'
  BY <1>1 DEF InHandFits, LogStep, HasUnsigned
<1>4. WorkerSynced'
  BY <1>1 DEF WorkerSynced, Synced
<1>5. FileSynced' /\ PendingIsFile'
  BY <1>1 DEF FileSynced, PendingIsFile
<1>6. NothingOwed'
  BY <1>1 DEF NothingOwed, Running, HasUnsigned
<1> QED
  BY <1>2, <1>3, <1>4, <1>5, <1>6 DEF IInv

(* The worker an ordinary message goes to, and what is left on disk *)
LEMMA CurrentSynced ==
    ASSUME TypeOK, IInv, Tolerable, inhand = NoLine, wrkr # NoWorker,
           NEW m \in Msgs, NEW fails \in ActionFails, GoesToCurrent(m, fails)
    PROVE  LET w == Current(m, fails)
           IN  /\ LiveWorker(w) /\ w.pending = NoState
               /\ w.fp = conf.key /\ w.chain.alg = conf.alg
               /\ w.sig_seq_from + w.chain.msg_count = w.chain.seq
               /\ disk' = NoState /\ conf' = conf
               /\ IF w.is_first
                  THEN /\ w.chain = HashchainInit(conf.alg)
                       /\ Opts.strict => ~HasUnsigned(v)
                  ELSE Synced(v, w.chain.current, conf.alg, w.chain.seq,
                              w.sig_seq_from)
<1> DEFINE i == HashchainInit(conf.alg)
           w0 == [Ready EXCEPT !.pending = NoState]
           r == ProcessFinal(w0, wrkr.pending, m, fails)
<1>1. /\ SignerTypeOK /\ conf \in Conf
      /\ wrkr.pending \in SavedState \cup {NoState} /\ Ahead = v
  BY LiveTyped DEF TypeOK, Ahead
<1>2. /\ LiveWorker(Ready) /\ Ready.pending = wrkr.pending
      /\ IF wrkr.initialized THEN Ready = wrkr
         ELSE /\ Ready.is_first /\ Ready.fp = conf.key /\ Ready.chain = i
              /\ Ready.sig_seq_from = 1
  BY <1>1, ReadyType, SignerAssumption
<1>3. i.alg = conf.alg /\ i.msg_count = 0 /\ i.seq = 1
  BY DEF HashchainInit
<1>4. /\ LiveWorker(w0) /\ w0.pending = NoState /\ w0.is_first = Ready.is_first
      /\ w0.chain = Ready.chain /\ w0.fp = Ready.fp
      /\ w0.sig_seq_from = Ready.sig_seq_from
  BY <1>2, DropPendingType
<1> HIDE DEF w0, i
<1>5. /\ wrkr.pending # NoState => r.sd = NoSD
      /\ Current(m, fails) = IF wrkr.pending = NoState THEN Ready ELSE r.w
      /\ IF wrkr.pending = NoState THEN disk' = disk ELSE DeleteState(fails)
      /\ conf' = conf
  BY DEF GoesToCurrent, Current, w0
<1>6. CASE wrkr.pending = NoState
  <2>1. disk = NoState
    BY <1>6 DEF IInv, PendingIsFile, FileSynced, Running
  <2>2. CASE wrkr.initialized
    <3>1. Current(m, fails) = wrkr /\ Running
      BY <1>2, <1>5, <1>6, <2>2 DEF Running
    <3>2. Opts.strict /\ wrkr.is_first => ~HasUnsigned(v)
      BY <1>1, <2>1 DEF IInv, NothingOwed
    <3> QED
      BY <1>1, <1>2, <1>5, <1>6, <2>1, <2>2, <3>1, <3>2 DEF IInv, WorkerSynced
  <2>3. CASE ~wrkr.initialized
    <3>1. Opts.strict => ~HasUnsigned(v)
      BY <1>1, <2>1, <2>3 DEF IInv, NothingOwed, Running
    <3> QED
      BY <1>2, <1>3, <1>5, <1>6, <2>1, <2>3, <3>1 DEF i
  <2> QED
    BY <2>2, <2>3
<1>7. CASE wrkr.pending # NoState
  <2>1. ~wrkr.initialized /\ wrkr.pending = disk /\ disk # NoState
    BY <1>7 DEF IInv, PendingIsFile
  <2>2. conf.statefiledir /\ disk.fp = conf.key /\ disk.alg = conf.alg
    BY <2>1 DEF IInv, FileSynced
  <2>3. "unlink" \notin fails /\ (Opts.strict => "final" \notin fails)
    BY DEF Tolerable, ActionFails, FailsOf
  <2>4. disk' = NoState
    BY <1>5, <1>7, <2>2, <2>3 DEF DeleteState
  <2>5. wrkr.pending \in SavedState /\ w0.fp = conf.key /\ w0.chain = i
        /\ w0.is_first /\ w0.sig_seq_from = 1
    BY <1>1, <1>2, <1>4, <1>7, <2>1
  <2>6. /\ LiveWorker(r.w) /\ r.w.pending = NoState /\ r.w.fp = conf.key
        /\ r.w.is_first /\ r.w.sig_seq_from = 1 /\ r.w.chain = i
        /\ ~Opts.strict
    <3>1. "final" \in fails
      BY <1>1, <1>4, <1>5, <1>7, <2>1, <2>2, <2>5, ProcessFinalType, AbsentAssumption
    <3> QED
      BY <1>1, <1>4, <2>3, <2>5, <3>1, ProcessFinalType DEF i
  <2> QED
    BY <1>3, <1>5, <1>7, <2>4, <2>6 DEF i
<1> QED
  BY <1>6, <1>7

(* The three kinds of entry process_msg may add *)
LEMMA ExtendKeepsInv ==
    ASSUME TypeOK, IInv, Tolerable, inhand = NoLine, wrkr # NoWorker,
           NEW m \in Msgs, NEW fails \in ActionFails, ExtendChain(m, fails),
           UNCHANGED v
    PROVE  IInv'
<1> DEFINE w == Current(m, fails)
           r == NextEntry(w, m, fails)
           n == w.chain.seq
           h == HashChainStep(w.chain.current, w.chain.seq, m)
           line == LineOf(r.sd, m, fails)
           d == VerifierProcessLine(v, line)
<1>1. /\ GoesToCurrent(m, fails) /\ wrkr' = r.w
      /\ "sign" \notin fails /\ "newsd" \notin fails /\ conf \in Conf
      /\ m \in Payload /\ VCtxOK(v) /\ Content(v)
      /\ r.sd # NoSD => inhand' = line
  BY LiveTyped DEF ExtendChain, Deliver, Tolerable, ActionFails, FailsOf, TypeOK,
     Payload, IInv, VerifierContent
<1>2. /\ LiveWorker(w) /\ w.pending = NoState
      /\ w.fp = conf.key /\ w.chain.alg = conf.alg
      /\ w.sig_seq_from + w.chain.msg_count = w.chain.seq
      /\ disk' = NoState /\ conf' = conf
      /\ IF w.is_first
         THEN /\ w.chain = HashchainInit(conf.alg)
              /\ Opts.strict => ~HasUnsigned(v)
         ELSE Synced(v, w.chain.current, conf.alg, w.chain.seq, w.sig_seq_from)
  BY <1>1, CurrentSynced
<1> HIDE DEF w
<1>3. /\ w.sig_seq_from \in Nat /\ w.chain.msg_count \in Nat /\ n \in Nat
      /\ w.chain.current \in Digest
  BY <1>2 DEF LiveWorker, Worker, Chain
<1>4. /\ LiveWorker(r.w) /\ r.w.pending = w.pending /\ r.w.fp = w.fp
      /\ h \in Digest /\ r.w.chain.alg = w.chain.alg /\ r.w.chain.current = h
      /\ r.w.chain.seq = n + 1 /\ ~r.w.is_first
      /\ w.is_first =>
            /\ r.sd \in SD /\ r.sd = SDInit(n, h, w.fp)
            /\ r.w.chain.msg_count = w.chain.msg_count + 1
            /\ r.w.sig_seq_from = w.sig_seq_from
      /\ SigIsDue(w) =>
            /\ r.sd \in SD
            /\ r.sd = SDSig(n, h, w.sig_seq_from, n, HcsSign(w.fp, h))
            /\ r.w.chain.msg_count = 0 /\ r.w.sig_seq_from = n + 1
      /\ ~w.is_first /\ ~SigIsDue(w) =>
            /\ r.sd \in SD /\ r.sd = SDMsg(n, h)
            /\ r.w.chain.msg_count = w.chain.msg_count + 1
            /\ r.w.sig_seq_from = w.sig_seq_from
  BY <1>1, <1>2, NextEntryType, SignerAssumption
<1> HIDE DEF r
<1>5. r.sd \in SD /\ r.sd # NoSD
  BY <1>4, AbsentAssumption
<1>6. line \in Line /\ line.sd = r.sd /\ line.msg = m /\ line # NoLine /\ inhand' = line
  BY <1>1, <1>5, LineOfType, AbsentStateAssumption
<1> HIDE DEF line
<1>7. w.is_first \/ SigIsDue(w) \/ (~w.is_first /\ ~SigIsDue(w))
  OBVIOUS
<1>8. /\ Content(d) /\ LogStep(v, d)
      /\ Synced(d, h, conf.alg, r.w.chain.seq, r.w.sig_seq_from)
  <2>1. CASE w.is_first
    <3>1. /\ n = 1 /\ w.chain.msg_count = 0 /\ w.chain.current = ChainInitHash(conf.alg)
          /\ w.sig_seq_from = 1
      <4>1. /\ n = 1 /\ w.chain.msg_count = 0
            /\ w.chain.current = ChainInitHash(conf.alg)
        BY <1>2, <2>1 DEF HashchainInit
      <4> QED
        BY <1>2, <1>3, <4>1
    <3>2. line.sd = SDInit(1, HashChainStep(ChainInitHash(conf.alg), 1, m), conf.key)
      BY <1>2, <1>4, <1>6, <2>1, <3>1
    <3>3. line.sd.h = h
      BY <1>2, <1>4, <1>6, <2>1, <3>1, SDInitType DEF LiveWorker
    <3>4. Content(d) /\ LogStep(v, d) /\ Synced(d, line.sd.h, conf.alg, 2, 1)
      BY <1>1, <1>2, <1>5, <1>6, <2>1, <3>2, AcceptInit
    <3>5. r.w.chain.seq = 2 /\ r.w.sig_seq_from = 1
      BY <1>4, <2>1, <3>1
    <3> QED
      BY <3>3, <3>4, <3>5
  <2>2. CASE ~w.is_first
    <3>1. /\ v.state = "PROCESSING" /\ v.alg = conf.alg
          /\ v.chain_hash = w.chain.current /\ v.next_seq = n
          /\ v.last_signed_seq + 1 = w.sig_seq_from
          /\ v.last_signed_seq \in Nat
      BY <1>1, <1>2, <2>2 DEF Synced, VCtxOK, VCtx
    <3>2. h = HashChainStep(v.chain_hash, v.next_seq, m)
      BY <3>1
    <3>3. CASE SigIsDue(w)
      <4>1. line.sd = SDSig(v.next_seq, h, v.last_signed_seq + 1, v.next_seq,
                            HcsSign(conf.key, h))
        BY <1>2, <1>4, <1>6, <3>1, <3>3
      <4>2. /\ Content(d) /\ LogStep(v, d)
            /\ Synced(d, h, conf.alg, v.next_seq + 1, v.next_seq + 1)
        BY <1>1, <1>5, <1>6, <3>1, <3>2, <4>1, AcceptSig
      <4> QED
        BY <1>4, <3>1, <3>3, <4>2
    <3>4. CASE ~SigIsDue(w)
      <4>1. w.chain.msg_count + 1 < SignInterval
        BY <1>3, <2>2, <3>4, SignerAssumption DEF SigIsDue
      <4>2. v.next_seq - v.last_signed_seq = w.chain.msg_count + 1
        BY <1>2, <1>3, <3>1
      <4>3. v.next_seq - v.last_signed_seq <= SignWindow
        BY <1>3, <4>1, <4>2, SignerAssumption DEF SignWindow
      <4>4. line.sd = SDMsg(v.next_seq, HashChainStep(v.chain_hash, v.next_seq, m))
        BY <1>4, <1>6, <2>2, <3>1, <3>4
      <4>5. line.sd.h = h
        BY <1>3, <1>4, <1>6, <2>2, <3>4, SDMsgType
      <4>6. /\ Content(d) /\ LogStep(v, d)
            /\ Synced(d, line.sd.h, conf.alg, v.next_seq + 1, v.last_signed_seq + 1)
        BY <1>1, <1>5, <1>6, <3>1, <4>3, <4>4, AcceptMsg
      <4>7. r.w.chain.seq = v.next_seq + 1 /\ r.w.sig_seq_from = v.last_signed_seq + 1
        BY <1>4, <2>2, <3>1, <3>4
      <4> QED
        BY <4>5, <4>6, <4>7
    <3> QED
      BY <3>3, <3>4
  <2> QED
    BY <2>1, <2>2
<1>9. r.w.sig_seq_from + r.w.chain.msg_count = r.w.chain.seq
  BY <1>2, <1>3, <1>4, <1>7
<1>10. Running'
  BY <1>1, <1>4, AbsentStateAssumption DEF Running, LiveWorker
<1> HIDE DEF d
<1>11. d = VerifierProcessLine(v, inhand')
  BY <1>6 DEF d
<1>12. /\ inhand' # NoLine /\ UNCHANGED <<conf, v>> /\ disk' = NoState
       /\ wrkr'.pending = NoState /\ wrkr'.chain.alg = conf.alg
       /\ wrkr'.fp = conf.key /\ ~wrkr'.is_first
       /\ wrkr'.sig_seq_from + wrkr'.chain.msg_count = wrkr'.chain.seq
       /\ Synced(d, wrkr'.chain.current, conf.alg, wrkr'.chain.seq, wrkr'.sig_seq_from)
  BY <1>1, <1>2, <1>4, <1>6, <1>8, <1>9
<1> QED
  BY <1>8, <1>10, <1>11, <1>12, EmitKeepsInv

(* The line that signs a saved tail continues the stored log. *)
LEMMA FinishKeepsInv ==
    ASSUME TypeOK, IInv, Tolerable, inhand = NoLine, wrkr # NoWorker,
           NEW m \in Msgs, NEW fails \in ActionFails, FinishOldChain(m, fails),
           UNCHANGED v
    PROVE  IInv'
<1> DEFINE i == HashchainInit(conf.alg)
           w0 == [Ready EXCEPT !.pending = NoState]
           st == wrkr.pending
           r == ProcessFinal(w0, st, m, fails)
           h == HashChainStep(st.chain_hash, st.seq, m)
           line == LineOf(r.sd, m, fails)
           d == VerifierProcessLine(v, line)
<1>1. /\ st # NoState /\ r.sd # NoSD /\ wrkr' = r.w /\ conf' = conf
      /\ DeleteState(fails) /\ Deliver(r.sd, m, fails)
  BY DEF FinishOldChain
<1>2. "unlink" \notin fails /\ "newsd" \notin fails
  BY DEF Tolerable, ActionFails, FailsOf
<1>3. /\ SignerTypeOK /\ conf \in Conf /\ st \in SavedState
      /\ m \in Payload /\ VCtxOK(v) /\ Content(v)
  BY <1>1, LiveTyped DEF TypeOK, Payload, IInv, VerifierContent
<1>4. ~wrkr.initialized /\ st = disk
  BY <1>1 DEF IInv, PendingIsFile
<1>5. /\ conf.statefiledir /\ st.fp = conf.key /\ st.alg = conf.alg
      /\ v.state = "PROCESSING" /\ v.chain_hash = st.chain_hash
      /\ v.next_seq = st.seq /\ v.last_signed_seq + 1 = st.sig_seq_from
  BY <1>1, <1>4 DEF IInv, FileSynced, Synced
<1>6. disk' = NoState
  BY <1>1, <1>2, <1>5 DEF DeleteState
<1>7. inhand' = line
  BY <1>1, <1>2 DEF Deliver
<1>8. LiveWorker(w0) /\ w0.pending = NoState /\ w0.fp = conf.key
  <2>1. LiveWorker(Ready) /\ Ready.fp = conf.key
    BY <1>3, <1>4, ReadyType, SignerAssumption
  <2> QED
    BY <2>1, DropPendingType
<1> HIDE DEF w0, st
<1>9. /\ LiveWorker(r.w) /\ r.w.pending = NoState /\ r.w.fp = conf.key
      /\ r.w.chain = i /\ r.w.is_first /\ r.w.sig_seq_from = 1
      /\ r.sd \in SD
      /\ r.sd = SDSig(st.seq, h, st.sig_seq_from, st.seq, HcsSign(conf.key, h))
  BY <1>1, <1>3, <1>8, ProcessFinalType
<1>10. i.alg = conf.alg /\ i.msg_count = 0 /\ i.seq = 1
  BY DEF HashchainInit
<1> HIDE DEF r, i
<1>11. line \in Line /\ line.sd = r.sd /\ line.msg = m
  BY <1>3, <1>9, LineOfType
<1> HIDE DEF line
<1>12. line # NoLine
  BY <1>11, AbsentStateAssumption
<1>13. h = HashChainStep(v.chain_hash, v.next_seq, m)
  BY <1>5
<1>14. line.sd = SDSig(v.next_seq, h, v.last_signed_seq + 1, v.next_seq,
                       HcsSign(conf.key, h))
  BY <1>5, <1>9, <1>11
<1> HIDE DEF h
<1>15. /\ Content(d) /\ LogStep(v, d)
       /\ Synced(d, h, conf.alg, v.next_seq + 1, v.next_seq + 1)
  BY <1>3, <1>5, <1>9, <1>11, <1>13, <1>14, AcceptSig
<1> HIDE DEF d
<1>16. ~HasUnsigned(d)
  <2>1. d.next_seq = v.next_seq + 1 /\ d.last_signed_seq + 1 = v.next_seq + 1
    BY <1>15 DEF Synced
  <2>2. v.next_seq \in Nat
    BY <1>3 DEF VCtxOK, VCtx
  <2>3. d.next_seq - 1 = v.next_seq /\ VCtxOK(d)
    BY <1>3, <1>11, <2>1, <2>2, VerifierProcessLineType DEF d
  <2>4. d.last_signed_seq \in Nat
    BY <2>3 DEF VCtxOK, VCtx
  <2> QED
    BY <2>1, <2>2, <2>3, <2>4 DEF HasUnsigned
<1>17. Running'
  BY <1>1, <1>9, AbsentStateAssumption DEF Running, LiveWorker
<1>18. d = VerifierProcessLine(v, inhand')
  BY <1>7 DEF d
<1>19. /\ inhand' # NoLine /\ UNCHANGED <<conf, v>> /\ wrkr'.pending = NoState
       /\ wrkr'.chain.alg = conf.alg /\ wrkr'.fp = conf.key /\ wrkr'.is_first
       /\ wrkr'.chain = HashchainInit(conf.alg)
       /\ wrkr'.sig_seq_from + wrkr'.chain.msg_count = wrkr'.chain.seq
  BY <1>1, <1>7, <1>9, <1>10, <1>12 DEF i
<1> QED
  BY <1>6, <1>15, <1>16, <1>17, <1>18, <1>19, EmitKeepsInv

(* hashchain_update fails: the worker is ready for the retry. *)
LEMMA HashFailsKeepsInv ==
    ASSUME TypeOK, IInv, Tolerable, inhand = NoLine, wrkr # NoWorker,
           NEW m \in Msgs, NEW fails \in ActionFails, HashFails(m, fails),
           UNCHANGED v
    PROVE  IInv'
<1> DEFINE w == Current(m, fails)
<1>1. /\ GoesToCurrent(m, fails) /\ wrkr' = w /\ inhand' = NoLine
      /\ Ahead = v /\ Ahead' = v
  BY DEF HashFails, Ahead
<1>2. /\ LiveWorker(w) /\ w.pending = NoState
      /\ w.fp = conf.key /\ w.chain.alg = conf.alg
      /\ w.sig_seq_from + w.chain.msg_count = w.chain.seq
      /\ disk' = NoState /\ conf' = conf
      /\ IF w.is_first
         THEN /\ w.chain = HashchainInit(conf.alg)
              /\ Opts.strict => ~HasUnsigned(v)
         ELSE Synced(v, w.chain.current, conf.alg, w.chain.seq, w.sig_seq_from)
  BY <1>1, CurrentSynced
<1> HIDE DEF w
<1>3. wrkr' # NoWorker /\ wrkr'.initialized
  BY <1>1, <1>2, AbsentStateAssumption DEF LiveWorker
<1>4. VerifierContent'
  BY <1>1, <1>2 DEF IInv, VerifierContent, Content
<1>5. InHandFits' /\ FileSynced' /\ PendingIsFile'
  BY <1>1, <1>2, <1>3 DEF InHandFits, FileSynced, PendingIsFile
<1>6. WorkerSynced'
  BY <1>1, <1>2 DEF WorkerSynced, Synced
<1>7. NothingOwed'
  BY <1>1, <1>2, <1>3 DEF NothingOwed, Running, HasUnsigned
<1> QED
  BY <1>4, <1>5, <1>6, <1>7 DEF IInv

(* final_sign's empty entry signs the tail of the chain. *)
LEMMA FinalSignKeepsInv ==
    ASSUME TypeOK, IInv, Tolerable, NEW fails \in FailsOf({"hash", "sign"}),
           FinalSign(fails), UNCHANGED v
    PROVE  IInv'
<1> DEFINE c == HashchainUpdate(wrkr.chain, EmptyMsg)
           e == HashchainResetCount(c)
           h == HashChainStep(wrkr.chain.current, wrkr.chain.seq, EmptyMsg)
           n == wrkr.chain.seq
           sd == SDSig(c.seq - 1, c.current, wrkr.sig_seq_from, c.seq - 1,
                       HcsSign(wrkr.fp, c.current))
           line == LineOf(sd, EmptyMsg, fails)
           k == (c.seq - 1) + 1
           w == [wrkr EXCEPT !.chain = e, !.sig_seq_from = k]
           d == VerifierProcessLine(v, line)
<1>1. "sign" \notin fails
  BY DEF Tolerable, FailsOf
<1>2. /\ Running /\ wrkr # NoWorker /\ inhand = NoLine
      /\ wrkr.chain.msg_count > 0 /\ wrkr' = w /\ inhand' = line
      /\ conf' = conf /\ disk' = disk
  BY <1>1 DEF FinalSign, InAction, HasUnsignedTail, Running
<1>3. /\ LiveWorker(wrkr) /\ conf \in Conf /\ EmptyMsg \in Payload
      /\ VCtxOK(v) /\ Content(v) /\ disk = NoState /\ wrkr.pending = NoState
  BY <1>2, LiveTyped
  DEF TypeOK, Running, Payload, IInv, VerifierContent, FileSynced, PendingIsFile
<1>4. /\ wrkr.chain \in Chain /\ wrkr.sig_seq_from \in Nat /\ n \in Nat
      /\ wrkr.chain.msg_count \in Nat /\ wrkr.chain.current \in Digest
  BY <1>3 DEF LiveWorker, Worker, Chain
<1>5. ~wrkr.is_first
  BY <1>2, <1>4 DEF IInv, WorkerSynced, HashchainInit
<1>6. /\ wrkr.chain.alg = conf.alg /\ wrkr.fp = conf.key
      /\ v.state = "PROCESSING" /\ v.chain_hash = wrkr.chain.current
      /\ v.next_seq = n /\ v.last_signed_seq + 1 = wrkr.sig_seq_from
  BY <1>2, <1>5 DEF IInv, WorkerSynced, Synced, Ahead
<1>7. /\ c \in Chain /\ c.seq = n + 1 /\ c.current = h /\ c.alg = conf.alg
      /\ e \in Chain /\ e.seq = n + 1 /\ e.msg_count = 0 /\ e.current = h
      /\ e.alg = conf.alg
  BY <1>3, <1>4, <1>6, HashchainUpdateType, HashchainResetCountType
<1> HIDE DEF e, c
<1>8. k = n + 1 /\ c.seq - 1 = n
  BY <1>4, <1>7
<1>9. sd = SDSig(n, h, wrkr.sig_seq_from, n, HcsSign(conf.key, h))
  BY <1>6, <1>7, <1>8
<1> HIDE DEF k
<1>10. /\ w \in Worker /\ w.chain = e /\ w.sig_seq_from = k /\ w.fp = conf.key
       /\ ~w.is_first /\ w.pending = NoState /\ w.initialized
  <2>1. e \in Chain /\ k \in Nat
    BY <1>4, <1>7, <1>8
  <2>2. /\ wrkr \in Worker /\ wrkr.initialized /\ ~wrkr.is_first
        /\ wrkr.pending = NoState /\ wrkr.fp = conf.key
    BY <1>3, <1>5, <1>6 DEF LiveWorker
  <2> QED
    BY <2>1, <2>2 DEF Worker
<1>11. h \in Digest /\ conf.key \in Keys
  BY <1>3, <1>4, HashChainStepType DEF Conf
<1> HIDE DEF sd, w, h
<1>12. sd \in SD
  BY <1>4, <1>9, <1>11, SDSigType
<1>13. line \in Line /\ line.sd = sd /\ line.msg = EmptyMsg
  BY <1>3, <1>12, LineOfType
<1> HIDE DEF line
<1>14. line # NoLine
  BY <1>13, AbsentStateAssumption
<1>15. h = HashChainStep(v.chain_hash, v.next_seq, EmptyMsg)
  BY <1>6 DEF h
<1>16. line.sd = SDSig(v.next_seq, h, v.last_signed_seq + 1, v.next_seq,
                       HcsSign(conf.key, h))
  BY <1>6, <1>9, <1>13
<1>17. /\ Content(d) /\ LogStep(v, d)
       /\ Synced(d, h, conf.alg, v.next_seq + 1, v.next_seq + 1)
  BY <1>3, <1>6, <1>12, <1>13, <1>15, <1>16, AcceptSig
<1> HIDE DEF d
<1>18. Running' /\ d = VerifierProcessLine(v, inhand')
  BY <1>2, <1>10, AbsentStateAssumption DEF Running, d
<1>19. /\ inhand' # NoLine /\ UNCHANGED <<conf, v>> /\ disk' = NoState
       /\ wrkr'.pending = NoState /\ wrkr'.chain.alg = conf.alg
       /\ wrkr'.fp = conf.key /\ ~wrkr'.is_first
       /\ wrkr'.sig_seq_from + wrkr'.chain.msg_count = wrkr'.chain.seq
       /\ Synced(d, wrkr'.chain.current, conf.alg, wrkr'.chain.seq,
                 wrkr'.sig_seq_from)
  <2>1. /\ wrkr'.chain = e /\ wrkr'.sig_seq_from = k /\ wrkr'.fp = conf.key
        /\ ~wrkr'.is_first /\ wrkr'.pending = NoState
    BY <1>2, <1>10
  <2>2. e.seq = v.next_seq + 1 /\ k = v.next_seq + 1 /\ k + 0 = e.seq
    BY <1>4, <1>6, <1>7, <1>8
  <2>3. k + e.msg_count = e.seq
    BY <1>7, <2>2
  <2> QED
    BY <1>2, <1>3, <1>7, <1>14, <1>17, <2>1, <2>2, <2>3
<1> QED
  BY <1>2, <1>17, <1>18, <1>19, EmitKeepsInv

(* A new worker takes the state file for its pending state. *)
LEMMA CreateKeepsInv ==
    ASSUME TypeOK, IInv, Tolerable, NEW fails \in FailsOf({"load"}),
           CreateWorker(fails), UNCHANGED v
    PROVE  IInv'
<1>1. /\ wrkr = NoWorker /\ "load" \notin fails
      /\ ~wrkr'.initialized /\ conf' = conf /\ disk' = disk /\ inhand' = inhand
      /\ wrkr'.pending = IF conf.statefiledir THEN disk ELSE NoState
  BY DEF CreateWorker, Tolerable, FailsOf
<1>2. ~Running /\ ~Running' /\ inhand = NoLine /\ Ahead' = Ahead
  BY <1>1 DEF Running, Ahead, IInv, InHandFits
<1>3. wrkr'.pending = disk
  BY <1>1 DEF IInv, FileSynced
<1>4. VerifierContent' /\ FileSynced'
  BY <1>1, <1>2 DEF IInv, VerifierContent, Content, FileSynced, Synced
<1>5. InHandFits' /\ WorkerSynced' /\ PendingIsFile'
  BY <1>1, <1>2, <1>3 DEF InHandFits, WorkerSynced, PendingIsFile
<1>6. NothingOwed'
  BY <1>1, <1>2 DEF IInv, NothingOwed, HasUnsigned
<1> QED
  BY <1>4, <1>5, <1>6 DEF IInv

(* The state file a stopping worker leaves describes the end of the log. *)
LEMMA FreeKeepsInv ==
    ASSUME TypeOK, IInv, Tolerable, NEW fails \in FailsOf({"save"}),
           FreeWorker(fails), UNCHANGED v
    PROVE  IInv'
<1>1. /\ wrkr # NoWorker /\ wrkr' = NoWorker /\ inhand = NoLine
      /\ inhand' = NoLine /\ conf' = conf /\ Ahead = v /\ Ahead' = v
      /\ disk' = IF conf.statefiledir /\ HasUnsignedTail(wrkr)
                    /\ "save" \notin fails
                 THEN StateOf(wrkr) ELSE disk
  BY DEF FreeWorker, Ahead
<1>2. ~Running' /\ (Opts.strict => "save" \notin fails /\ conf.statefiledir)
  BY <1>1 DEF Running, Tolerable, FailsOf, TypeOK, SignerTypeOK
<1>3. VerifierContent' /\ InHandFits' /\ WorkerSynced' /\ PendingIsFile'
  BY <1>1, <1>2 DEF IInv, VerifierContent, Content, InHandFits, WorkerSynced,
     PendingIsFile
<1>4. CASE disk' = disk /\ ~(conf.statefiledir /\ HasUnsignedTail(wrkr)
                             /\ "save" \notin fails)
  <2>1. FileSynced'
    BY <1>1, <1>2, <1>4 DEF IInv, FileSynced, Synced
  <2>2. ASSUME Opts.strict, disk = NoState
        PROVE  ~HasUnsigned(v)
    <3>1. CASE Running => wrkr.is_first
      BY <1>1, <2>2, <3>1 DEF IInv, NothingOwed
    <3>2. CASE Running /\ ~wrkr.is_first
      <4>1. ~(wrkr.chain.msg_count > 0)
        BY <1>2, <1>4, <2>2, <3>2 DEF HasUnsignedTail, Running
      <4>2. LiveWorker(wrkr) /\ VCtxOK(v)
        BY <1>1, <3>2, LiveTyped DEF Running, TypeOK
      <4>3. /\ wrkr.chain.msg_count \in Nat /\ wrkr.chain.seq \in Nat
            /\ wrkr.sig_seq_from \in Nat /\ v.last_signed_seq \in Nat
        BY <4>2 DEF LiveWorker, Worker, Chain, VCtxOK, VCtx
      <4>4. /\ wrkr.sig_seq_from + wrkr.chain.msg_count = wrkr.chain.seq
            /\ v.next_seq = wrkr.chain.seq
            /\ v.last_signed_seq + 1 = wrkr.sig_seq_from
        BY <1>1, <3>2 DEF IInv, WorkerSynced, Synced
      <4> QED
        BY <4>1, <4>3, <4>4 DEF HasUnsigned
    <3> QED
      BY <3>1, <3>2
  <2>3. NothingOwed'
    BY <1>1, <1>4, <2>2 DEF NothingOwed, HasUnsigned
  <2> QED
    BY <1>3, <2>1, <2>3 DEF IInv
<1>5. CASE disk' = StateOf(wrkr) /\ conf.statefiledir /\ HasUnsignedTail(wrkr)
  <2>1. Running /\ LiveWorker(wrkr) /\ wrkr.chain.msg_count > 0
    BY <1>1, <1>5, LiveTyped DEF HasUnsignedTail, Running, TypeOK
  <2>2. ~wrkr.is_first
    BY <2>1 DEF IInv, WorkerSynced, HashchainInit
  <2>3. StateOf(wrkr) \in SavedState
    BY <2>1 DEF StateOf, SavedState, LiveWorker, Worker, Chain
  <2>4. StateOf(wrkr) # NoState
    BY <2>3, AbsentStateAssumption
  <2>5. FileSynced'
    BY <1>1, <1>2, <1>5, <2>1, <2>2
    DEF IInv, WorkerSynced, FileSynced, StateOf, Synced
  <2>6. NothingOwed'
    BY <1>5, <2>4 DEF NothingOwed
  <2> QED
    BY <1>3, <2>5, <2>6 DEF IInv
<1> QED
  BY <1>1, <1>4, <1>5

(* A crash loses the line in hand and the tail; the rest still verifies.     *)
LEMMA CrashKeepsInv ==
    ASSUME TypeOK, IInv, Tolerable, Crash, UNCHANGED v
    PROVE  IInv'
<1>1. /\ wrkr' = NoWorker /\ inhand' = NoLine /\ conf' = conf /\ disk' = disk
      /\ ~Opts.strict /\ ~Running' /\ Ahead' = v
  BY DEF Crash, Tolerable, Running, Ahead
<1>2. VerifierContent' /\ InHandFits' /\ WorkerSynced' /\ PendingIsFile'
  BY <1>1 DEF IInv, VerifierContent, Content, InHandFits, WorkerSynced, PendingIsFile
<1>3. FileSynced' /\ NothingOwed'
  BY <1>1 DEF IInv, FileSynced, NothingOwed, Synced
<1> QED
  BY <1>2, <1>3 DEF IInv

(* A new configuration with the same key, algorithm and state directory *)
LEMMA ReconfigureKeepsInv ==
    ASSUME TypeOK, IInv, Tolerable, Reconfigure, UNCHANGED v
    PROVE  IInv'
<1>1. /\ wrkr = NoWorker /\ wrkr' = NoWorker /\ inhand' = inhand /\ disk' = disk
      /\ ~Running /\ ~Running' /\ Ahead' = Ahead
  BY DEF Reconfigure, Running, Ahead
<1>2. conf \in Confs /\ conf' \in Confs
  BY DEF Reconfigure, TypeOK, SignerTypeOK
<1>3. /\ conf'.key = conf.key /\ conf'.alg = conf.alg
      /\ conf'.statefiledir = conf.statefiledir
  BY <1>2 DEF Tolerable
<1>4. VerifierContent' /\ FileSynced'
  BY <1>1, <1>3 DEF IInv, VerifierContent, Content, FileSynced, Synced
<1>5. InHandFits' /\ WorkerSynced' /\ PendingIsFile' /\ NothingOwed'
  BY <1>1 DEF IInv, InHandFits, WorkerSynced, PendingIsFile, NothingOwed,
     Running, LogStep, HasUnsigned
<1> QED
  BY <1>4, <1>5 DEF IInv

(***************************************************************************)
(* The theorems                                                             *)
(***************************************************************************)

(* doAction, path by path *)
LEMMA DoActionKeepsInv ==
    ASSUME TypeOK, IInv, Tolerable, NEW m \in Msgs, NEW fails \in ActionFails,
           DoAction(m, fails), UNCHANGED v
    PROVE  IInv'
<1>1. inhand = NoLine /\ wrkr # NoWorker /\ "payload" \notin fails
  BY DEF DoAction, InAction, Tolerable, ActionFails, FailsOf
<1>2. CASE InitFails(fails)
  BY <1>2 DEF InitFails, signerVars, IInv, VerifierContent, Content, InHandFits,
     LogStep, HasUnsigned, Ahead, WorkerSynced, FileSynced, PendingIsFile,
     NothingOwed, Running, Synced
<1> QED
  BY <1>1, <1>2, FinishKeepsInv, HashFailsKeepsInv, ExtendKeepsInv
  DEF DoAction, PayloadFails

(* Every step of the pipeline keeps the invariant. *)
LEMMA InvStep ==
    ASSUME TypeOK, IInv, Tolerable, [Next]_vars
    PROVE  IInv'
<1>1. CASE UNCHANGED vars
  BY <1>1 DEF vars, IInv, VerifierContent, Content, InHandFits,
     LogStep, HasUnsigned, Ahead, WorkerSynced, FileSynced, PendingIsFile,
     NothingOwed, Running, Synced
<1>2. CASE \E m \in Msgs : Sign(m)
  BY <1>2, DoActionKeepsInv DEF Sign
<1>3. CASE SignTail
  BY <1>3, FinalSignKeepsInv DEF SignTail
<1>4. CASE Store
  BY <1>4, StoreKeepsInv
<1>5. CASE Start
  BY <1>5, CreateKeepsInv DEF Start
<1>6. CASE Stop
  BY <1>6, FreeKeepsInv DEF Stop
<1>7. CASE Kill
  BY <1>7, CrashKeepsInv DEF Kill
<1>8. CASE Rewrite
  BY <1>8, ReconfigureKeepsInv DEF Rewrite
<1> QED
  BY <1>1, <1>2, <1>3, <1>4, <1>5, <1>6, <1>7, <1>8 DEF Next

(* The invariant holds before the first worker starts. *)
LEMMA InvInit ==
    ASSUME Tolerable, Init
    PROVE  IInv
<1>1. conf \in Confs /\ wrkr = NoWorker /\ disk = NoState /\ inhand = NoLine
      /\ v = VerifierInit(Opts) /\ ~Running /\ Ahead = v
  BY DEF Init, SignerInit, Running, Ahead
<1>2. Opts.key \in Keys /\ conf.key = Opts.key /\ Opts.key # NoKey
  BY <1>1, AbsentAssumption DEF Tolerable
<1>3. Content(v) /\ ~HasUnsigned(v)
  <2> DEFINE key == Opts.key
             strict == Opts.strict
             ca == key = NoKey
  <2>1. v = [state |-> "EXPECT_INIT", ca |-> ca, key |-> key, alg |-> NoAlg,
             chain_hash |-> NoAlg, next_seq |-> 1, msg_count |-> 0,
             sig_count |-> 0, last_signed_seq |-> 0, segment_count |-> 0,
             strict |-> strict, errors |-> << >>]
    BY <1>1 DEF VerifierInit
  <2>2. ca = FALSE /\ key = conf.key
    BY <1>2
  <2> HIDE DEF key, strict, ca
  <2>3. /\ v.state = "EXPECT_INIT" /\ v.ca = FALSE /\ v.key = conf.key
        /\ v.alg = NoAlg /\ v.next_seq = 1 /\ v.last_signed_seq = 0
        /\ v.segment_count = 0 /\ v.strict = strict /\ v.errors = << >>
    BY <2>1, <2>2
  <2> QED
    BY <2>3 DEF Content, HasUnsigned, strict
<1> QED
  BY <1>1, <1>3 DEF IInv, VerifierContent, InHandFits, WorkerSynced, FileSynced,
     PendingIsFile, NothingOwed

(* IInv holds in every reachable state when only tolerable calls fail: the   *)
(* worker, its pending state and the file continue exactly the stored log.   *)
THEOREM LogInvariant ==
    ASSUME Tolerable
    PROVE  Spec => [](TypeOK /\ IInv)
<1>1. Init => TypeOK /\ IInv
  BY InitType, InvInit
<1>2. TypeOK /\ IInv /\ [Next]_vars => (TypeOK /\ IInv)'
  BY StepType, InvStep
<1> QED
  BY <1>1, <1>2, PTL DEF Spec

(* An honest log verifies with no finding, for any number of messages,       *)
(* restarts, crashes and tolerated failures and for every sign interval.     *)
THEOREM HonestLogVerifies ==
    ASSUME Tolerable
    PROVE  Spec => []NoFalseAlarm
<1>1. TypeOK /\ IInv => NoFalseAlarm
  BY DEF IInv, VerifierContent, Content, NoFalseAlarm, VerifierPassed
<1> QED
  BY <1>1, LogInvariant, PTL

(* The state file always describes the end of the stored log, so the entry   *)
(* process_final computes from it is the one the verifier expects.           *)
THEOREM StateFileAgrees ==
    ASSUME Tolerable
    PROVE  Spec => []StateFileMatchesLog
<1>1. TypeOK /\ IInv => StateFileMatchesLog
  BY DEF IInv, FileSynced, Synced, StateFileMatchesLog
<1> QED
  BY <1>1, LogInvariant, PTL

(* Storing a line is a step of the abstract log, every other step stutters.  *)
LEMMA StoreIsLogStep ==
    ASSUME TypeOK, TypeOK', IInv, Store
    PROVE  CL!Next
<1>1. /\ LogStep(v, v') /\ v.next_seq \in Nat /\ v'.next_seq \in Nat
      /\ v.last_signed_seq \in Nat /\ v'.last_signed_seq \in Nat
  BY DEF Store, HandOver, IInv, InHandFits, Ahead, TypeOK, VCtxOK, VCtx
<1>2. CASE /\ Opts.strict => ~HasUnsigned(v)
           /\ v'.segment_count = v.segment_count + 1
           /\ v'.next_seq = 2 /\ v'.last_signed_seq = 0
  BY <1>2 DEF CL!Next, CL!Open, HasUnsigned
<1>3. CASE /\ v.segment_count > 0 /\ v'.segment_count = v.segment_count
           /\ v'.next_seq = v.next_seq + 1
           /\ v'.last_signed_seq = v.last_signed_seq
           /\ v.next_seq - v.last_signed_seq <= SignWindow
  <2>1. /\ v'.next_seq - 1 = (v.next_seq - 1) + 1
        /\ (v.next_seq - 1) + 1 = v.next_seq
    BY <1>1, <1>3
  <2>2. (v.next_seq - 1) + 1 - v.last_signed_seq <= SignWindow
    BY <1>1, <1>3, SignerAssumption DEF SignWindow
  <2> QED
    BY <1>3, <2>1, <2>2 DEF CL!Next, CL!Extend
<1>4. CASE /\ v.segment_count > 0 /\ v'.segment_count = v.segment_count
           /\ v'.next_seq = v.next_seq + 1
           /\ v'.last_signed_seq = v.next_seq
  <2>1. /\ v'.next_seq - 1 = (v.next_seq - 1) + 1
        /\ (v.next_seq - 1) + 1 = v.next_seq
    BY <1>1, <1>4
  <2> QED
    BY <1>4, <2>1 DEF CL!Next, CL!Seal
<1> QED
  BY <1>1, <1>2, <1>3, <1>4 DEF LogStep

(* What a reader of the log sees is ChainLog: segments grow one entry at a   *)
(* time, at most SignWindow entries lack a signature, and a strict run only  *)
(* opens a segment after everything before it is signed.                     *)
THEOREM LogRefinesChainLog ==
    ASSUME Tolerable
    PROVE  Spec => ImplementsChainLog
<1>1. Init => CL!Init
  BY DEF Init, VerifierInit, CL!Init
<1>2. TypeOK /\ IInv /\ (TypeOK /\ IInv)' /\ [Next]_vars => [CL!Next]_CL!vars
  <2> SUFFICES ASSUME TypeOK, IInv, TypeOK', [Next]_vars
               PROVE  [CL!Next]_CL!vars
    OBVIOUS
  <2>1. CASE Store
    BY <2>1, StoreIsLogStep
  <2>2. CASE UNCHANGED v
    BY <2>2 DEF CL!vars
  <2> QED
    BY <2>1, <2>2 DEF Next, vars, Sign, SignTail, Start, Stop, Kill, Rewrite
<1> QED
  BY <1>1, <1>2, LogInvariant, PTL DEF Spec, CL!Spec, ImplementsChainLog

(***************************************************************************)
(* The tail kept over a graceful stop                                       *)
(***************************************************************************)

(* A pending state is that of the file and of the configured key; the        *)
(* process_final that refuses it failed to hash or to sign.                  *)
LEMMA PendingTail ==
    ASSUME TypeOK, TailInv, OneTail, wrkr # NoWorker, wrkr.pending # NoState,
           NEW m \in Msgs, NEW fails \in ActionFails
    PROVE  LET st == wrkr.pending
               r == ProcessFinal([Ready EXCEPT !.pending = NoState], st, m, fails)
               h == HashChainStep(st.chain_hash, st.seq, m)
           IN  /\ st = disk /\ disk # NoState
               /\ LiveWorker(r.w) /\ r.w.pending = NoState /\ r.w.fp = conf.key
               /\ r.w.chain.alg = conf.alg
               /\ DeleteState(fails) => disk' = NoState
               /\ "final" \notin fails =>
                     /\ r.sd \in SD
                     /\ r.sd = SDSig(st.seq, h, st.sig_seq_from, st.seq,
                                     HcsSign(st.fp, h))
<1> DEFINE i == HashchainInit(conf.alg)
           w0 == [Ready EXCEPT !.pending = NoState]
           st == wrkr.pending
           r == ProcessFinal(w0, st, m, fails)
           h == HashChainStep(st.chain_hash, st.seq, m)
<1>1. /\ SignerTypeOK /\ conf \in Conf /\ st \in SavedState
  BY LiveTyped DEF TypeOK
<1>2. ~wrkr.initialized /\ st = disk /\ disk # NoState
  BY DEF TailInv, PendingIsFile
<1>3. conf.statefiledir /\ st.fp = conf.key /\ st.alg = conf.alg
  BY <1>2 DEF TailInv
<1>4. /\ LiveWorker(Ready) /\ Ready.fp = conf.key /\ Ready.chain = i
  BY <1>1, <1>2, ReadyType, SignerAssumption
<1>5. i.alg = conf.alg
  BY DEF HashchainInit
<1>6. /\ LiveWorker(w0) /\ w0.pending = NoState /\ w0.fp = conf.key
      /\ w0.chain = i
  BY <1>4, DropPendingType
<1> HIDE DEF w0, st, i
<1>7. /\ LiveWorker(r.w) /\ r.w.pending = NoState /\ r.w.fp = conf.key
      /\ r.w.chain \in {w0.chain, HashchainInit(conf.alg)}
      /\ "final" \notin fails =>
            /\ r.sd \in SD
            /\ r.sd = SDSig(st.seq, h, st.sig_seq_from, st.seq,
                            HcsSign(w0.fp, h))
  BY <1>1, <1>3, <1>6, ProcessFinalType
<1>8. "unlink" \notin fails
  BY DEF OneTail, ActionFails, FailsOf
<1>9. DeleteState(fails) => disk' = NoState
  BY <1>3, <1>8 DEF DeleteState
<1> HIDE DEF r, h
<1>10. r.w.chain = i
  BY <1>6, <1>7 DEF i
<1> QED
  BY <1>2, <1>3, <1>5, <1>6, <1>7, <1>9, <1>10 DEF w0, st, r, h

(* The worker of the chain the message goes to                               *)
LEMMA CurrentTail ==
    ASSUME TypeOK, TailInv, OneTail, wrkr # NoWorker,
           NEW m \in Msgs, NEW fails \in ActionFails, GoesToCurrent(m, fails)
    PROVE  LET w == Current(m, fails)
           IN  /\ LiveWorker(w) /\ w.pending = NoState /\ w.fp = conf.key
               /\ w.chain.alg = conf.alg
               /\ disk' = NoState /\ conf' = conf
               /\ disk # NoState => "final" \in fails
<1>1. CASE wrkr.pending = NoState
  <2>1. disk = NoState /\ disk' = NoState /\ conf' = conf
    BY <1>1 DEF TailInv, PendingIsFile, Running, GoesToCurrent
  <2>2. SignerTypeOK /\ conf \in Conf
    BY LiveTyped DEF TypeOK
  <2>3. /\ LiveWorker(Ready) /\ Ready.pending = NoState
        /\ IF wrkr.initialized THEN Ready = wrkr
           ELSE /\ Ready.fp = conf.key
                /\ Ready.chain = HashchainInit(conf.alg)
    BY <1>1, <2>2, ReadyType, SignerAssumption
  <2>4. HashchainInit(conf.alg).alg = conf.alg
    BY DEF HashchainInit
  <2>5. Ready.fp = conf.key /\ Ready.chain.alg = conf.alg
    BY <2>3, <2>4 DEF TailInv, Running
  <2> QED
    BY <1>1, <2>1, <2>3, <2>5 DEF Current
<1>2. CASE wrkr.pending # NoState
  <2> DEFINE r == ProcessFinal([Ready EXCEPT !.pending = NoState],
                               wrkr.pending, m, fails)
  <2>1. /\ r.sd = NoSD /\ DeleteState(fails) /\ conf' = conf
        /\ Current(m, fails) = r.w
    BY <1>2 DEF GoesToCurrent, Current
  <2>2. /\ LiveWorker(r.w) /\ r.w.pending = NoState /\ r.w.fp = conf.key
        /\ r.w.chain.alg = conf.alg /\ disk' = NoState
        /\ "final" \notin fails => r.sd \in SD
    BY <1>2, <2>1, PendingTail
  <2> HIDE DEF r
  <2> QED
    BY <2>1, <2>2, AbsentAssumption
<1> QED
  BY <1>1, <1>2

(* doAction gives the file up, or leaves worker and file alone.              *)
LEMMA DoActionTail ==
    ASSUME TypeOK, TailInv, OneTail, NEW m \in Msgs, NEW fails \in ActionFails,
           DoAction(m, fails)
    PROVE  /\ conf' = conf
           /\ \/ UNCHANGED <<wrkr, disk>>
              \/ /\ disk' = NoState /\ LiveWorker(wrkr') /\ wrkr'.pending = NoState
                 /\ wrkr'.fp = conf.key /\ wrkr'.chain.alg = conf.alg
           /\ disk # NoState /\ disk' # disk =>
                 \/ {"final", "newsd"} \cap fails # {}
                 \/ SignsSavedTail(disk, inhand')
<1>1. wrkr # NoWorker
  BY DEF DoAction, InAction
<1>2. CASE PayloadFails(m, fails) \/ InitFails(fails)
  BY <1>2 DEF PayloadFails, InitFails, signerVars
<1>3. CASE FinishOldChain(m, fails)
  <2> DEFINE st == wrkr.pending
             r == ProcessFinal([Ready EXCEPT !.pending = NoState], st, m, fails)
             h == HashChainStep(st.chain_hash, st.seq, m)
  <2>1. /\ st # NoState /\ wrkr' = r.w /\ conf' = conf /\ DeleteState(fails)
        /\ Deliver(r.sd, m, fails)
    BY <1>3 DEF FinishOldChain
  <2>2. /\ st = disk /\ disk # NoState
        /\ LiveWorker(r.w) /\ r.w.pending = NoState /\ r.w.fp = conf.key
        /\ r.w.chain.alg = conf.alg /\ disk' = NoState
        /\ "final" \notin fails =>
              /\ r.sd \in SD
              /\ r.sd = SDSig(st.seq, h, st.sig_seq_from, st.seq,
                              HcsSign(st.fp, h))
    BY <1>1, <2>1, PendingTail
  <2>3. /\ conf \in Conf /\ st \in SavedState /\ m \in Payload
    BY <1>1, <2>1, LiveTyped DEF TypeOK, Payload
  <2>4. /\ st.seq \in Nat /\ st.sig_seq_from \in Nat /\ st.fp \in Keys
        /\ h \in Digest
    BY <2>3, HashChainStepType DEF SavedState
  <2> HIDE DEF r, h, st
  <2>5. ASSUME "final" \notin fails, "newsd" \notin fails
        PROVE  SignsSavedTail(disk, inhand')
    <3> DEFINE line == LineOf(r.sd, m, fails)
    <3>1. inhand' = line
      BY <2>1, <2>5 DEF Deliver
    <3>2. line \in Line /\ line.sd = r.sd
      BY <2>2, <2>3, <2>5, LineOfType
    <3>3. r.sd \in SD /\ r.sd = SDSig(st.seq, h, st.sig_seq_from, st.seq,
                                      HcsSign(st.fp, h))
      BY <2>2, <2>5
    <3> HIDE DEF line
    <3>4. line # NoLine /\ line.sd # NoSD
      BY <3>2, <3>3, AbsentStateAssumption, AbsentAssumption
    <3>5. /\ line.sd.type = "SIG" /\ line.sd.q = st.seq /\ line.sd.h = h
          /\ line.sd.qf = st.sig_seq_from /\ line.sd.qt = st.seq
          /\ line.sd.s = HcsSign(st.fp, h)
      BY <2>4, <3>2, <3>3, SDSigType
    <3> QED
      BY <2>2, <3>1, <3>4, <3>5 DEF SignsSavedTail
  <2> QED
    BY <2>1, <2>2, <2>5
<1>4. CASE HashFails(m, fails)
  <2>1. GoesToCurrent(m, fails) /\ wrkr' = Current(m, fails)
    BY <1>4 DEF HashFails
  <2> QED
    BY <1>1, <2>1, CurrentTail
<1>5. CASE ExtendChain(m, fails)
  <2> DEFINE w == Current(m, fails)
             r == NextEntry(w, m, fails)
  <2>1. GoesToCurrent(m, fails) /\ wrkr' = r.w
    BY <1>5 DEF ExtendChain
  <2>2. /\ LiveWorker(w) /\ w.pending = NoState /\ w.fp = conf.key
        /\ w.chain.alg = conf.alg /\ disk' = NoState /\ conf' = conf
        /\ disk # NoState => "final" \in fails
    BY <1>1, <2>1, CurrentTail
  <2> HIDE DEF w
  <2>3. /\ LiveWorker(r.w) /\ r.w.pending = w.pending /\ r.w.fp = w.fp
        /\ r.w.chain.alg = w.chain.alg
    BY <2>2, NextEntryType, SignerAssumption
  <2> HIDE DEF r
  <2> QED
    BY <2>1, <2>2, <2>3
<1> QED
  BY <1>2, <1>3, <1>4, <1>5 DEF DoAction

(* freeWrkrInstance writes a file only when there is none.                   *)
LEMMA FreeTail ==
    ASSUME TypeOK, TailInv, NEW fails, FreeWorker(fails)
    PROVE  /\ TailInv' /\ (disk # NoState => disk' = disk)
<1>1. /\ wrkr # NoWorker /\ wrkr' = NoWorker /\ conf' = conf
      /\ disk' = IF conf.statefiledir /\ HasUnsignedTail(wrkr)
                    /\ "save" \notin fails
                 THEN StateOf(wrkr) ELSE disk
  BY DEF FreeWorker
<1>2. PendingIsFile' /\ ~Running'
  BY <1>1 DEF PendingIsFile, Running
<1>3. CASE disk' = disk
  BY <1>1, <1>2, <1>3 DEF TailInv
<1>4. CASE conf.statefiledir /\ HasUnsignedTail(wrkr) /\ disk' = StateOf(wrkr)
  <2>1. Running
    BY <1>1, <1>4 DEF Running, HasUnsignedTail
  <2>2. disk = NoState /\ wrkr.fp = conf.key /\ wrkr.chain.alg = conf.alg
    BY <2>1 DEF TailInv
  <2>3. disk'.fp = conf.key /\ disk'.alg = conf.alg
    BY <1>4, <2>2 DEF StateOf
  <2> QED
    BY <1>1, <1>2, <1>4, <2>2, <2>3 DEF TailInv
<1> QED
  BY <1>1, <1>3, <1>4

(* Every step keeps the tail in one place and hands it over.                 *)
LEMMA TailStep ==
    ASSUME OneTail, TypeOK, TailInv, [Next]_vars
    PROVE  /\ TailInv'
           /\ Faults \cap {"final", "newsd"} = {} =>
                 (disk # NoState /\ disk' # disk => SignsSavedTail(disk, inhand'))
<1>1. ASSUME NEW m \in Msgs, Sign(m)
      PROVE  /\ TailInv'
             /\ Faults \cap {"final", "newsd"} = {} =>
                 (disk # NoState /\ disk' # disk => SignsSavedTail(disk, inhand'))
  <2>1. PICK fails \in ActionFails : DoAction(m, fails)
    BY <1>1 DEF Sign
  <2>2. fails \subseteq Faults
    BY DEF ActionFails, FailsOf
  <2>3. /\ conf' = conf
        /\ \/ UNCHANGED <<wrkr, disk>>
           \/ /\ disk' = NoState /\ LiveWorker(wrkr') /\ wrkr'.pending = NoState
              /\ wrkr'.fp = conf.key /\ wrkr'.chain.alg = conf.alg
        /\ disk # NoState /\ disk' # disk =>
              \/ {"final", "newsd"} \cap fails # {}
              \/ SignsSavedTail(disk, inhand')
    BY <2>1, DoActionTail
  <2>4. TailInv'
    <3>1. CASE UNCHANGED <<wrkr, disk>>
      BY <2>3, <3>1 DEF TailInv, PendingIsFile, Running
    <3>2. CASE /\ disk' = NoState /\ LiveWorker(wrkr') /\ wrkr'.pending = NoState
               /\ wrkr'.fp = conf.key /\ wrkr'.chain.alg = conf.alg
      BY <2>3, <3>2 DEF TailInv, PendingIsFile, Running, LiveWorker
    <3> QED
      BY <2>3, <3>1, <3>2
  <2> QED
    BY <2>2, <2>3, <2>4
<1>2. CASE SignTail
  <2>1. PICK fails : FinalSign(fails)
    BY <1>2 DEF SignTail
  <2>2. /\ wrkr # NoWorker /\ wrkr.initialized /\ conf' = conf /\ disk' = disk
    BY <2>1 DEF FinalSign, InAction, HasUnsignedTail
  <2>3. LiveWorker(wrkr)
    BY <2>2, LiveTyped DEF TypeOK
  <2> DEFINE c == HashchainUpdate(wrkr.chain, EmptyMsg)
             z == HashchainResetCount(c)
  <2>4. /\ c \in Chain /\ c.alg = wrkr.chain.alg
        /\ z \in Chain /\ z.alg = wrkr.chain.alg
    <3>1. wrkr.chain \in Chain /\ EmptyMsg \in Payload
      BY <2>3 DEF LiveWorker, Payload
    <3>2. c \in Chain /\ c.alg = wrkr.chain.alg
      BY <3>1, HashchainUpdateType
    <3> HIDE DEF c
    <3> QED
      BY <3>2, HashchainResetCountType
  <2>5. \/ wrkr' = [wrkr EXCEPT !.chain = c]
        \/ wrkr' = [wrkr EXCEPT !.chain = z, !.sig_seq_from = (c.seq - 1) + 1]
    BY <2>1 DEF FinalSign
  <2> HIDE DEF c, z
  <2>6. wrkr \in Worker
    BY <2>3 DEF LiveWorker
  <2>7. /\ wrkr'.initialized /\ wrkr'.pending = wrkr.pending /\ wrkr'.fp = wrkr.fp
        /\ wrkr'.chain.alg = wrkr.chain.alg
    BY <2>2, <2>4, <2>5, <2>6 DEF Worker
  <2>8. Running /\ disk = NoState
    BY <2>2 DEF Running, TailInv
  <2>9. TailInv'
    BY <2>2, <2>7, <2>8 DEF TailInv, PendingIsFile, Running
  <2> QED
    BY <2>2, <2>9
<1>3. CASE Start
  <2>1. PICK fails \in FailsOf({"load"}) : CreateWorker(fails)
    BY <1>3 DEF Start
  <2>2. "load" \notin fails
    BY DEF OneTail, FailsOf
  <2>3. /\ wrkr'.pending = IF conf.statefiledir THEN disk ELSE NoState
        /\ ~wrkr'.initialized /\ conf' = conf /\ disk' = disk
    BY <2>1, <2>2 DEF CreateWorker
  <2>4. wrkr'.pending = disk
    BY <2>3 DEF TailInv
  <2> QED
    BY <2>3, <2>4 DEF TailInv, PendingIsFile, Running
<1>4. CASE Stop
  BY <1>4, FreeTail DEF Stop
<1>5. CASE Store \/ Kill \/ UNCHANGED vars
  BY <1>5 DEF Store, HandOver, Kill, Crash, vars, TailInv, PendingIsFile, Running
<1>6. CASE Rewrite
  <2>1. /\ conf \in Confs /\ conf' \in Confs
        /\ wrkr = NoWorker /\ wrkr' = wrkr /\ disk' = disk
    BY <1>6 DEF Rewrite, Reconfigure, TypeOK, SignerTypeOK
  <2>2. /\ conf'.key = conf.key /\ conf'.alg = conf.alg
        /\ conf'.statefiledir = conf.statefiledir
    BY <2>1 DEF OneTail
  <2> QED
    BY <2>1, <2>2 DEF TailInv, PendingIsFile, Running
<1> QED
  BY <1>1, <1>2, <1>3, <1>4, <1>5, <1>6 DEF Next

(* A saved tail is in one place, through stops, crashes and failing calls.   *)
THEOREM TailInvariant ==
    ASSUME OneTail
    PROVE  Spec => [](TypeOK /\ TailInv)
<1>1. Init => TailInv
  BY DEF Init, SignerInit, TailInv, PendingIsFile, Running
<1>2. TypeOK /\ TailInv /\ [Next]_vars => TailInv'
  BY TailStep
<1> QED
  BY <1>1, <1>2, TypeCorrect, PTL DEF Spec

(* TailHandedOver: the file goes when the SIG line that covers its tail is   *)
(* handed on, and not before, unless a call of process_final or the last     *)
(* allocation of doAction fails (54-67, 683).                                *)
THEOREM TailIsHandedOver ==
    ASSUME OneTail, Faults \cap {"final", "newsd"} = {}
    PROVE  Spec => TailHandedOver
<1>1. TypeOK /\ TailInv /\ [Next]_vars =>
        [disk # NoState /\ disk' # disk => SignsSavedTail(disk, inhand')]_vars
  BY TailStep
<1> QED
  BY <1>1, TailInvariant, PTL DEF Spec, TailHandedOver
==============================================================================

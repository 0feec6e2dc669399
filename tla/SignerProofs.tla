---------------------------- MODULE SignerProofs -----------------------------
(* The signer's handlers: what each leaves in the worker, and that it has    *)
(* its type.                                                                 *)
EXTENDS Signer, ChainProofs

(* A worker whose mmhashchainsigs_init has succeeded *)
LiveWorker(w) ==
    w \in Worker /\ w.initialized /\ w.chain \in Chain /\ w.fp \in Keys

USE AbsentAssumption, AbsentStateAssumption

(* mmhashchainsigs_init starts a chain under the configured key. *)
LEMMA InitWorkerType ==
    ASSUME NEW w \in Worker, conf \in Conf
    PROVE  LET r == InitWorker(w)
           IN  /\ LiveWorker(r) /\ r.is_first /\ r.pending = w.pending
               /\ r.chain = HashchainInit(conf.alg) /\ r.fp = conf.key
               /\ r.sig_seq_from = 1
<1> DEFINE c == HashchainInit(conf.alg)
           k == conf.key
           r == [w EXCEPT !.chain = c, !.fp = k, !.sig_seq_from = 1,
                          !.initialized = TRUE, !.is_first = TRUE]
<1>1. c \in Chain /\ k \in Keys
  BY HashchainInitType DEF Conf
<1>2. InitWorker(w) = r
  BY DEF InitWorker
<1> HIDE DEF c, k
<1>3. /\ r \in Worker /\ r.chain = c /\ r.fp = k /\ r.sig_seq_from = 1
      /\ r.initialized /\ r.is_first /\ r.pending = w.pending
  BY <1>1 DEF Worker
<1> QED
  BY <1>1, <1>2, <1>3 DEF LiveWorker, c, k

(* The worker ProcessMsg goes on with *)
LEMMA ReadyType ==
    ASSUME SignerTypeOK, wrkr # NoWorker, Confs \subseteq Conf
    PROVE  /\ LiveWorker(Ready) /\ Ready.pending = wrkr.pending
           /\ IF wrkr.initialized THEN Ready = wrkr
              ELSE /\ Ready.is_first /\ Ready.fp = conf.key
                   /\ Ready.chain = HashchainInit(conf.alg)
                   /\ Ready.sig_seq_from = 1
<1>1. wrkr \in Worker /\ conf \in Conf
  BY DEF SignerTypeOK
<1>2. wrkr.initialized => LiveWorker(wrkr)
  BY <1>1 DEF SignerTypeOK, LiveWorker, Worker
<1> QED
  BY <1>1, <1>2, InitWorkerType DEF Ready

(* Dropping the pending state changes nothing else. *)
LEMMA DropPendingType ==
    ASSUME NEW w, LiveWorker(w)
    PROVE  LET r == [w EXCEPT !.pending = NoState]
           IN  /\ LiveWorker(r) /\ r.pending = NoState
               /\ r.is_first = w.is_first /\ r.chain = w.chain
               /\ r.fp = w.fp /\ r.sig_seq_from = w.sig_seq_from
BY DEF LiveWorker, Worker

(* process_final: the SIG element covers the saved range plus this entry,    *)
(* and the worker is left at the start of a chain.                           *)
LEMMA ProcessFinalType ==
    ASSUME NEW w, LiveWorker(w), NEW st \in SavedState, NEW m \in Msgs,
           NEW fails, conf \in Conf
    PROVE  LET r == ProcessFinal(w, st, m, fails)
               h == HashChainStep(st.chain_hash, st.seq, m)
               accepts == /\ st.fp = w.fp /\ st.alg = conf.alg
                          /\ "final" \notin fails
           IN  /\ LiveWorker(r.w) /\ r.w.pending = w.pending
               /\ r.w.fp = w.fp /\ r.sd \in SD \cup {NoSD}
               /\ ~accepts => /\ r.sd = NoSD /\ r.w.is_first = w.is_first
                              /\ r.w.sig_seq_from = w.sig_seq_from
                              /\ r.w.chain \in {w.chain, HashchainInit(conf.alg)}
               /\ accepts => /\ r.w.chain = HashchainInit(conf.alg)
                             /\ r.w.is_first /\ r.w.sig_seq_from = 1
                             /\ h \in Digest /\ h.alg = st.chain_hash.alg
                             /\ r.sd \in SD
                             /\ r.sd = SDSig(st.seq, h, st.sig_seq_from, st.seq,
                                             HcsSign(w.fp, h))
<1> DEFINE i == HashchainInit(conf.alg)
           j == HashchainInit(st.alg)
           restored == [j EXCEPT !.current = st.chain_hash, !.seq = st.seq]
           c == HashchainUpdate(restored, m)
           h == HashChainStep(st.chain_hash, st.seq, m)
           fresh == [w EXCEPT !.chain = i]
           sd == SDSig(c.seq - 1, c.current, st.sig_seq_from, c.seq - 1,
                       HcsSign(w.fp, c.current))
           good == [fresh EXCEPT !.is_first = TRUE, !.sig_seq_from = 1]
<1>1. i \in Chain /\ j \in Chain
  BY HashchainInitType DEF Conf, SavedState
<1>2. /\ st.chain_hash \in Digest /\ st.seq \in Nat /\ st.sig_seq_from \in Nat
      /\ m \in Payload
  BY DEF SavedState, Payload
<1>3. h \in Digest /\ h.alg = st.chain_hash.alg
  BY <1>2, HashChainStepType
<1>4. ProcessFinal(w, st, m, fails) =
        CASE st.fp # w.fp \/ st.alg # conf.alg -> [w |-> w, sd |-> NoSD]
          [] st.fp = w.fp /\ st.alg = conf.alg /\ "final" \in fails ->
               [w |-> fresh, sd |-> NoSD]
          [] OTHER -> [w |-> good, sd |-> sd]
  BY DEF ProcessFinal
<1> HIDE DEF i, j
<1>5. restored \in Chain /\ restored.current = st.chain_hash /\ restored.seq = st.seq
  BY <1>1, <1>2 DEF Chain
<1> HIDE DEF restored
<1>6. c.seq - 1 = st.seq /\ c.current = h
  BY <1>2, <1>5, HashchainUpdateType
<1>7. sd = SDSig(st.seq, h, st.sig_seq_from, st.seq, HcsSign(w.fp, h)) /\ sd \in SD
  BY <1>2, <1>3, <1>6, SDSigType DEF LiveWorker
<1>8. /\ LiveWorker(fresh) /\ fresh.pending = w.pending /\ fresh.fp = w.fp
      /\ fresh.is_first = w.is_first /\ fresh.sig_seq_from = w.sig_seq_from
      /\ fresh.chain = i
  BY <1>1 DEF LiveWorker, Worker
<1> HIDE DEF fresh, h, c
<1>9. /\ LiveWorker(good) /\ good.pending = w.pending /\ good.fp = w.fp
      /\ good.is_first /\ good.sig_seq_from = 1 /\ good.chain = i
  BY <1>8 DEF LiveWorker, Worker
<1> HIDE DEF good, sd
<1>10. CASE st.fp # w.fp \/ st.alg # conf.alg
  BY <1>4, <1>10
<1>11. CASE st.fp = w.fp /\ st.alg = conf.alg /\ "final" \in fails
  BY <1>4, <1>8, <1>11 DEF i
<1>12. CASE st.fp = w.fp /\ st.alg = conf.alg /\ "final" \notin fails
  BY <1>3, <1>4, <1>7, <1>9, <1>12 DEF i, h
<1> QED
  BY <1>10, <1>11, <1>12

(* process_msg on a running chain: the four ways it ends *)
LEMMA NextEntryType ==
    ASSUME NEW w, LiveWorker(w), NEW m \in Msgs, NEW fails, SignerAssumption
    PROVE  LET r == NextEntry(w, m, fails)
               h == HashChainStep(w.chain.current, w.chain.seq, m)
               n == w.chain.seq
           IN  /\ LiveWorker(r.w) /\ r.w.pending = w.pending
               /\ r.w.fp = w.fp /\ r.sd \in SD \cup {NoSD}
               /\ h \in Digest /\ h.alg = w.chain.current.alg
               /\ r.w.chain.alg = w.chain.alg /\ r.w.chain.current = h
               /\ r.w.chain.seq = n + 1 /\ ~r.w.is_first
               /\ w.is_first =>
                     /\ r.sd \in SD /\ r.sd = SDInit(n, h, w.fp)
                     /\ r.w.chain.msg_count = w.chain.msg_count + 1
                     /\ r.w.sig_seq_from = w.sig_seq_from
               /\ SigIsDue(w) /\ "sign" \notin fails =>
                     /\ r.sd \in SD
                     /\ r.sd = SDSig(n, h, w.sig_seq_from, n, HcsSign(w.fp, h))
                     /\ r.w.chain.msg_count = 0 /\ r.w.sig_seq_from = n + 1
               /\ ~w.is_first /\ ~SigIsDue(w) =>
                     /\ r.sd \in SD /\ r.sd = SDMsg(n, h)
                     /\ r.w.chain.msg_count = w.chain.msg_count + 1
                     /\ r.w.sig_seq_from = w.sig_seq_from
<1> DEFINE c == HashchainUpdate(w.chain, m)
           d == HashchainResetCount(c)
           h == HashChainStep(w.chain.current, w.chain.seq, m)
           n == w.chain.seq
           first == [w EXCEPT !.chain = c, !.is_first = FALSE]
           longer == [w EXCEPT !.chain = c]
           k == (c.seq - 1) + 1
           signed == [w EXCEPT !.chain = d, !.sig_seq_from = k]
<1>1. /\ w \in Worker /\ w.chain \in Chain /\ w.fp \in Keys /\ m \in Payload
      /\ n \in Nat /\ w.chain.current \in Digest /\ w.sig_seq_from \in Nat
  BY DEF LiveWorker, Worker, Chain, Payload
<1>2. h \in Digest /\ h.alg = w.chain.current.alg
  BY <1>1, HashChainStepType
<1>3. /\ c \in Chain /\ c.alg = w.chain.alg /\ c.current = h
      /\ c.seq = n + 1 /\ c.msg_count = w.chain.msg_count + 1
      /\ c.seq - 1 = n /\ k = n + 1
  BY <1>1, HashchainUpdateType
<1>4. NextEntry(w, m, fails) =
        CASE w.is_first -> [w |-> first, sd |-> SDInit(c.seq - 1, c.current, w.fp)]
          [] SigIsDue(w) /\ "sign" \in fails -> [w |-> longer, sd |-> NoSD]
          [] SigIsDue(w) /\ "sign" \notin fails ->
               [w |-> signed,
                sd |-> SDSig(c.seq - 1, c.current, w.sig_seq_from, c.seq - 1,
                             HcsSign(w.fp, c.current))]
          [] OTHER -> [w |-> longer, sd |-> SDMsg(c.seq - 1, c.current)]
  BY DEF NextEntry
<1> HIDE DEF c
<1>5. /\ d \in Chain /\ d.alg = w.chain.alg /\ d.current = h
      /\ d.seq = n + 1 /\ d.msg_count = 0
  BY <1>3, HashchainResetCountType
<1>6. k \in Nat
  BY <1>1, <1>3
<1> HIDE DEF d, k, h
<1>7. /\ LiveWorker(first) /\ first.pending = w.pending /\ first.fp = w.fp
      /\ first.chain = c /\ ~first.is_first /\ first.sig_seq_from = w.sig_seq_from
  BY <1>1, <1>3 DEF LiveWorker, Worker
<1>8. /\ LiveWorker(longer) /\ longer.pending = w.pending /\ longer.fp = w.fp
      /\ longer.chain = c /\ longer.is_first = w.is_first
      /\ longer.sig_seq_from = w.sig_seq_from
  BY <1>1, <1>3 DEF LiveWorker, Worker
<1>9. /\ LiveWorker(signed) /\ signed.pending = w.pending /\ signed.fp = w.fp
      /\ signed.chain = d /\ signed.is_first = w.is_first
      /\ signed.sig_seq_from = k
  BY <1>1, <1>5, <1>6 DEF LiveWorker, Worker
<1>10. /\ SDInit(n, h, w.fp) \in SD /\ SDMsg(n, h) \in SD
       /\ SDSig(n, h, w.sig_seq_from, n, HcsSign(w.fp, h)) \in SD
  BY <1>1, <1>2, SDInitType, SDMsgType, SDSigType
<1> HIDE DEF first, longer, signed
<1>11. SigIsDue(w) => ~w.is_first
  BY DEF SigIsDue
<1>12. CASE w.is_first
  BY <1>2, <1>3, <1>4, <1>7, <1>10, <1>11, <1>12 DEF h
<1>13. CASE SigIsDue(w) /\ "sign" \in fails
  BY <1>2, <1>3, <1>4, <1>8, <1>11, <1>13 DEF h
<1>14. CASE SigIsDue(w) /\ "sign" \notin fails
  BY <1>2, <1>3, <1>4, <1>5, <1>9, <1>10, <1>11, <1>14 DEF h
<1>15. CASE ~w.is_first /\ ~SigIsDue(w)
  BY <1>2, <1>3, <1>4, <1>8, <1>10, <1>15 DEF h
<1> QED
  BY <1>11, <1>12, <1>13, <1>14, <1>15

(* The line around an element *)
LEMMA LineOfType ==
    ASSUME NEW sd \in SD, NEW m \in Payload, NEW fails, conf \in Conf
    PROVE  LET l == LineOf(sd, m, fails)
           IN  l \in Line /\ l.sd = sd /\ l.msg = m
BY DEF LineOf, Line, Conf

(* Whatever happens to it, the message leaves doAction as a line or not at   *)
(* all.                                                                      *)
LEMMA DeliverType ==
    ASSUME NEW sd \in SD, NEW m \in Msgs, NEW fails, conf \in Conf,
           Deliver(sd, m, fails)
    PROVE  inhand' \in Line \cup {NoLine}
<1>1. m \in Payload
  BY DEF Payload
<1> QED
  BY <1>1, LineOfType DEF Deliver, PassUnsigned, Line

-----------------------------------------------------------------------------
(* What the worker holds once a live worker is in it *)
LEMMA LiveTyped ==
    ASSUME SignerTypeOK, wrkr # NoWorker
    PROVE  /\ conf \in Conf /\ wrkr \in Worker
           /\ wrkr.initialized => LiveWorker(wrkr)
           /\ wrkr.pending \in SavedState \cup {NoState}
BY SignerAssumption DEF SignerTypeOK, LiveWorker, Worker

(* The chain the message goes to is a live worker's, with no pending state.  *)
LEMMA CurrentType ==
    ASSUME SignerTypeOK, wrkr # NoWorker, NEW m \in Msgs, NEW fails
    PROVE  /\ LiveWorker(Current(m, fails))
           /\ Current(m, fails).pending = NoState
<1> DEFINE w == [Ready EXCEPT !.pending = NoState]
<1>1. LiveWorker(Ready) /\ Ready.pending = wrkr.pending
  BY ReadyType, SignerAssumption
<1>2. LiveWorker(w) /\ w.pending = NoState
  BY <1>1, DropPendingType
<1>3. Current(m, fails) = IF wrkr.pending = NoState THEN Ready
                          ELSE ProcessFinal(w, wrkr.pending, m, fails).w
  BY DEF Current
<1>4. conf \in Conf /\ wrkr.pending \in SavedState \cup {NoState}
  BY LiveTyped
<1> HIDE DEF w
<1>5. wrkr.pending # NoState =>
        /\ LiveWorker(ProcessFinal(w, wrkr.pending, m, fails).w)
        /\ ProcessFinal(w, wrkr.pending, m, fails).w.pending = NoState
  BY <1>2, <1>4, ProcessFinalType
<1> QED
  BY <1>1, <1>3, <1>5

(* doAction keeps the signer's state well typed on each of its paths. *)
LEMMA DoActionType ==
    ASSUME SignerTypeOK, NEW m \in Msgs, NEW fails, DoAction(m, fails)
    PROVE  SignerTypeOK'
<1> DEFINE Typed(w) == w \in Worker /\ (w.initialized => w.chain # NoChain /\ w.fp # NoKey)
<1>1. wrkr # NoWorker
  BY DEF DoAction, InAction
<1>2. /\ conf \in Confs /\ conf \in Conf /\ wrkr \in Worker
      /\ disk \in SavedState \cup {NoState} /\ inhand \in Line \cup {NoLine}
      /\ wrkr.pending \in SavedState \cup {NoState}
  BY <1>1, LiveTyped DEF SignerTypeOK
<1>3. ASSUME NEW w, LiveWorker(w) PROVE Typed(w)
  BY <1>3 DEF LiveWorker
<1>4. ASSUME DeleteState(fails) PROVE disk' \in SavedState \cup {NoState}
  BY <1>2, <1>4 DEF DeleteState
<1>5. CASE PayloadFails(m, fails)
  <2>1. inhand' \in Line \cup {NoLine}
    BY <1>5 DEF PayloadFails, PassUnsigned, Line, Payload
  <2> QED
    BY <1>5, <2>1 DEF PayloadFails, SignerTypeOK
<1>6. CASE InitFails(fails)
  BY <1>6 DEF InitFails, signerVars, SignerTypeOK
<1>7. CASE FinishOldChain(m, fails)
  <2> DEFINE w == [Ready EXCEPT !.pending = NoState]
             final == ProcessFinal(w, wrkr.pending, m, fails)
  <2>1. /\ wrkr.pending # NoState /\ final.sd # NoSD /\ wrkr' = final.w
        /\ DeleteState(fails) /\ Deliver(final.sd, m, fails) /\ conf' = conf
    BY <1>7 DEF FinishOldChain
  <2>2. LiveWorker(w)
    BY <1>1, ReadyType, DropPendingType, SignerAssumption
  <2> HIDE DEF w
  <2>3. LiveWorker(final.w) /\ final.sd \in SD
    BY <1>2, <2>1, <2>2, ProcessFinalType
  <2> HIDE DEF final
  <2>4. inhand' \in Line \cup {NoLine}
    BY <1>2, <2>1, <2>3, DeliverType
  <2> QED
    BY <1>2, <1>3, <1>4, <2>1, <2>3, <2>4 DEF SignerTypeOK
<1>8. ASSUME GoesToCurrent(m, fails)
      PROVE  conf' = conf /\ disk' \in SavedState \cup {NoState}
  BY <1>2, <1>4, <1>8 DEF GoesToCurrent
<1>9. CASE HashFails(m, fails)
  BY <1>1, <1>2, <1>3, <1>8, <1>9, CurrentType DEF HashFails, SignerTypeOK
<1>10. CASE ExtendChain(m, fails)
  <2> DEFINE w == Current(m, fails)
             entry == NextEntry(w, m, fails)
  <2>1. /\ GoesToCurrent(m, fails) /\ wrkr' = entry.w
        /\ IF entry.sd = NoSD THEN inhand' = inhand
                              ELSE Deliver(entry.sd, m, fails)
    BY <1>10 DEF ExtendChain
  <2>2. LiveWorker(w)
    BY <1>1, CurrentType
  <2> HIDE DEF w
  <2>3. LiveWorker(entry.w) /\ entry.sd \in SD \cup {NoSD}
    BY <2>2, NextEntryType, SignerAssumption
  <2> HIDE DEF entry
  <2>4. inhand' \in Line \cup {NoLine}
    BY <1>2, <2>1, <2>3, DeliverType
  <2> QED
    BY <1>2, <1>3, <1>8, <2>1, <2>3, <2>4 DEF SignerTypeOK
<1> QED
  BY <1>5, <1>6, <1>7, <1>9, <1>10 DEF DoAction

(* So do final_sign and the steps around the worker. *)
LEMMA FinalSignType ==
    ASSUME SignerTypeOK, NEW fails, FinalSign(fails)
    PROVE  SignerTypeOK'
<1> DEFINE c == HashchainUpdate(wrkr.chain, EmptyMsg)
           d == HashchainResetCount(c)
           k == (c.seq - 1) + 1
           sd == SDSig(c.seq - 1, c.current, wrkr.sig_seq_from, c.seq - 1,
                       HcsSign(wrkr.fp, c.current))
           line == LineOf(sd, EmptyMsg, fails)
           longer == [wrkr EXCEPT !.chain = c]
           signed == [wrkr EXCEPT !.chain = d, !.sig_seq_from = k]
<1>1. /\ wrkr # NoWorker /\ wrkr.initialized /\ conf' = conf /\ disk' = disk
      /\ \/ wrkr' = longer /\ inhand' = inhand
         \/ wrkr' = signed /\ inhand' = line
  BY DEF FinalSign, InAction, HasUnsignedTail
<1>2. /\ LiveWorker(wrkr) /\ conf \in Conf /\ wrkr.chain \in Chain
      /\ EmptyMsg \in Payload
  BY <1>1, LiveTyped DEF LiveWorker, Payload
<1>3. c \in Chain /\ d \in Chain
  BY <1>2, HashchainUpdateType, HashchainResetCountType
<1> HIDE DEF c
<1>4. c.seq - 1 \in Nat /\ k \in Nat
  <2>1. c.seq = wrkr.chain.seq + 1 /\ wrkr.chain.seq \in Nat
    BY <1>2, HashchainUpdateType DEF c, Chain
  <2> QED
    BY <2>1
<1>5. sd \in SD
  BY <1>2, <1>3, <1>4, SDSigType DEF LiveWorker, Worker, Chain
<1> HIDE DEF sd
<1>6. line \in Line
  BY <1>2, <1>5, LineOfType
<1> HIDE DEF d, k, line
<1>7. LiveWorker(longer) /\ LiveWorker(signed)
  BY <1>2, <1>3, <1>4 DEF LiveWorker, Worker
<1> HIDE DEF longer, signed
<1> QED
  BY <1>1, <1>6, <1>7 DEF SignerTypeOK, LiveWorker

(* Creating, freeing, killing and reconfiguring keep the signer's type. *)
LEMMA WorkerStepType ==
    ASSUME SignerTypeOK, NEW fails,
           \/ CreateWorker(fails) \/ FreeWorker(fails) \/ Crash
           \/ Reconfigure \/ HandOver
    PROVE  SignerTypeOK'
<1>1. CASE CreateWorker(fails)
  BY <1>1 DEF CreateWorker, SignerTypeOK, Worker
<1>2. CASE FreeWorker(fails)
  <2>1. HasUnsignedTail(wrkr) => StateOf(wrkr) \in SavedState
    BY <1>2, LiveTyped
    DEF FreeWorker, HasUnsignedTail, StateOf, SavedState, LiveWorker, Worker, Chain
  <2> QED
    BY <1>2, <2>1 DEF FreeWorker, SignerTypeOK
<1>3. CASE Crash
  BY <1>3 DEF Crash, SignerTypeOK
<1>4. CASE Reconfigure
  BY <1>4 DEF Reconfigure, SignerTypeOK
<1>5. CASE HandOver
  BY <1>5 DEF HandOver, SignerTypeOK
<1> QED
  BY <1>1, <1>2, <1>3, <1>4, <1>5
=============================================================================

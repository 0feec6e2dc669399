--------------------------- MODULE PipelineProofs ----------------------------
(* Theorems about the signer, its log and the verifier, for every number of  *)
(* messages, every sign interval and every sequence of restarts.             *)
EXTENDS PipelineInv, SignerProofs, VerifierProofs

(***************************************************************************)
(* Types                                                                    *)
(***************************************************************************)

(* One step keeps the types: the signer's by its handlers, the verifier's    *)
(* because only Store moves it.                                              *)
LEMMA StepType ==
    ASSUME TypeOK, [Next]_vars
    PROVE  TypeOK'
<1>1. CASE UNCHANGED vars
  BY <1>1 DEF vars, TypeOK, SignerTypeOK
<1>2. ASSUME SignerTypeOK', UNCHANGED <<log, v>>
      PROVE  TypeOK'
  BY <1>2 DEF TypeOK
<1>3. ASSUME NEW m \in Msgs, Sign(m)
      PROVE  TypeOK'
  <2>1. PICK fails \in ActionFails : DoAction(m, fails)
    BY <1>3 DEF Sign
  <2> QED
    BY <1>2, <1>3, <2>1, DoActionType DEF Sign, TypeOK
<1>4. CASE SignTail
  BY <1>2, <1>4, FinalSignType DEF SignTail, TypeOK
<1>5. CASE Store
  <2>1. SignerTypeOK'
    BY <1>5, WorkerStepType DEF Store, TypeOK
  <2>2. inhand \in Line
    BY <1>5 DEF Store, HandOver, TypeOK, SignerTypeOK
  <2>3. log' \in Seq(Line)
    BY <1>5, <2>2, AppendProperties DEF Store, TypeOK
  <2>4. VCtxOK(VerifierProcessLine(v, inhand))
    BY <2>2, VerifierProcessLineType DEF TypeOK
  <2>5. v' = VerifierProcessLine(v, inhand)
    BY <1>5 DEF Store
  <2>6. VCtxOK(v)'
    BY <2>4, <2>5 DEF VCtxOK
  <2> QED
    BY <2>1, <2>3, <2>6 DEF TypeOK
<1>6. CASE Start \/ Stop \/ Kill \/ Rewrite
  BY <1>2, <1>6, WorkerStepType DEF Start, Stop, Kill, Rewrite, TypeOK
<1> QED
  BY <1>1, <1>3, <1>4, <1>5, <1>6 DEF Next

(* The initial state is well typed. *)
LEMMA InitType == Init => TypeOK
<1> SUFFICES ASSUME Init PROVE TypeOK
  OBVIOUS
<1>1. SignerTypeOK
  BY SignerAssumption DEF Init, SignerInit, SignerTypeOK
<1>2. VCtxOK(v)
  BY VerifierInitType, PipelineAssumption DEF Init
<1>3. log \in Seq(Line)
  BY DEF Init
<1> QED
  BY <1>1, <1>2, <1>3 DEF TypeOK

(* Every variable keeps its type, whichever calls fail: no handler and no    *)
(* stored line leaves the worker, the state file or the verifier undefined.  *)
THEOREM TypeCorrect == Spec => []TypeOK
<1>1. Init => TypeOK
  BY InitType
<1>2. TypeOK /\ [Next]_vars => TypeOK'
  BY StepType
<1> QED
  BY <1>1, <1>2, PTL DEF Spec

(***************************************************************************)
(* The counters of the worker                                               *)
(***************************************************************************)

(* CountersAgree is inductive together with the fact that a worker only      *)
(* becomes initialised in the call that consumes its pending state.          *)
CountersInv ==
    Running => /\ wrkr.pending = NoState
               /\ wrkr.sig_seq_from + wrkr.chain.msg_count = wrkr.chain.seq

(* The chain an ordinary message goes to has agreeing counters. *)
LEMMA CurrentCounters ==
    ASSUME TypeOK, CountersInv, wrkr # NoWorker, NEW m \in Msgs, NEW fails
    PROVE  LET w == Current(m, fails)
           IN  w.sig_seq_from + w.chain.msg_count = w.chain.seq
<1> DEFINE w == [Ready EXCEPT !.pending = NoState]
           i == HashchainInit(conf.alg)
           r == ProcessFinal(w, wrkr.pending, m, fails).w
<1>1. /\ SignerTypeOK /\ conf \in Conf
      /\ wrkr.pending \in SavedState \cup {NoState}
  BY LiveTyped DEF TypeOK
<1>2. i.msg_count = 0 /\ i.seq = 1
  BY DEF HashchainInit
<1>3. /\ LiveWorker(Ready)
      /\ IF wrkr.initialized THEN Ready = wrkr
         ELSE Ready.chain = i /\ Ready.sig_seq_from = 1
  BY <1>1, ReadyType, SignerAssumption
<1>4. LiveWorker(w) /\ w.chain = Ready.chain /\ w.sig_seq_from = Ready.sig_seq_from
  BY <1>3, DropPendingType
<1> HIDE DEF w, i
<1>5. Current(m, fails) = IF wrkr.pending = NoState THEN Ready ELSE r
  BY DEF Current, w
<1>6. CASE wrkr.pending = NoState
  BY <1>2, <1>3, <1>5, <1>6 DEF CountersInv, Running
<1>7. CASE wrkr.pending # NoState
  <2>1. ~wrkr.initialized
    BY <1>7 DEF CountersInv, Running
  <2>2. r.sig_seq_from = 1 /\ r.chain = i
    BY <1>1, <1>3, <1>4, <1>7, <2>1, ProcessFinalType DEF i
  <2> QED
    BY <1>2, <1>5, <1>7, <2>2
<1> QED
  BY <1>6, <1>7

(* Every step keeps the counters of the worker in agreement. *)
LEMMA CountersStep ==
    ASSUME TypeOK, CountersInv, [Next]_vars
    PROVE  CountersInv'
<1> DEFINE Agree(w) == /\ w.pending = NoState
                       /\ w.sig_seq_from + w.chain.msg_count = w.chain.seq
<1>1. CASE UNCHANGED wrkr
  BY <1>1 DEF CountersInv, Running
<1>2. ASSUME NEW m \in Msgs, NEW fails, DoAction(m, fails)
      PROVE  CountersInv'
  <2>1. /\ wrkr # NoWorker /\ SignerTypeOK /\ conf \in Conf
        /\ wrkr.pending \in SavedState \cup {NoState}
    BY <1>2, LiveTyped DEF DoAction, InAction, TypeOK
  <2>2. CASE PayloadFails(m, fails) \/ InitFails(fails)
    BY <1>1, <2>2 DEF PayloadFails, InitFails, signerVars
  <2>3. CASE FinishOldChain(m, fails)
    <3> DEFINE w == [Ready EXCEPT !.pending = NoState]
               final == ProcessFinal(w, wrkr.pending, m, fails)
    <3>1. /\ wrkr.pending # NoState /\ final.sd # NoSD /\ wrkr' = final.w
      BY <2>3 DEF FinishOldChain
    <3>2. LiveWorker(w) /\ w.pending = NoState
      BY <2>1, ReadyType, DropPendingType, SignerAssumption
    <3> HIDE DEF w
    <3>3. /\ final.w.chain = HashchainInit(conf.alg) /\ final.w.sig_seq_from = 1
          /\ final.w.pending = NoState
      BY <2>1, <3>1, <3>2, ProcessFinalType
    <3> QED
      BY <3>1, <3>3 DEF CountersInv, Running, HashchainInit
  <2>4. CASE HashFails(m, fails)
    BY <2>1, <2>4, CurrentCounters, CurrentType DEF HashFails, CountersInv, Running
  <2>5. CASE ExtendChain(m, fails)
    <3> DEFINE w == Current(m, fails)
               r == NextEntry(w, m, fails)
    <3>1. LiveWorker(w) /\ w.pending = NoState /\ wrkr' = r.w
      BY <2>1, <2>5, CurrentType DEF ExtendChain
    <3>2. w.sig_seq_from + w.chain.msg_count = w.chain.seq
      BY <2>1, CurrentCounters
    <3>3. w.sig_seq_from \in Nat /\ w.chain.msg_count \in Nat /\ w.chain.seq \in Nat
      BY <3>1 DEF LiveWorker, Worker, Chain
    <3> HIDE DEF w
    <3>4. CASE SigIsDue(w) /\ "sign" \in fails
      <4>1. /\ r.w = [w EXCEPT !.chain = HashchainUpdate(w.chain, m)]
        BY <3>4 DEF NextEntry, SigIsDue
      <4>2. /\ r.w.pending = NoState /\ r.w.sig_seq_from = w.sig_seq_from
            /\ r.w.chain = HashchainUpdate(w.chain, m)
        BY <3>1, <4>1 DEF LiveWorker, Worker
      <4>3. /\ r.w.chain.seq = w.chain.seq + 1
            /\ r.w.chain.msg_count = w.chain.msg_count + 1
        BY <3>1, <4>2, HashchainUpdateType DEF LiveWorker, Payload
      <4> QED
        BY <3>1, <3>2, <3>3, <4>2, <4>3 DEF CountersInv, Running
    <3>5. CASE ~(SigIsDue(w) /\ "sign" \in fails)
      <4>1. /\ r.w.pending = NoState /\ r.w.chain.seq = w.chain.seq + 1
            /\ \/ /\ r.w.chain.msg_count = w.chain.msg_count + 1
                  /\ r.w.sig_seq_from = w.sig_seq_from
               \/ /\ r.w.chain.msg_count = 0
                  /\ r.w.sig_seq_from = w.chain.seq + 1
        BY <3>1, <3>5, NextEntryType, SignerAssumption DEF SigIsDue
      <4> QED
        BY <3>1, <3>2, <3>3, <4>1 DEF CountersInv, Running
    <3> QED
      BY <3>4, <3>5
  <2> QED
    BY <1>2, <2>2, <2>3, <2>4, <2>5 DEF DoAction
<1>3. ASSUME NEW fails, FinalSign(fails)
      PROVE  CountersInv'
  <2> DEFINE c == HashchainUpdate(wrkr.chain, EmptyMsg)
             d == HashchainResetCount(c)
             k == (c.seq - 1) + 1
             longer == [wrkr EXCEPT !.chain = c]
             signed == [wrkr EXCEPT !.chain = d, !.sig_seq_from = k]
  <2>1. /\ Running /\ SignerTypeOK
        /\ wrkr' = longer \/ wrkr' = signed
    BY <1>3 DEF FinalSign, InAction, HasUnsignedTail, Running, TypeOK
  <2>2. LiveWorker(wrkr) /\ EmptyMsg \in Payload
    BY <2>1, LiveTyped DEF Running, Payload
  <2>3. /\ c \in Chain /\ c.seq = wrkr.chain.seq + 1
        /\ c.msg_count = wrkr.chain.msg_count + 1
        /\ d.seq = c.seq /\ d.msg_count = 0
    BY <2>2, HashchainUpdateType, HashchainResetCountType DEF LiveWorker
  <2>4. /\ wrkr.sig_seq_from \in Nat /\ wrkr.chain.msg_count \in Nat
        /\ wrkr.chain.seq \in Nat
    BY <2>2 DEF LiveWorker, Worker, Chain
  <2>5. k = c.seq
    BY <2>3, <2>4
  <2> HIDE DEF c, d, k
  <2>6. /\ longer.pending = wrkr.pending /\ longer.chain = c
        /\ longer.sig_seq_from = wrkr.sig_seq_from
        /\ signed.pending = wrkr.pending /\ signed.chain = d
        /\ signed.sig_seq_from = k
    BY <2>2 DEF LiveWorker, Worker
  <2> HIDE DEF longer, signed
  <2> QED
    BY <2>1, <2>3, <2>4, <2>5, <2>6 DEF CountersInv, Running
<1>4. ASSUME NEW fails, CreateWorker(fails)
      PROVE  CountersInv'
  BY <1>4 DEF CreateWorker, CountersInv, Running
<1>5. CASE wrkr' = NoWorker
  BY <1>5 DEF CountersInv, Running
<1> QED
  BY <1>1, <1>2, <1>3, <1>4, <1>5
  DEF Next, vars, Sign, SignTail, Store, HandOver, Start, Stop, FreeWorker,
      Kill, Crash, Rewrite, Reconfigure

(* sig_seq_from and msg_count always account for exactly the entries of the  *)
(* chain, through restored chains, refused states and failed signatures.     *)
THEOREM CountersCorrect == Spec => []CountersAgree
<1>1. Init => TypeOK /\ CountersInv
  BY InitType DEF Init, SignerInit, CountersInv, Running
<1>2. TypeOK /\ CountersInv /\ [Next]_vars => TypeOK' /\ CountersInv'
  BY StepType, CountersStep
<1>3. CountersInv => CountersAgree
  BY DEF CountersInv, Running, CountersAgree
<1> QED
  BY <1>1, <1>2, <1>3, PTL DEF Spec
=============================================================================

----------------------------- MODULE ChainProofs -----------------------------
(* Lemmas about the hash chain and the record constructors. *)
EXTENDS SDRecord, SequenceTheorems, TLAPS

(* The initial value of a chain is a digest of its algorithm. *)
LEMMA ChainInitHashType ==
    ASSUME NEW alg \in Algs
    PROVE  ChainInitHash(alg) \in Digest /\ ChainInitHash(alg).alg = alg
BY DEF ChainInitHash, Digest

(* One step of the chain yields a digest of the same algorithm. *)
LEMMA HashChainStepType ==
    ASSUME NEW prev \in Digest, NEW seq \in Nat, NEW msg \in Payload
    PROVE  /\ HashChainStep(prev, seq, msg) \in Digest
           /\ HashChainStep(prev, seq, msg).alg = prev.alg
<1>1. [seq |-> seq, msg |-> msg] \in Link
  BY DEF Link
<1>2. Append(prev.links, [seq |-> seq, msg |-> msg]) \in Seq(Link)
  BY <1>1, AppendProperties DEF Digest
<1> QED
  BY <1>2 DEF Digest, HashChainStep

(* Nothing but the same bytes in the same order gives the same digest.       *)
LEMMA HashChainStepInjective ==
    ASSUME NEW p \in Digest, NEW q \in Digest, NEW s \in Nat, NEW t \in Nat,
           NEW m \in Payload, NEW n \in Payload,
           HashChainStep(p, s, m) = HashChainStep(q, t, n)
    PROVE  p = q /\ s = t /\ m = n
<1> DEFINE a == [seq |-> s, msg |-> m]
           b == [seq |-> t, msg |-> n]
           pa == Append(p.links, a)
           qb == Append(q.links, b)
<1>1. /\ a \in Link /\ b \in Link
      /\ p.links \in Seq(Link) /\ q.links \in Seq(Link)
  BY DEF Link, Digest
<1>2. /\ HashChainStep(p, s, m) = [p EXCEPT !.links = pa]
      /\ HashChainStep(q, t, n) = [q EXCEPT !.links = qb]
  BY DEF HashChainStep
<1> HIDE DEF a, b
<1>3. pa = qb /\ p.alg = q.alg
  <2> HIDE DEF pa, qb
  <2>1. /\ [p EXCEPT !.links = pa].links = pa /\ [p EXCEPT !.links = pa].alg = p.alg
        /\ [q EXCEPT !.links = qb].links = qb /\ [q EXCEPT !.links = qb].alg = q.alg
    BY DEF Digest
  <2> QED
    BY <1>2, <2>1
<1>4. p.links = q.links /\ a = b
  BY <1>1, <1>3, AppendInjective, SMTT(60)
<1>5. p = [alg |-> p.alg, links |-> p.links] /\ q = [alg |-> q.alg, links |-> q.links]
  BY DEF Digest
<1>6. a.seq = b.seq /\ a.msg = b.msg
  BY <1>4
<1> QED
  BY <1>3, <1>4, <1>5, <1>6 DEF a, b

(* No step leads back to the initial value of a chain.                       *)
LEMMA HashChainStepLinks ==
    ASSUME NEW prev \in Digest, NEW seq \in Nat, NEW msg \in Payload
    PROVE  HashChainStep(prev, seq, msg).links # << >>
<1>1. [seq |-> seq, msg |-> msg] \in Link
  BY DEF Link
<1>2. Append(prev.links, [seq |-> seq, msg |-> msg]) # << >>
  BY <1>1, AppendProperties DEF Digest
<1> QED
  BY <1>2 DEF Digest, HashChainStep

(* A fresh chain context starts at sequence number 1. *)
LEMMA HashchainInitType ==
    ASSUME NEW alg \in Algs
    PROVE  HashchainInit(alg) \in Chain
BY ChainInitHashType DEF HashchainInit, Chain

(* hashchain_update: every field afterwards. *)
LEMMA HashchainUpdateType ==
    ASSUME NEW ctx \in Chain, NEW msg \in Payload
    PROVE  LET c == HashchainUpdate(ctx, msg)
           IN  /\ c \in Chain
               /\ c.alg = ctx.alg
               /\ c.current = HashChainStep(ctx.current, ctx.seq, msg)
               /\ c.seq = ctx.seq + 1
               /\ c.msg_count = ctx.msg_count + 1
<1>1. HashChainStep(ctx.current, ctx.seq, msg) \in Digest
  BY HashChainStepType DEF Chain
<1>2. ASSUME NEW h \in Digest, NEW s \in Nat, NEW n \in Nat
      PROVE  [ctx EXCEPT !.current = h, !.seq = s, !.msg_count = n] \in Chain
  BY DEF Chain
<1>3. ctx.seq + 1 \in Nat /\ ctx.msg_count + 1 \in Nat
  BY DEF Chain
<1>4. HashchainUpdate(ctx, msg) \in Chain
  BY <1>1, <1>2, <1>3 DEF HashchainUpdate
<1> QED
  BY <1>4 DEF Chain, HashchainUpdate

(* hashchain_reset_count leaves the digest and the sequence number. *)
LEMMA HashchainResetCountType ==
    ASSUME NEW ctx \in Chain
    PROVE  LET c == HashchainResetCount(ctx)
           IN  /\ c \in Chain
               /\ c.alg = ctx.alg /\ c.current = ctx.current
               /\ c.seq = ctx.seq /\ c.msg_count = 0
BY DEF Chain, HashchainResetCount

(* The elements the signer formats are records the verifier can read back,   *)
(* field by field.                                                           *)
LEMMA SDInitType ==
    ASSUME NEW seq \in Nat, NEW hash \in Digest, NEW fp \in Keys
    PROVE  LET sd == SDInit(seq, hash, fp)
           IN  /\ sd \in SD /\ sd.type = "INIT"
               /\ sd.q = seq /\ sd.h = hash /\ sd.f = fp
BY DEF SDInit, SDPlain, SD, SDTypes

(* An element built by SDMsg is a record. *)
LEMMA SDMsgType ==
    ASSUME NEW seq \in Nat, NEW hash \in Digest
    PROVE  LET sd == SDMsg(seq, hash)
           IN  sd \in SD /\ sd.type = "MSG" /\ sd.q = seq /\ sd.h = hash
BY DEF SDMsg, SDPlain, SD, SDTypes

(* An element built by SDSig is a record. *)
LEMMA SDSigType ==
    ASSUME NEW seq \in Nat, NEW hash \in Digest, NEW from \in Nat,
           NEW to \in Nat, NEW key \in Keys
    PROVE  LET sd == SDSig(seq, hash, from, to, HcsSign(key, hash))
           IN  /\ sd \in SD /\ sd.type = "SIG"
               /\ sd.q = seq /\ sd.h = hash
               /\ sd.qf = from /\ sd.qt = to /\ sd.s = HcsSign(key, hash)
BY DEF SDSig, SDPlain, SD, SDTypes, HcsSign, Signature
=============================================================================

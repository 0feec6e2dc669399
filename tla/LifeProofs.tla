----------------------------- MODULE LifeProofs ------------------------------
(* The worker's life (WorkerLife) keeps its inductive invariant: no call of  *)
(* createWrkrInstance, doAction or freeWrkrInstance, whichever way it ends,  *)
(* leaks, frees twice or lets a second chain in.  Before that, what          *)
(* mmhashchainsigs_load_state makes of what mmhashchainsigs_save_state       *)
(* wrote: all of it, or nothing when the file was cut short.                 *)
EXTENDS WorkerLifeInv, SequenceTheorems, FiniteSetTheorems, TLAPS

-----------------------------------------------------------------------------
(* The text of the state file *)

(* The lines of a saved tail, one by one *)
LEMMA StateLinesAt ==
    ASSUME NEW s \in State
    PROVE  LET f == StateLines(s)
           IN  /\ f \in FileText /\ Len(f) = 6
               /\ f[1].key = "magic"
               /\ f[2].key = "hashalgo"     /\ f[2].val = s.alg
               /\ f[3].key = "chain_hash"   /\ f[3].val = s.chain_hash
               /\ f[4].key = "seq"          /\ f[4].val = s.seq
               /\ f[5].key = "sig_seq_from" /\ f[5].val = s.sig_seq_from
               /\ f[6].key = "pubkey_fp"    /\ f[6].val = s.fp
<1>1. /\ FileLine("magic", "V1") \in AnyLine
      /\ FileLine("hashalgo", s.alg) \in AnyLine
      /\ FileLine("chain_hash", s.chain_hash) \in AnyLine
      /\ FileLine("seq", s.seq) \in AnyLine
      /\ FileLine("sig_seq_from", s.sig_seq_from) \in AnyLine
      /\ FileLine("pubkey_fp", s.fp) \in AnyLine
  BY DEF FileLine, LineKeys, State, AnyLine
<1>2. StateLines(s) \in FileText
  BY <1>1 DEF StateLines, FileText
<1> QED
  BY <1>2 DEF StateLines, FileLine

(* No value of a saved tail is one that no reader accepts. *)
LEMMA StateIsReadable ==
    ASSUME NEW s \in State
    PROVE  Garbled \notin {s.alg, s.chain_hash, s.seq, s.sig_seq_from, s.fp}
BY StateTextAssumption DEF State

(* Where the accepted lines of one name are just one line, its value counts. *)
LEMMA ValueOfOnly ==
    ASSUME NEW f, NEW k, NEW i \in Nat, Accepted(f, k) = {i}
    PROVE  ValueOf(f, k) = f[i].val
BY DEF ValueOf

(* A file without an acceptable pubkey_fp line is refused: it is the last    *)
(* line save_state prints, so a file cut short has none.                     *)
LEMMA NoFingerprint ==
    ASSUME NEW f,
           \A i \in 2 .. Len(f) : f[i].key = "pubkey_fp" => f[i].val = Garbled
    PROVE  LoadState(f) = NoState
<1>1. Accepted(f, "pubkey_fp") = {}
  BY DEF Accepted, Numbered
<1> QED
  BY <1>1 DEF LoadState, Loads, Required

(* load_state reads back exactly what save_state wrote.                      *)
THEOREM StateRoundTrip ==
    ASSUME NEW s \in State
    PROVE  LoadState(StateLines(s)) = s
<1> DEFINE f == StateLines(s)
<1>1. /\ f \in FileText /\ Len(f) = 6
      /\ f[1].key = "magic"
      /\ f[2].key = "hashalgo"     /\ f[2].val = s.alg
      /\ f[3].key = "chain_hash"   /\ f[3].val = s.chain_hash
      /\ f[4].key = "seq"          /\ f[4].val = s.seq
      /\ f[5].key = "sig_seq_from" /\ f[5].val = s.sig_seq_from
      /\ f[6].key = "pubkey_fp"    /\ f[6].val = s.fp
  BY StateLinesAt
<1> HIDE DEF f
<1>2. 2 .. Len(f) = {2, 3, 4, 5, 6}
  BY <1>1
<1>3. /\ Accepted(f, "hashalgo") = {2} /\ Accepted(f, "chain_hash") = {3}
      /\ Accepted(f, "seq") = {4} /\ Accepted(f, "sig_seq_from") = {5}
      /\ Accepted(f, "pubkey_fp") = {6}
      /\ Numbered(f, "hashalgo") = {2}
  BY <1>1, <1>2, StateIsReadable DEF Accepted, Numbered
<1>4. f # NoFile /\ f # << >>
  BY <1>1, StateTextAssumption, EmptySeq
<1>5. Loads(f)
  BY <1>1, <1>3, <1>4 DEF Loads, Required
<1>6. /\ ValueOf(f, "hashalgo") = s.alg
      /\ ValueOf(f, "chain_hash") = s.chain_hash
      /\ ValueOf(f, "seq") = s.seq
      /\ ValueOf(f, "sig_seq_from") = s.sig_seq_from
      /\ ValueOf(f, "pubkey_fp") = s.fp
  BY <1>1, <1>3, ValueOfOnly
<1>7. LoadState(f) = [alg |-> s.alg, chain_hash |-> s.chain_hash, seq |-> s.seq,
                      sig_seq_from |-> s.sig_seq_from, fp |-> s.fp]
  BY <1>3, <1>5, <1>6 DEF LoadState
<1> QED
  BY <1>7 DEF f, State

(* A file of the layout without hashalgo= is read as the same tail of a      *)
(* SHA-256 chain.                                                            *)
THEOREM OldLayoutLoads ==
    ASSUME NEW s \in State
    PROVE  LoadState(OldLines(s)) = [s EXCEPT !.alg = DefaultAlg]
<1> DEFINE g == StateLines(s)
           f == OldLines(s)
<1>1. /\ g \in FileText /\ Len(g) = 6
      /\ g[1].key = "magic"
      /\ g[3].key = "chain_hash"   /\ g[3].val = s.chain_hash
      /\ g[4].key = "seq"          /\ g[4].val = s.seq
      /\ g[5].key = "sig_seq_from" /\ g[5].val = s.sig_seq_from
      /\ g[6].key = "pubkey_fp"    /\ g[6].val = s.fp
  BY StateLinesAt
<1> HIDE DEF g
<1>2. f = <<g[1]>> \o SubSeq(g, 3, 6)
  BY DEF OldLines, g
<1> HIDE DEF f
<1>3. /\ Len(f) = 5 /\ f[1] = g[1] /\ f \in FileText
      /\ f[2] = g[3] /\ f[3] = g[4] /\ f[4] = g[5] /\ f[5] = g[6]
  <2>1. \A i \in 1 .. 6 : g[i] \in AnyLine
    BY <1>1, ElementOfSeq DEF FileText
  <2>2. /\ SubSeq(g, 3, 6) \in FileText /\ <<g[1]>> \in FileText
        /\ Len(SubSeq(g, 3, 6)) = 4
        /\ \A i \in 1 .. 4 : SubSeq(g, 3, 6)[i] = g[i + 2]
    BY <2>1, SubSeqProperties DEF FileText
  <2>3. Len(<<g[1]>>) = 1 /\ <<g[1]>>[1] = g[1]
    OBVIOUS
  <2>4. f \in FileText /\ Len(f) = 5
    BY <1>2, <2>2, <2>3, ConcatProperties DEF FileText
  <2>5. f[1] = g[1] /\ \A i \in 1 .. 4 : f[i + 1] = SubSeq(g, 3, 6)[i]
    BY <1>2, <2>2, <2>3, ConcatProperties DEF FileText
  <2> QED BY <2>2, <2>4, <2>5
<1>4. 2 .. Len(f) = {2, 3, 4, 5}
  BY <1>3
<1>5. /\ Numbered(f, "hashalgo") = {} /\ Accepted(f, "hashalgo") = {}
      /\ Accepted(f, "chain_hash") = {2} /\ Accepted(f, "seq") = {3}
      /\ Accepted(f, "sig_seq_from") = {4} /\ Accepted(f, "pubkey_fp") = {5}
  BY <1>1, <1>3, <1>4, StateIsReadable DEF Accepted, Numbered
<1>6. Loads(f)
  BY <1>1, <1>3, <1>5, StateTextAssumption DEF Loads, Required
<1>7. /\ ValueOf(f, "chain_hash") = s.chain_hash
      /\ ValueOf(f, "seq") = s.seq
      /\ ValueOf(f, "sig_seq_from") = s.sig_seq_from
      /\ ValueOf(f, "pubkey_fp") = s.fp
  BY <1>1, <1>3, <1>5, ValueOfOnly
<1>8. LoadState(f) = [alg |-> DefaultAlg, chain_hash |-> s.chain_hash,
                      seq |-> s.seq, sig_seq_from |-> s.sig_seq_from,
                      fp |-> s.fp]
  BY <1>5, <1>6, <1>7 DEF LoadState
<1> QED
  BY <1>8 DEF f, State

(* Whatever the power failure left of a file that was being written, it is   *)
(* read as the tail that was saved or not at all.                            *)
THEOREM TornRefused ==
    ASSUME NEW s \in State, NEW f \in TornImages(StateLines(s))
    PROVE  LoadState(f) \in {NoState, s}
<1> DEFINE g == StateLines(s)
<1>1. /\ g \in FileText /\ Len(g) = 6
      /\ \A i \in 1 .. 6 : g[i].key = "pubkey_fp" => i = 6
      /\ g[6].key = "pubkey_fp" /\ g[6].val # Garbled
  BY StateLinesAt, StateIsReadable
<1>2. LoadState(g) = s
  BY StateRoundTrip
<1> HIDE DEF g
<1>3. CASE \E n \in 0 .. Len(g) : f = SubSeq(g, 1, n)
  <2>1. PICK n \in 0 .. 6 : f = SubSeq(g, 1, n)
    BY <1>1, <1>3
  <2>2. Len(f) = n /\ \A i \in 1 .. n : f[i] = g[i]
    BY <1>1, <2>1, SubSeqProperties DEF FileText
  <2>3. CASE n = 6
    BY <1>1, <1>2, <2>1, <2>3, SubSeqFull DEF FileText
  <2>4. CASE n # 6
    BY <1>1, <2>2, <2>4, NoFingerprint
  <2> QED BY <2>3, <2>4
<1>4. CASE \E n \in 1 .. Len(g) : \E c \in Cuts(g[n]) :
               f = Append(SubSeq(g, 1, n - 1), c)
  <2>1. PICK n \in 1 .. 6 : \E c \in Cuts(g[n]) :
                                 f = Append(SubSeq(g, 1, n - 1), c)
    BY <1>1, <1>4
  <2> PICK c \in Cuts(g[n]) : f = Append(SubSeq(g, 1, n - 1), c)
    BY <2>1
  <2>2. ASSUME c.key = "pubkey_fp" PROVE c.val = Garbled
    <3>1. g[n].key = "pubkey_fp" /\ c.val \in ShortValues(g[n])
      BY <2>2 DEF Cuts, FileLine
    <3>2. ShortValues(g[n]) \subseteq {Garbled}
      BY <3>1 DEF ShortValues
    <3> QED BY <3>1, <3>2
  <2> DEFINE p == SubSeq(g, 1, n - 1)
  <2>3. p \in FileText /\ Len(p) = n - 1 /\ \A i \in 1 .. n - 1 : p[i] = g[i]
    <3>1. /\ g \in Seq(AnyLine) /\ 1 \in Int /\ n - 1 \in Int
          /\ \A i \in 1 .. n - 1 : g[i] \in AnyLine
      BY <1>1, SMTT(60) DEF FileText
    <3> HIDE DEF p
    <3>2. /\ p \in Seq(AnyLine)
          /\ Len(p) = IF 1 <= n - 1 THEN n - 1 - 1 + 1 ELSE 0
          /\ \A i \in 1 .. n - 1 - 1 + 1 : p[i] = g[1 + i - 1]
      BY <3>1, SubSeqProperties DEF p
    <3> QED
      BY <3>2 DEF FileText
  <2> HIDE DEF p
  <2>4. /\ Len(f) = n /\ f[n] = c
        /\ \A i \in 1 .. n - 1 : f[i] = g[i]
    BY <2>1, <2>3 DEF p, FileText
  <2>5. ASSUME NEW i \in 2 .. Len(f), f[i].key = "pubkey_fp"
        PROVE  f[i].val = Garbled
    <3>1. i = n \/ i \in 1 .. n - 1
      BY <2>4, <2>5
    <3>2. i \in 1 .. n - 1 => f[i].key # "pubkey_fp"
      BY <1>1, <2>4
    <3> QED BY <2>2, <2>4, <2>5, <3>1, <3>2
  <2> QED BY <2>5, NoFingerprint
<1> QED
  BY <1>3, <1>4 DEF TornImages, g

-----------------------------------------------------------------------------
(* The worker *)

(* The worker instances there may be, by type *)
Work == [pc : PCs, ptr : SUBSET Kinds, initialized : BOOLEAN, seq : Nat,
         msg_count : Nat, pending : State \cup {NoState}, signed : BOOLEAN]

(* Thread t's worker becomes w, which owns what is allocated.                *)
Becomes(t, w) ==
    /\ wk' = [wk EXCEPT ![t] = w]
    /\ heap' = [heap EXCEPT ![t] = [k \in Kinds |-> IF k \in w.ptr THEN 1 ELSE 0]]

(* What one call moves in a worker: its place, and the pointers *)
At(v, next, held) == [v EXCEPT !.pc = next, !.ptr = held]

(* Where a call may be made from, and go on to                               *)
Inside == PCs \ {"out", "rename"}

(* The three kinds of call, from a worker v that fits to one that fits       *)
Goes(v, next, cert) == Fits(At(v, next, v.ptr), cert)

Gets(v, next, kind, cert) ==
    kind \notin v.ptr /\ Fits(At(v, next, v.ptr \cup {kind}), cert)

Frees(v, next, kinds, cert) == Fits(At(v, next, v.ptr \ kinds), cert)

(* The places and the kinds, by name *)
LEMMA Places ==
        /\ "rejected" \in Inside /\ "idle" \in Inside
        /\ "open state" \in Inside /\ "magic" \in Inside
        /\ "fields" \in Inside /\ "strip" \in Inside /\ "clean" \in Inside
        /\ "free stripped" \in Inside /\ "payload" \in Inside
        /\ "new sd" \in Inside /\ "finalize" \in Inside /\ "init" \in Inside
        /\ "load key" \in Inside /\ "key type" \in Inside
        /\ "load cert" \in Inside /\ "cert key" \in Inside
        /\ "free cert key" \in Inside /\ "key pair" \in Inside
        /\ "fingerprint" \in Inside /\ "init failed" \in Inside
        /\ "chain" \in Inside /\ "final" \in Inside /\ "free state" \in Inside
        /\ "delete" \in Inside /\ "update" \in Inside /\ "sign" \in Inside
        /\ "cert" \in Inside /\ "b64" \in Inside /\ "free b64" \in Inside
        /\ "open tmp" \in Inside /\ "close tmp" \in Inside
        /\ "unlink tmp" \in Inside /\ "free signer" \in Inside
        /\ "free pending" \in Inside /\ "leave" \in Inside
        /\ "privkey" \in Kinds /\ "cert" \in Kinds /\ "cert_der" \in Kinds
        /\ "stripped_sd" \in Kinds /\ "cleaned_sd" \in Kinds
        /\ "payload" \in Kinds /\ "new_sd" \in Kinds /\ "cert_pub" \in Kinds
        /\ "b64" \in Kinds /\ "pending_state" \in Kinds /\ "FILE" \in Kinds
BY DEF Inside, PCs, Kinds, SignerKinds, BufferKinds

(* The state of one thread, out of the invariant *)
LEMMA OneWorker ==
    ASSUME NEW t \in Workers, LifeInv
    PROVE  /\ wk[t] \in Work /\ Fits(wk[t], conf.cert)
           /\ conf.cert \in BOOLEAN
           /\ heap[t] = [k \in Kinds |-> IF k \in wk[t].ptr THEN 1 ELSE 0]
<1>1. conf \in Conf
  BY LifeAssumption DEF LifeInv, LifeTypeOK
<1>2. heap[t] = [k \in Kinds |-> heap[t][k]]
  BY DEF LifeInv, LifeTypeOK
<1> QED
  BY <1>1, <1>2 DEF LifeInv, LifeTypeOK, Work, AllFit, HeapIsOwned, Conf

(* Thread t's worker becomes w without a call to malloc or free.             *)
LEMMA KeepBecomes ==
    ASSUME NEW t \in Workers, LifeInv, NEW w, w.ptr = wk[t].ptr,
           wk' = [wk EXCEPT ![t] = w], UNCHANGED heap
    PROVE  Becomes(t, w)
<1>1. heap = [heap EXCEPT ![t] = heap[t]]
  BY DEF LifeInv, LifeTypeOK
<1> QED
  BY <1>1, OneWorker DEF Becomes

(* The same with the frees of the pointers among `kinds' that are not NULL   *)
LEMMA FreeBecomes ==
    ASSUME NEW t \in Workers, LifeInv, NEW kinds, NEW w,
           w.ptr = wk[t].ptr \ kinds, wk' = [wk EXCEPT ![t] = w],
           FreeAll(t, kinds)
    PROVE  Becomes(t, w)
<1>1. heap' = [heap EXCEPT ![t] = [k \in Kinds |-> IF k \in kinds \cap wk[t].ptr
                                    THEN heap[t][k] - 1 ELSE heap[t][k]]]
  BY DEF FreeAll, LifeInv, LifeTypeOK
<1>2. \A k \in Kinds : heap[t][k] = IF k \in wk[t].ptr THEN 1 ELSE 0
  BY OneWorker
<1>3. [k \in Kinds |-> IF k \in kinds \cap wk[t].ptr
                       THEN heap[t][k] - 1 ELSE heap[t][k]]
      = [k \in Kinds |-> IF k \in w.ptr THEN 1 ELSE 0]
  BY <1>2
<1> QED
  BY <1>1, <1>3 DEF Becomes

(* A call that allocates nothing *)
LEMMA CallBecomes ==
    ASSUME NEW t \in Workers, LifeInv, NEW at, NEW next, Call(t, at, next)
    PROVE  wk[t].pc = at /\ Becomes(t, At(wk[t], next, wk[t].ptr))
<1> DEFINE w == At(wk[t], next, wk[t].ptr)
<1>1. [wk[t] EXCEPT !.pc = next] = w /\ w.ptr = wk[t].ptr
  BY OneWorker DEF Work, At
<1>2. wk' = [wk EXCEPT ![t] = [wk[t] EXCEPT !.pc = next]]
  BY DEF Call, LifeInv, LifeTypeOK
<1> HIDE DEF w
<1> QED
  BY <1>1, <1>2, KeepBecomes DEF Call, w

(* An allocation of a kind the worker does not hold *)
LEMMA AcquireBecomes ==
    ASSUME NEW t \in Workers, LifeInv, NEW at, NEW next, NEW kind \in Kinds,
           kind \notin wk[t].ptr, Acquire(t, at, kind, next)
    PROVE  wk[t].pc = at /\ Becomes(t, At(wk[t], next, wk[t].ptr \cup {kind}))
<1> DEFINE w == At(wk[t], next, wk[t].ptr \cup {kind})
<1>1. /\ [wk[t] EXCEPT !.pc = next, !.ptr = @ \cup {kind}] = w
      /\ w.ptr = wk[t].ptr \cup {kind}
  BY OneWorker DEF Work, At
<1>2. wk' = [wk EXCEPT ![t] = [wk[t] EXCEPT !.pc = next, !.ptr = @ \cup {kind}]]
  BY DEF Acquire, LifeInv, LifeTypeOK
<1>3. heap' = [heap EXCEPT ![t] = [heap[t] EXCEPT ![kind] = @ + 1]]
  BY DEF Acquire, LifeInv, LifeTypeOK
<1>4. [heap[t] EXCEPT ![kind] = @ + 1] = [k \in Kinds |-> IF k \in w.ptr THEN 1 ELSE 0]
  <2> HIDE DEF w
  <2>1. \A k \in Kinds : heap[t][k] = IF k \in wk[t].ptr THEN 1 ELSE 0
    BY OneWorker
  <2>2. heap[t] \in [Kinds -> Int]
    BY DEF LifeInv, LifeTypeOK
  <2> QED BY <1>1, <2>1, <2>2
<1> QED
  BY <1>1, <1>2, <1>3, <1>4 DEF Acquire, Becomes

(* The frees of a call *)
LEMMA ReleaseBecomes ==
    ASSUME NEW t \in Workers, LifeInv, NEW at, NEW next, NEW kinds,
           Release(t, at, kinds, next)
    PROVE  wk[t].pc = at /\ Becomes(t, At(wk[t], next, wk[t].ptr \ kinds))
<1> DEFINE w == At(wk[t], next, wk[t].ptr \ kinds)
<1>1. /\ [wk[t] EXCEPT !.pc = next, !.ptr = @ \ kinds] = w
      /\ w.ptr = wk[t].ptr \ kinds
  BY OneWorker DEF Work, At
<1>2. wk' = [wk EXCEPT ![t] = [wk[t] EXCEPT !.pc = next, !.ptr = @ \ kinds]]
  BY DEF Release, LifeInv, LifeTypeOK
<1> HIDE DEF w
<1> QED
  BY <1>1, <1>2, FreeBecomes DEF Release, w

(* The next state of thread t's worker: it fits, was at work before if it is *)
(* at work now, and its pending state is still what the file holds.  It did  *)
(* not come, or leave, or get a file ready for its rename.                   *)
Advances(t) ==
    \E w \in Work :
        /\ Becomes(t, w) /\ Fits(w, conf.cert)
        /\ wk[t].pc # "out" /\ w.pc \notin {"out", "rename"}
        /\ AtWork(w) => AtWork(wk[t])
        /\ w.pending # NoState => LoadState(path) = w.pending

(* A worker inside its calls advances to any w that fits.                    *)
LEMMA InsideAdvances ==
    ASSUME NEW t \in Workers, LifeInv, NEW w \in Work, Becomes(t, w),
           Fits(w, conf.cert), w.pc \in Inside,
           wk[t].pc \notin {"out", "rejected", "leave"},
           w.pending \in {NoState, wk[t].pending, LoadState(path)}
    PROVE  Advances(t)
<1>1. wk[t].pending # NoState => LoadState(path) = wk[t].pending
  BY DEF LifeInv, FilesFit
<1> QED
  BY <1>1 DEF Advances, Inside, AtWork

(* A worker that only moves its place and pointers advances.                 *)
LEMMA MoveAdvances ==
    ASSUME NEW t \in Workers, LifeInv, NEW next \in Inside,
           NEW held \in SUBSET Kinds, Becomes(t, At(wk[t], next, held)),
           Fits(At(wk[t], next, held), conf.cert), wk[t].pc # "out",
           wk[t].pc \in {"rejected", "leave"} =>
               next = "leave" /\ wk[t].pending = NoState
    PROVE  Advances(t)
<1> DEFINE w == At(wk[t], next, held)
<1>1. /\ w \in Work /\ w.pc = next /\ w.pending = wk[t].pending
  BY OneWorker DEF Work, At, Inside
<1>2. w.pending # NoState => LoadState(path) = w.pending
  BY <1>1 DEF LifeInv, FilesFit
<1>3. AtWork(w) => AtWork(wk[t])
  BY <1>1 DEF AtWork
<1> QED
  BY <1>1, <1>2, <1>3 DEF Advances, Inside

(* A worker that is turned away holds nothing.                               *)
LEMMA RejectedAdvances ==
    ASSUME NEW t \in Workers, LifeInv, Call(t, "rejected", "leave"),
           wk[t].pc = "rejected" =>
               wk[t].pending = NoState /\ Goes(wk[t], "leave", conf.cert)
    PROVE  Advances(t)
<1>1. wk[t].pc = "rejected" /\ Becomes(t, At(wk[t], "leave", wk[t].ptr))
  BY CallBecomes
<1>2. wk[t].ptr \in SUBSET Kinds
  BY OneWorker DEF Work
<1> QED
  BY <1>1, <1>2, Places, MoveAdvances DEF Goes

(* A call that allocates nothing advances the worker.                        *)
LEMMA CallAdvances ==
    ASSUME NEW t \in Workers, LifeInv, NEW at, NEW next \in Inside,
           at \notin {"out", "rejected", "leave"}, Call(t, at, next),
           wk[t].pc = at => Goes(wk[t], next, conf.cert)
    PROVE  Advances(t)
<1>1. wk[t].pc = at /\ Becomes(t, At(wk[t], next, wk[t].ptr))
  BY CallBecomes
<1>2. wk[t].ptr \in SUBSET Kinds
  BY OneWorker DEF Work
<1> QED
  BY <1>1, <1>2, MoveAdvances DEF Goes

(* So does an allocation,                                                    *)
LEMMA AcquireAdvances ==
    ASSUME NEW t \in Workers, LifeInv, NEW at, NEW next \in Inside,
           NEW kind \in Kinds, at \notin {"out", "rejected", "leave"},
           Acquire(t, at, kind, next),
           wk[t].pc = at => Gets(wk[t], next, kind, conf.cert)
    PROVE  Advances(t)
<1>1. wk[t].pc = at /\ Becomes(t, At(wk[t], next, wk[t].ptr \cup {kind}))
  BY AcquireBecomes DEF Gets, Acquire
<1>2. wk[t].ptr \cup {kind} \in SUBSET Kinds
  BY <1>1, OneWorker DEF Work, Gets, Acquire
<1> QED
  BY <1>1, <1>2, MoveAdvances DEF Gets, Acquire

(* and a release.                                                            *)
LEMMA ReleaseAdvances ==
    ASSUME NEW t \in Workers, LifeInv, NEW at, NEW next \in Inside,
           NEW kinds, at \notin {"out", "rejected", "leave"},
           Release(t, at, kinds, next),
           wk[t].pc = at => Frees(wk[t], next, kinds, conf.cert)
    PROVE  Advances(t)
<1>1. wk[t].pc = at /\ Becomes(t, At(wk[t], next, wk[t].ptr \ kinds))
  BY ReleaseBecomes
<1>2. wk[t].ptr \ kinds \in SUBSET Kinds
  BY OneWorker DEF Work
<1> QED
  BY <1>1, <1>2, MoveAdvances DEF Frees

(* createWrkrInstance, load_state: every call, whichever way it ends *)
LEMMA LoadStateAdvances ==
    ASSUME NEW t \in Workers, LifeInv
    PROVE  /\ OpenState(t) => Advances(t)
           /\ CheckMagic(t) => Advances(t)
<1> DEFINE v == wk[t]
           cert == conf.cert
<1>0. v \in Work /\ cert \in BOOLEAN /\ Fits(v, cert)
  BY OneWorker
<1> HIDE DEF v, cert
<1> USE DEF Goes, Gets, Frees, At, Work, Fits, HoldsSigner, HoldsPending,
   HoldsBuffers, CountsEntries, Running, InProcessMsg, Saving, AfterPayload,
   Initialising, AfterKeyLoad, SignerKinds
<1>1. v.pc = "open state" => Gets(v, "magic", "FILE", cert)
  BY <1>0
<1>2. v.pc = "open state" => Goes(v, "idle", cert)
  BY <1>0
<1>3. v.pc = "magic" => Gets(v, "fields", "pending_state", cert)
  BY <1>0
<1>4. v.pc = "magic" => Frees(v, "idle", {"FILE"}, cert)
  BY <1>0
<1> HIDE DEF Goes, Gets, Frees, At, Work, Fits, HoldsSigner, HoldsPending,
   HoldsBuffers, CountsEntries, Running, InProcessMsg, Saving, AfterPayload,
   Initialising, AfterKeyLoad, SignerKinds
<1>5. OpenState(t) => Advances(t)
  BY <1>1, <1>2, Places, CallAdvances, AcquireAdvances DEF OpenState, v, cert
<1>6. CheckMagic(t) => Advances(t)
  BY <1>3, <1>4, Places, AcquireAdvances, ReleaseAdvances DEF CheckMagic, v,
     cert
<1> QED
  BY <1>5, <1>6

(* doAction: its buffers *)
LEMMA DoActionAdvances ==
    ASSUME NEW t \in Workers, LifeInv
    PROVE  /\ BeginAction(t) => Advances(t)
           /\ StripClientSD(t) => Advances(t)
           /\ CleanSD(t) => Advances(t)
           /\ FreeStripped(t) => Advances(t)
           /\ MakePayload(t) => Advances(t)
           /\ NewSD(t) => Advances(t)
           /\ Finalize(t) => Advances(t)
<1> DEFINE v == wk[t]
           cert == conf.cert
<1>0. v \in Work /\ cert \in BOOLEAN /\ Fits(v, cert)
  BY OneWorker
<1> HIDE DEF v, cert
<1> USE DEF Goes, Gets, Frees, At, Work, Fits, HoldsSigner, HoldsPending,
   HoldsBuffers, CountsEntries, Running, InProcessMsg, Saving, AfterPayload,
   Initialising, AfterKeyLoad, SignerKinds
<1>1. v.pc = "idle" => Goes(v, "strip", cert)
  BY <1>0
<1>2. v.pc = "idle" => Goes(v, "clean", cert)
  BY <1>0
<1>3. v.pc = "strip" => Gets(v, "clean", "stripped_sd", cert)
  BY <1>0
<1>4. v.pc = "strip" => Goes(v, "idle", cert)
  BY <1>0
<1>5. v.pc = "clean" => Gets(v, "free stripped", "cleaned_sd", cert)
  BY <1>0
<1>6. v.pc = "clean" => Frees(v, "idle", {"stripped_sd"}, cert)
  BY <1>0
<1>7. v.pc = "free stripped" => Frees(v, "payload", {"stripped_sd"}, cert)
  BY <1>0
<1>8. v.pc = "payload" /\ ~v.initialized => Gets(v, "init", "payload", cert)
  BY <1>0
<1>9. v.pc = "payload" /\ v.initialized /\ "pending_state" \in v.ptr =>
        Gets(v, "final", "payload", cert)
  BY <1>0
<1>10. v.pc = "payload" /\ v.initialized /\ "pending_state" \notin v.ptr =>
        Gets(v, "update", "payload", cert)
  BY <1>0
<1>11. v.pc = "payload" => Goes(v, "finalize", cert)
  BY <1>0
<1>12. v.pc = "new sd" => Gets(v, "finalize", "new_sd", cert)
  BY <1>0
<1>13. v.pc = "new sd" => Goes(v, "finalize", cert)
  BY <1>0
<1>14. v.pc = "finalize" =>
        Frees(v, "idle", {"cleaned_sd", "payload", "new_sd"}, cert)
  BY <1>0
<1> HIDE DEF Goes, Gets, Frees, At, Work, Fits, HoldsSigner, HoldsPending,
   HoldsBuffers, CountsEntries, Running, InProcessMsg, Saving, AfterPayload,
   Initialising, AfterKeyLoad, SignerKinds
<1>15. BeginAction(t) => Advances(t)
  BY <1>1, <1>2, Places, CallAdvances DEF BeginAction, v, cert
<1>16. StripClientSD(t) => Advances(t)
  BY <1>3, <1>4, Places, CallAdvances, AcquireAdvances DEF StripClientSD, Try,
     v, cert
<1>17. CleanSD(t) => Advances(t)
  BY <1>5, <1>6, Places, AcquireAdvances, ReleaseAdvances DEF CleanSD, v, cert
<1>18. FreeStripped(t) => Advances(t)
  BY <1>7, Places, ReleaseAdvances DEF FreeStripped, v, cert
<1>19. MakePayload(t) => Advances(t)
  BY <1>8, <1>9, <1>10, <1>11, Places, CallAdvances, AcquireAdvances DEF
     MakePayload, Try, Enter, v, cert
<1>20. NewSD(t) => Advances(t)
  BY <1>12, <1>13, Places, CallAdvances, AcquireAdvances DEF NewSD, Try, v,
     cert
<1>21. Finalize(t) => Advances(t)
  BY <1>14, Places, ReleaseAdvances DEF Finalize, v, cert
<1> QED
  BY <1>15, <1>16, <1>17, <1>18, <1>19, <1>20, <1>21

(* mmhashchainsigs_init, signer_init and signer_init_x509 *)
LEMMA SignerInitAdvances ==
    ASSUME NEW t \in Workers, LifeInv
    PROVE  /\ LoadKey(t) => Advances(t)
           /\ CheckKeyType(t) => Advances(t)
           /\ LoadCert(t) => Advances(t)
           /\ CertKey(t) => Advances(t)
           /\ FreeCertKey(t) => Advances(t)
           /\ CheckKeypair(t) => Advances(t)
           /\ Fingerprint(t) => Advances(t)
           /\ InitFailed(t) => Advances(t)
<1> DEFINE v == wk[t]
           cert == conf.cert
<1>0. v \in Work /\ cert \in BOOLEAN /\ Fits(v, cert)
  BY OneWorker
<1> HIDE DEF v, cert
<1> USE DEF Goes, Gets, Frees, At, Work, Fits, HoldsSigner, HoldsPending,
   HoldsBuffers, CountsEntries, Running, InProcessMsg, Saving, AfterPayload,
   Initialising, AfterKeyLoad, SignerKinds
<1>1. v.pc = "load key" => Gets(v, "key type", "privkey", cert)
  BY <1>0
<1>2. v.pc = "load key" => Goes(v, "finalize", cert)
  BY <1>0
<1>3. v.pc = "key type" /\ cert => Goes(v, "load cert", cert)
  BY <1>0
<1>4. v.pc = "key type" /\ ~cert => Goes(v, "fingerprint", cert)
  BY <1>0
<1>5. v.pc = "key type" => Frees(v, "finalize", {"privkey"}, cert)
  BY <1>0
<1>6. v.pc = "load cert" => Gets(v, "cert key", "cert", cert)
  BY <1>0
<1>7. v.pc = "load cert" => Goes(v, "init failed", cert)
  BY <1>0
<1>8. v.pc = "cert key" => Gets(v, "free cert key", "cert_pub", cert)
  BY <1>0
<1>9. v.pc = "cert key" => Goes(v, "init failed", cert)
  BY <1>0
<1>10. v.pc = "free cert key" => Frees(v, "key pair", {"cert_pub"}, cert)
  BY <1>0
<1>11. v.pc = "free cert key" => Frees(v, "init failed", {"cert_pub"}, cert)
  BY <1>0
<1>12. v.pc = "key pair" => Goes(v, "fingerprint", cert)
  BY <1>0
<1>13. v.pc = "key pair" => Goes(v, "init failed", cert)
  BY <1>0
<1>14. v.pc = "fingerprint" => Goes(v, "chain", cert)
  BY <1>0
<1>15. v.pc = "fingerprint" => Goes(v, "init failed", cert)
  BY <1>0
<1>16. v.pc = "init failed" => Frees(v, "finalize", {"cert", "privkey"}, cert)
  BY <1>0
<1> HIDE DEF Goes, Gets, Frees, At, Work, Fits, HoldsSigner, HoldsPending,
   HoldsBuffers, CountsEntries, Running, InProcessMsg, Saving, AfterPayload,
   Initialising, AfterKeyLoad, SignerKinds
<1>17. LoadKey(t) => Advances(t)
  BY <1>1, <1>2, Places, CallAdvances, AcquireAdvances DEF LoadKey, Try, v,
     cert
<1>18. CheckKeyType(t) => Advances(t)
  BY <1>3, <1>4, <1>5, Places, CallAdvances, ReleaseAdvances DEF CheckKeyType,
     v, cert
<1>19. LoadCert(t) => Advances(t)
  BY <1>6, <1>7, Places, CallAdvances, AcquireAdvances DEF LoadCert, Try, v,
     cert
<1>20. CertKey(t) => Advances(t)
  BY <1>8, <1>9, Places, CallAdvances, AcquireAdvances DEF CertKey, Try, v,
     cert
<1>21. FreeCertKey(t) => Advances(t)
  BY <1>10, <1>11, Places, ReleaseAdvances DEF FreeCertKey, v, cert
<1>22. CheckKeypair(t) => Advances(t)
  BY <1>12, <1>13, Places, CallAdvances DEF CheckKeypair, v, cert
<1>23. Fingerprint(t) => Advances(t)
  BY <1>14, <1>15, Places, CallAdvances DEF Fingerprint, v, cert
<1>24. InitFailed(t) => Advances(t)
  BY <1>16, Places, ReleaseAdvances DEF InitFailed, v, cert
<1> QED
  BY <1>17, <1>18, <1>19, <1>20, <1>21, <1>22, <1>23, <1>24

(* mmhashchainsigs_process_msg: the calls that leave the chain alone *)
LEMMA ProcessMsgAdvances ==
    ASSUME NEW t \in Workers, LifeInv
    PROVE  /\ FreeState(t) => Advances(t)
           /\ CertDer(t) => Advances(t)
           /\ FormatCert(t) => Advances(t)
           /\ FreeB64(t) => Advances(t)
<1> DEFINE v == wk[t]
           cert == conf.cert
<1>0. v \in Work /\ cert \in BOOLEAN /\ Fits(v, cert)
  BY OneWorker
<1> HIDE DEF v, cert
<1> USE DEF Goes, Gets, Frees, At, Work, Fits, HoldsSigner, HoldsPending,
   HoldsBuffers, CountsEntries, Running, InProcessMsg, Saving, AfterPayload,
   Initialising, AfterKeyLoad, SignerKinds
<1>1. v.pc = "free state" => Frees(v, "delete", {"pending_state"}, cert)
  BY <1>0
<1>2. v.pc = "cert" /\ "cert_der" \in v.ptr => Goes(v, "b64", cert)
  BY <1>0
<1>3. v.pc = "cert" /\ "cert_der" \notin v.ptr =>
        Gets(v, "b64", "cert_der", cert)
  BY <1>0
<1>4. v.pc = "cert" => Goes(v, "new sd", cert)
  BY <1>0
<1>5. v.pc = "b64" => Gets(v, "free b64", "b64", cert)
  BY <1>0
<1>6. v.pc = "b64" => Goes(v, "new sd", cert)
  BY <1>0
<1>7. v.pc = "free b64" => Frees(v, "new sd", {"b64"}, cert)
  BY <1>0
<1> HIDE DEF Goes, Gets, Frees, At, Work, Fits, HoldsSigner, HoldsPending,
   HoldsBuffers, CountsEntries, Running, InProcessMsg, Saving, AfterPayload,
   Initialising, AfterKeyLoad, SignerKinds
<1>8. FreeState(t) => Advances(t)
  BY <1>1, Places, ReleaseAdvances DEF FreeState, v, cert
<1>9. CertDer(t) => Advances(t)
  BY <1>2, <1>3, <1>4, Places, CallAdvances, AcquireAdvances DEF CertDer, Try,
     v, cert
<1>10. FormatCert(t) => Advances(t)
  BY <1>5, <1>6, Places, CallAdvances, AcquireAdvances DEF FormatCert, Try, v,
     cert
<1>11. FreeB64(t) => Advances(t)
  BY <1>7, Places, ReleaseAdvances DEF FreeB64, v, cert
<1> QED
  BY <1>8, <1>9, <1>10, <1>11

(* freeWrkrInstance: the calls that touch no file *)
LEMMA FreeWorkerAdvances ==
    ASSUME NEW t \in Workers, LifeInv
    PROVE  /\ BeginFree(t) => Advances(t)
           /\ FreePending(t) => Advances(t)
<1> DEFINE v == wk[t]
           cert == conf.cert
<1>0. v \in Work /\ cert \in BOOLEAN /\ Fits(v, cert)
  BY OneWorker
<1> HIDE DEF v, cert
<1> USE DEF Goes, Gets, Frees, At, Work, Fits, HoldsSigner, HoldsPending,
   HoldsBuffers, CountsEntries, Running, InProcessMsg, Saving, AfterPayload,
   Initialising, AfterKeyLoad, SignerKinds
<1>1. v.pc = "idle" /\ v.initialized /\ v.msg_count > 0 =>
        Goes(v, "open tmp", cert)
  BY <1>0
<1>2. v.pc = "idle" => Goes(v, "free signer", cert)
  BY <1>0
<1>3. v.pc = "rejected" => v.pending = NoState /\ Goes(v, "leave", cert)
  BY <1>0
<1>4. v.pc = "free pending" => Frees(v, "leave", {"pending_state"}, cert)
  BY <1>0
<1> HIDE DEF Goes, Gets, Frees, At, Work, Fits, HoldsSigner, HoldsPending,
   HoldsBuffers, CountsEntries, Running, InProcessMsg, Saving, AfterPayload,
   Initialising, AfterKeyLoad, SignerKinds
<1>5. BeginFree(t) => Advances(t)
  BY <1>1, <1>2, <1>3, Places,
     CallAdvances, RejectedAdvances DEF BeginFree, HasTail, v, cert
<1>6. FreePending(t) => Advances(t)
  BY <1>4, Places, ReleaseAdvances DEF FreePending, v, cert
<1> QED
  BY <1>5, <1>6

(* The end of load_state: the pending state is what the file holds, or gone. *)
LEMMA ReadFieldsAdvances ==
    ASSUME NEW t \in Workers, LifeInv, ReadFields(t)
    PROVE  Advances(t)
<1> DEFINE v == wk[t]
           st == LoadState(path)
           kinds == {"FILE"} \cup IF st = NoState THEN {"pending_state"} ELSE {}
           w == [v EXCEPT !.pc = "idle", !.ptr = @ \ kinds, !.pending = st]
<1>1. v \in Work /\ Fits(v, conf.cert) /\ v.pc = "fields"
  BY OneWorker DEF ReadFields
<1>2. st \in State \cup {NoState}
  BY DEF LifeInv, FilesFit
<1>3. wk' = [wk EXCEPT ![t] = w] /\ FreeAll(t, kinds)
  BY DEF ReadFields, LifeInv, LifeTypeOK
<1> HIDE DEF v, st
<1>4. w \in Work /\ w.pc = "idle" /\ w.pending = st /\ w.ptr = v.ptr \ kinds
  BY <1>1, <1>2, Places DEF Work, Inside
<1>5. HoldsPending(w)
  BY <1>1, <1>2 DEF Work, Fits, HoldsPending, HoldsSigner, CountsEntries
<1>6. HoldsSigner(w, conf.cert) /\ HoldsBuffers(w) /\ CountsEntries(w)
  BY <1>1, <1>2 DEF Work, Fits, HoldsSigner, HoldsBuffers, CountsEntries,
     Running, InProcessMsg, Saving, AfterPayload, Initialising, AfterKeyLoad
<1> HIDE DEF w, kinds
<1>7. Becomes(t, w)
  BY <1>3, <1>4, FreeBecomes DEF v
<1> QED
  BY <1>1, <1>4, <1>5, <1>6, <1>7, Places, InsideAdvances DEF Fits, v, st

(* memset of a signer context that holds nothing                             *)
LEMMA CheckPermsAdvances ==
    ASSUME NEW t \in Workers, LifeInv, CheckPerms(t)
    PROVE  Advances(t)
<1> DEFINE v == wk[t]
<1>1. v \in Work /\ Fits(v, conf.cert) /\ v.pc = "init"
  BY OneWorker DEF CheckPerms
<1>2. PICK next \in {"load key", "finalize"} :
         wk' = [wk EXCEPT ![t].pc = next, ![t].ptr = @ \ SignerKinds]
  BY DEF CheckPerms
<1> DEFINE w == [v EXCEPT !.pc = next, !.ptr = @ \ SignerKinds]
<1>3. wk' = [wk EXCEPT ![t] = w]
  BY <1>2 DEF LifeInv, LifeTypeOK
<1> HIDE DEF v
<1>4. v.ptr \cap SignerKinds = {}
  BY <1>1 DEF Fits, HoldsSigner, SignerKinds, AfterKeyLoad, Initialising
<1>5. /\ w \in Work /\ w.pc = next /\ w.pending = v.pending /\ w.ptr = v.ptr
  BY <1>1, <1>4, Places DEF Work, Inside
<1>6. Fits(w, conf.cert)
  BY <1>1, <1>5 DEF Work, Fits, HoldsSigner, HoldsPending, HoldsBuffers,
     CountsEntries, Running, InProcessMsg, Saving, AfterPayload, Initialising,
     AfterKeyLoad
<1> HIDE DEF w
<1>7. Becomes(t, w)
  BY <1>3, <1>5, KeepBecomes DEF CheckPerms, v
<1> QED
  BY <1>1, <1>5, <1>6, <1>7, Places, InsideAdvances DEF v

(* hashchain_init is the last step of mmhashchainsigs_init.                  *)
LEMMA StartChainAdvances ==
    ASSUME NEW t \in Workers, LifeInv, StartChain(t)
    PROVE  Advances(t)
<1> DEFINE v == wk[t]
           w == [v EXCEPT !.pc = Enter(t), !.initialized = TRUE, !.seq = 1,
                          !.msg_count = 0]
<1>1. v \in Work /\ Fits(v, conf.cert)
  BY OneWorker
<1>2. CASE Release(t, "chain", SignerKinds, "finalize")
  <2>1. v.pc = "chain" => Frees(v, "finalize", SignerKinds, conf.cert)
    <3> HIDE DEF v
    <3> QED BY <1>1, OneWorker DEF Frees, At, Work, Fits, HoldsSigner,
               HoldsPending, HoldsBuffers, CountsEntries, Running, InProcessMsg,
               Saving, AfterPayload, Initialising, AfterKeyLoad, SignerKinds
  <2> QED BY <1>2, <2>1, Places, ReleaseAdvances
<1>3. CASE v.pc = "chain" /\ wk' = [wk EXCEPT ![t] = w] /\ UNCHANGED heap
  <2>1. Enter(t) = IF "pending_state" \in v.ptr THEN "final" ELSE "update"
    BY DEF Enter
  <2> HIDE DEF v
  <2>2. w \in Work /\ w.pc \in Inside /\ w.pending = v.pending /\ w.ptr = v.ptr
    BY <1>1, <2>1, Places DEF Work, Inside
  <2>3. Fits(w, conf.cert)
    BY <1>1, <1>3, <2>1 DEF Work, Fits, HoldsSigner, HoldsPending, HoldsBuffers,
       CountsEntries, Running, InProcessMsg, Saving, AfterPayload, Initialising,
       AfterKeyLoad
  <2> HIDE DEF w
  <2>4. Becomes(t, w)
    BY <1>3, <2>2, KeepBecomes DEF v
  <2> QED BY <1>3, <2>2, <2>3, <2>4, InsideAdvances DEF v
<1>4. wk[t].pc = "chain" /\ wk' = [wk EXCEPT ![t].pc = Enter(t),
           ![t].initialized = TRUE, ![t].seq = 1, ![t].msg_count = 0]
      => wk' = [wk EXCEPT ![t] = w]
  BY DEF LifeInv, LifeTypeOK
<1> QED
  BY <1>2, <1>3, <1>4 DEF StartChain

(* process_final starts the chain anew, or leaves it and signs nothing.      *)
LEMMA ProcessFinalAdvances ==
    ASSUME NEW t \in Workers, LifeInv, ProcessFinal(t)
    PROVE  Advances(t)
<1> DEFINE v == wk[t]
           same == v.pending.fp = conf.key /\ v.pending.alg = conf.alg
<1>1. v \in Work /\ Fits(v, conf.cert) /\ v.pc = "final"
  BY OneWorker DEF ProcessFinal
<1>2. PICK made \in BOOLEAN :
         wk' = [wk EXCEPT ![t].pc = "free state", ![t].signed = made,
                          ![t].seq = IF same THEN 1 ELSE @,
                          ![t].msg_count = IF same THEN 0 ELSE @]
  BY DEF ProcessFinal
<1> DEFINE w == [v EXCEPT !.pc = "free state", !.signed = made,
                          !.seq = IF same THEN 1 ELSE @,
                          !.msg_count = IF same THEN 0 ELSE @]
<1>3. wk' = [wk EXCEPT ![t] = w]
  BY <1>2 DEF LifeInv, LifeTypeOK
<1> HIDE DEF v, same
<1>4. /\ w \in Work /\ w.pc = "free state" /\ w.pending = v.pending
      /\ w.ptr = v.ptr
  BY <1>1, Places DEF Work, Inside
<1>5. Fits(w, conf.cert)
  BY <1>1, <1>4 DEF Work, Fits, HoldsSigner, HoldsPending, HoldsBuffers,
     CountsEntries, Running, InProcessMsg, Saving, AfterPayload, Initialising,
     AfterKeyLoad
<1> HIDE DEF w
<1>6. Becomes(t, w)
  BY <1>3, <1>4, KeepBecomes DEF ProcessFinal, v
<1> QED
  BY <1>1, <1>4, <1>5, <1>6, Places, InsideAdvances DEF v

(* hashchain_update counts the entry, or fails and the message is not        *)
(* signed.                                                                   *)
LEMMA UpdateAdvances ==
    ASSUME NEW t \in Workers, LifeInv, Update(t)
    PROVE  Advances(t)
<1> DEFINE v == wk[t]
           next == CASE v.seq = 1 -> IF conf.embedcert /\ conf.cert THEN "cert"
                                     ELSE "new sd"
                     [] v.seq # 1 /\ v.msg_count + 1 >= SignInterval -> "sign"
                     [] OTHER -> "new sd"
           w == [v EXCEPT !.pc = next, !.seq = @ + 1,
                          !.msg_count = v.msg_count + 1]
<1>1. v \in Work /\ Fits(v, conf.cert)
  BY OneWorker
<1>2. CASE Call(t, "update", "finalize")
  <2>1. v.pc = "update" => Goes(v, "finalize", conf.cert)
    <3> HIDE DEF v
    <3> QED BY <1>1, OneWorker DEF Goes, At, Work, Fits, HoldsSigner,
               HoldsPending, HoldsBuffers, CountsEntries, Running, InProcessMsg,
               Saving, AfterPayload, Initialising, AfterKeyLoad
  <2> QED BY <1>2, <2>1, Places, CallAdvances
<1>3. CASE v.pc = "update" /\ wk' = [wk EXCEPT ![t] = w] /\ UNCHANGED heap
  <2>1. next \in {"cert", "sign", "new sd"} /\ (next = "cert" => conf.cert)
    OBVIOUS
  <2>2. next \in PCs
    BY <2>1, Places DEF Inside
  <2>3. v.seq + 1 \in Nat /\ v.msg_count + 1 \in Nat
    BY <1>1 DEF Work
  <2> HIDE DEF v, next
  <2>4. /\ w \in Work /\ w.pc = next /\ w.pending = v.pending /\ w.ptr = v.ptr
        /\ w.initialized = v.initialized
        /\ w.seq = v.seq + 1 /\ w.msg_count = v.msg_count + 1
    BY <1>1, <2>2, <2>3 DEF Work
  <2> HIDE DEF w
  <2>5. HoldsPending(w) /\ CountsEntries(w)
    <3>1. v.pending = NoState /\ "pending_state" \notin v.ptr
      BY <1>1, <1>3 DEF Fits, HoldsPending
    <3>2. w.msg_count <= w.seq
      <4>1. v.msg_count <= v.seq
        BY <1>1 DEF Fits, CountsEntries
      <4>2. v.msg_count \in Nat /\ v.seq \in Nat
        BY <1>1 DEF Work
      <4>3. v.msg_count + 1 <= v.seq + 1
        BY <4>1, <4>2
      <4> QED BY <2>4, <4>3
    <3> QED BY <2>1, <2>4, <3>1, <3>2 DEF HoldsPending, CountsEntries, Saving
  <2>6. HoldsSigner(w, conf.cert)
    BY <1>1, <1>3, <2>1, <2>4 DEF Fits, HoldsSigner, Running, InProcessMsg,
       Saving, Initialising, AfterKeyLoad
  <2>7. HoldsBuffers(w)
    BY <1>1, <1>3, <2>1, <2>4 DEF Fits, HoldsBuffers, InProcessMsg,
       AfterPayload, Initialising, AfterKeyLoad
  <2>8. Becomes(t, w)
    BY <1>3, <2>4, KeepBecomes DEF v, w
  <2> QED BY <1>3, <2>1, <2>4, <2>5, <2>6, <2>7, <2>8, Places, InsideAdvances
             DEF Fits, v
<1>4. wk' = [wk EXCEPT ![t].pc = next, ![t].seq = @ + 1,
                       ![t].msg_count = v.msg_count + 1]
      => wk' = [wk EXCEPT ![t] = w]
  BY DEF LifeInv, LifeTypeOK
<1> QED
  BY <1>2, <1>3, <1>4 DEF Update

(* hashchain_reset_count after a signature                                   *)
LEMMA SignAdvances ==
    ASSUME NEW t \in Workers, LifeInv, Sign(t)
    PROVE  Advances(t)
<1> DEFINE v == wk[t]
           w == [v EXCEPT !.pc = "new sd", !.msg_count = 0]
<1>1. v \in Work /\ Fits(v, conf.cert)
  BY OneWorker
<1>2. CASE Call(t, "sign", "finalize")
  <2>1. v.pc = "sign" => Goes(v, "finalize", conf.cert)
    <3> HIDE DEF v
    <3> QED BY <1>1, OneWorker DEF Goes, At, Work, Fits, HoldsSigner,
               HoldsPending, HoldsBuffers, CountsEntries, Running, InProcessMsg,
               Saving, AfterPayload, Initialising, AfterKeyLoad
  <2> QED BY <1>2, <2>1, Places, CallAdvances
<1>3. CASE v.pc = "sign" /\ wk' = [wk EXCEPT ![t] = w] /\ UNCHANGED heap
  <2> HIDE DEF v
  <2>1. w \in Work /\ w.pc = "new sd" /\ w.pending = v.pending /\ w.ptr = v.ptr
    BY <1>1, Places DEF Work, Inside
  <2>2. Fits(w, conf.cert)
    BY <1>1, <1>3 DEF Work, Fits, HoldsSigner, HoldsPending, HoldsBuffers,
       CountsEntries, Running, InProcessMsg, Saving, AfterPayload, Initialising,
       AfterKeyLoad
  <2> HIDE DEF w
  <2>3. Becomes(t, w)
    BY <1>3, <2>1, KeepBecomes DEF v
  <2> QED BY <1>3, <2>1, <2>2, <2>3, Places, InsideAdvances DEF v
<1>4. wk' = [wk EXCEPT ![t].pc = "new sd", ![t].msg_count = 0]
      => wk' = [wk EXCEPT ![t] = w]
  BY DEF LifeInv, LifeTypeOK
<1> QED
  BY <1>2, <1>3, <1>4 DEF Sign

(* signer_free, when the worker was initialised                              *)
LEMMA FreeSignerAdvances ==
    ASSUME NEW t \in Workers, LifeInv, FreeSigner(t)
    PROVE  Advances(t)
<1> DEFINE v == wk[t]
           kinds == IF v.initialized THEN SignerKinds ELSE {}
           w == [v EXCEPT !.pc = "free pending", !.initialized = FALSE,
                          !.ptr = @ \ kinds]
<1>1. v \in Work /\ Fits(v, conf.cert) /\ v.pc = "free signer"
  BY OneWorker DEF FreeSigner
<1>2. wk' = [wk EXCEPT ![t] = w] /\ FreeAll(t, kinds)
  BY DEF FreeSigner, LifeInv, LifeTypeOK
<1> HIDE DEF v
<1>3. /\ w \in Work /\ w.pc = "free pending" /\ w.pending = v.pending
      /\ w.ptr = v.ptr \ kinds
  BY <1>1, Places DEF Work, Inside
<1>4. Fits(w, conf.cert)
  BY <1>1, <1>3 DEF Work, Fits, HoldsSigner, HoldsPending, HoldsBuffers,
     CountsEntries, Running, InProcessMsg, Saving, AfterPayload, Initialising,
     AfterKeyLoad, SignerKinds
<1> HIDE DEF w, kinds
<1>5. Becomes(t, w)
  BY <1>2, <1>3, FreeBecomes DEF v
<1> QED
  BY <1>1, <1>3, <1>4, <1>5, Places, InsideAdvances DEF v

(* Every call that touches memory only advances its worker.                  *)
LEMMA MemoryStepAdvances ==
    ASSUME NEW t \in Workers, LifeInv, MemoryStep(t)
    PROVE  Advances(t)
BY LoadStateAdvances, DoActionAdvances, SignerInitAdvances, ProcessMsgAdvances,
   FreeWorkerAdvances, ReadFieldsAdvances, CheckPermsAdvances,
   StartChainAdvances, ProcessFinalAdvances, UpdateAdvances, SignAdvances,
   FreeSignerAdvances DEF MemoryStep

(* Nobody at work besides t, whose step may then change the files            *)
LEMMA WorkerKeepsInv ==
    ASSUME LifeInv, NEW t \in Workers, NEW w \in Work, Becomes(t, w),
           Fits(w, conf.cert), wk[t].pc # "out", w.pc # "out",
           AtWork(w) => AtWork(wk[t]),
           UNCHANGED <<conf, power, wrkr_count>>,
           AtWork(wk[t]) \/ UNCHANGED <<path, tmp>>,
           {LoadState(path'), LoadState(stable')} \subseteq State \cup {NoState},
           path' \notin {NoFile, stable'} =>
               LoadState(path') # NoState /\ path' = StateLines(LoadState(path')),
           w.pc = "rename" =>
               /\ w.seq = wk[t].seq /\ w.msg_count = wk[t].msg_count
               /\ tmp' = StateLines(StateOf(t)),
           w.pending # NoState => LoadState(path') = w.pending
    PROVE  LifeInv'
<1>1. /\ wk' = [wk EXCEPT ![t] = w] /\ wk \in [Workers -> Work]
      /\ heap' = [heap EXCEPT ![t] = [k \in Kinds |-> IF k \in w.ptr THEN 1 ELSE 0]]
      /\ heap \in [Workers -> [Kinds -> Int]]
      /\ conf' = conf /\ power' = power /\ wrkr_count' = wrkr_count
  BY DEF Becomes, LifeInv, LifeTypeOK, Work, envVars
<1>2. /\ wk'[t] = w
      /\ \A u \in Workers : u # t => wk'[u] = wk[u] /\ heap'[u] = heap[u]
      /\ heap'[t] = [k \in Kinds |-> IF k \in w.ptr THEN 1 ELSE 0]
  BY <1>1
<1>3. LifeTypeOK'
  <2>1. wk' \in [Workers -> Work]
    BY <1>1
  <2>2. heap' \in [Workers -> [Kinds -> Int]]
    BY <1>1
  <2> QED BY <1>1, <2>1, <2>2 DEF LifeInv, LifeTypeOK, Work
<1>4. HeapIsOwned'
  BY <1>2 DEF LifeInv, HeapIsOwned
<1>5. CountsWorkers'
  <2>1. {u \in Workers : wk'[u].pc # "out"} = {u \in Workers : wk[u].pc # "out"}
    BY <1>2
  <2> QED BY <1>1, <2>1 DEF LifeInv, CountsWorkers
<1>6. AllFit'
  BY <1>1, <1>2 DEF LifeInv, AllFit
<1>7. OneAtWork'
  BY <1>2 DEF LifeInv, OneAtWork
<1>8. FilesFit'
  <2>1. ASSUME NEW u \in Workers
        PROVE  /\ wk'[u].pc = "rename" => tmp' = StateLines(StateOf(u)')
               /\ wk'[u].pending # NoState => LoadState(path') = wk'[u].pending
    <3>1. CASE u = t
      <4>1. w.pc = "rename" => StateOf(t)' = StateOf(t)
        BY <1>1, <1>2 DEF StateOf
      <4> QED BY <1>2, <3>1, <4>1
    <3>2. CASE u # t /\ ~AtWork(wk[u])
      BY <1>2, <3>2 DEF AtWork
    <3>3. CASE u # t /\ AtWork(wk[u])
      <4>1. UNCHANGED <<path, tmp>>
        BY <3>3 DEF LifeInv, OneAtWork
      <4>2. LoadState(path') = LoadState(path)
        BY <4>1
      <4>3. StateOf(u)' = StateOf(u)
        BY <1>1, <1>2, <3>3 DEF StateOf
      <4> QED BY <1>2, <3>3, <4>1, <4>2, <4>3 DEF LifeInv, FilesFit
    <3> QED BY <3>1, <3>2, <3>3
  <2> QED BY <2>1 DEF FilesFit
<1> QED
  BY <1>3, <1>4, <1>5, <1>6, <1>7, <1>8 DEF LifeInv

(* A step in memory keeps the invariant.                                     *)
LEMMA MemoryStepKeepsInv ==
    ASSUME LifeInv, NEW t \in Workers, MemoryStep(t)
    PROVE  LifeInv'
<1>1. PICK w \in Work :
        /\ Becomes(t, w) /\ Fits(w, conf.cert)
        /\ wk[t].pc # "out" /\ w.pc \notin {"out", "rename"}
        /\ AtWork(w) => AtWork(wk[t])
        /\ w.pending # NoState => LoadState(path) = w.pending
  BY MemoryStepAdvances DEF Advances
<1>2. UNCHANGED <<conf, power, wrkr_count>>
  BY DEF MemoryStep, envVars
<1>3. path' = path /\ tmp' = tmp /\ stable' = stable
  BY DEF MemoryStep, fileVars
<1>4. LoadState(path') = LoadState(path) /\ LoadState(stable') = LoadState(stable)
  BY <1>3
<1>5. /\ {LoadState(path'), LoadState(stable')} \subseteq State \cup {NoState}
      /\ path' \notin {NoFile, stable'} =>
           LoadState(path') # NoState /\ path' = StateLines(LoadState(path'))
  BY <1>3, <1>4 DEF LifeInv, FilesFit
<1> QED
  BY <1>1, <1>2, <1>3, <1>4, <1>5, WorkerKeepsInv

(* What save_state prints is a tail.                                         *)
LEMMA TailIsState ==
    ASSUME LifeInv, NEW t \in Workers, wk[t].msg_count > 0
    PROVE  StateOf(t) \in State
<1>1. conf \in Conf
  BY LifeAssumption DEF LifeInv, LifeTypeOK
<1>2. /\ wk[t].seq \in Nat /\ wk[t].msg_count \in Nat
      /\ wk[t].msg_count <= wk[t].seq
  BY OneWorker DEF Work, Fits, CountsEntries
<1>3. wk[t].seq - 1 \in Nat /\ wk[t].seq - wk[t].msg_count \in Nat
  BY <1>2
<1> QED
  BY <1>1, <1>2, <1>3 DEF StateOf, State, Hash, Conf

(* What is known of the files, as long as path and stable stay               *)
LEMMA SameFiles ==
    ASSUME LifeInv, UNCHANGED <<path, stable>>
    PROVE  /\ LoadState(path') = LoadState(path)
           /\ {LoadState(path'), LoadState(stable')} \subseteq State \cup {NoState}
           /\ path' \notin {NoFile, stable'} =>
                LoadState(path') # NoState /\ path' = StateLines(LoadState(path'))
BY DEF LifeInv, FilesFit

(* delete_state keeps the invariant, whether unlink fails or not.            *)
LEMMA DeleteStateKeepsInv ==
    ASSUME LifeInv, NEW t \in Workers, DeleteState(t), UNCHANGED <<conf, power, wrkr_count>>
    PROVE  LifeInv'
<1> DEFINE v == wk[t]
           w == [v EXCEPT !.pc = IF v.signed THEN "new sd" ELSE "update",
                          !.pending = NoState, !.signed = FALSE]
<1>1. v \in Work /\ Fits(v, conf.cert) /\ v.pc = "delete"
  BY OneWorker DEF DeleteState
<1>2. wk' = [wk EXCEPT ![t] = w] /\ UNCHANGED <<heap, tmp, stable>>
  BY DEF DeleteState, LifeInv, LifeTypeOK
<1> HIDE DEF v
<1>3. /\ w \in Work /\ w.pc \in {"new sd", "update"} /\ w.pending = NoState
      /\ w.ptr = v.ptr
  BY <1>1, Places DEF Work, Inside
<1>4. Fits(w, conf.cert)
  BY <1>1, <1>3 DEF Work, Fits, HoldsSigner, HoldsPending, HoldsBuffers,
     CountsEntries, Running, InProcessMsg, Saving, AfterPayload, Initialising,
     AfterKeyLoad
<1> HIDE DEF w
<1>5. Becomes(t, w)
  BY <1>2, <1>3, KeepBecomes DEF v
<1>6. AtWork(wk[t])
  BY <1>1 DEF AtWork, v
<1>7. CASE path' = path
  BY <1>1, <1>2, <1>3, <1>4, <1>5, <1>6, <1>7, SameFiles, WorkerKeepsInv DEF v
<1>8. CASE path' = NoFile
  <2>1. LoadState(path') = NoState
    BY <1>8 DEF LoadState, Loads
  <2>2. LoadState(stable') \in State \cup {NoState}
    BY <1>2 DEF LifeInv, FilesFit
  <2> QED BY <1>1, <1>2, <1>3, <1>4, <1>5, <1>6, <1>8, <2>1, <2>2,
             WorkerKeepsInv DEF v
<1> QED
  BY <1>7, <1>8 DEF DeleteState

(* A move between the calls of save_state, short of the rename               *)
LEMMA SavingMoveKeepsInv ==
    ASSUME LifeInv, NEW t \in Workers, NEW next \in PCs, next # "out",
           NEW held \in SUBSET Kinds, Becomes(t, At(wk[t], next, held)),
           Fits(At(wk[t], next, held), conf.cert), wk[t].pc \in Saving,
           UNCHANGED <<conf, power, wrkr_count>>, path' = path, stable' = stable,
           next = "rename" => tmp' = StateLines(StateOf(t))
    PROVE  LifeInv'
<1> DEFINE w == At(wk[t], next, held)
<1>1. /\ w \in Work /\ w.pc = next /\ w.pending = wk[t].pending
      /\ w.seq = wk[t].seq /\ w.msg_count = wk[t].msg_count
  BY OneWorker DEF Work, At
<1>2. wk[t].pc # "out" /\ AtWork(wk[t])
  BY DEF Saving, AtWork
<1>3. wk[t].pending # NoState => LoadState(path') = wk[t].pending
  BY SameFiles DEF LifeInv, FilesFit
<1>4. Becomes(t, w) /\ Fits(w, conf.cert)
  OBVIOUS
<1>5. /\ {LoadState(path'), LoadState(stable')} \subseteq State \cup {NoState}
      /\ path' \notin {NoFile, stable'} =>
           LoadState(path') # NoState /\ path' = StateLines(LoadState(path'))
  BY SameFiles
<1> HIDE DEF w
<1> QED
  BY <1>1, <1>2, <1>3, <1>4, <1>5, WorkerKeepsInv

(* fopen, fclose and the unlink of the temporary file                        *)
LEMMA TmpStepKeepsInv ==
    ASSUME LifeInv, NEW t \in Workers, UNCHANGED <<conf, power, wrkr_count>>,
           OpenTmp(t) \/ CloseTmp(t) \/ UnlinkTmp(t)
    PROVE  LifeInv'
<1> DEFINE v == wk[t]
           cert == conf.cert
<1>0. v \in Work /\ cert \in BOOLEAN /\ Fits(v, cert)
  BY OneWorker
<1> HIDE DEF v, cert
<1> USE DEF Goes, Gets, Frees, At, Work, Fits, HoldsSigner, HoldsPending,
   HoldsBuffers, CountsEntries, Running, InProcessMsg, Saving, AfterPayload,
   Initialising, AfterKeyLoad
<1>1. v.pc = "open tmp" => Gets(v, "close tmp", "FILE", cert)
  BY <1>0
<1>2. v.pc = "open tmp" => Goes(v, "free signer", cert)
  BY <1>0
<1>3. v.pc = "close tmp" => Frees(v, "rename", {"FILE"}, cert)
  BY <1>0
<1>4. v.pc = "close tmp" => Frees(v, "unlink tmp", {"FILE"}, cert)
  BY <1>0
<1>5. v.pc = "unlink tmp" => Goes(v, "free signer", cert)
  BY <1>0
<1>6. v.ptr \in SUBSET Kinds
  BY <1>0
<1> HIDE DEF Goes, Gets, Frees, At, Work, Fits, HoldsSigner, HoldsPending,
   HoldsBuffers, CountsEntries, Running, InProcessMsg, Saving, AfterPayload,
   Initialising, AfterKeyLoad
<1>7. /\ v.ptr \cup {"FILE"} \in SUBSET Kinds /\ v.ptr \ {"FILE"} \in SUBSET Kinds
  BY <1>6, Places
<1> "close tmp" \in PCs /\ "rename" \in PCs /\ "unlink tmp" \in PCs
    /\ "free signer" \in PCs
  BY DEF PCs
<1> "open tmp" \in Saving /\ "close tmp" \in Saving /\ "unlink tmp" \in Saving
  BY DEF Saving
<1>8. CASE Acquire(t, "open tmp", "FILE", "close tmp")
           /\ UNCHANGED <<path, stable>>
  <2>1. v.pc = "open tmp" /\ Becomes(t, At(v, "close tmp", v.ptr \cup {"FILE"}))
    BY <1>1, <1>8, Places, AcquireBecomes DEF Gets, Acquire, v
  <2>2. Fits(At(v, "close tmp", v.ptr \cup {"FILE"}), cert)
    BY <1>1, <2>1 DEF Gets
  <2> QED BY <1>7, <1>8, <2>1, <2>2, SavingMoveKeepsInv DEF v, cert
<1>9. CASE \E at \in {"open tmp", "unlink tmp"} :
               Call(t, at, "free signer") /\ UNCHANGED <<path, stable>>
  <2>1. /\ v.pc \in {"open tmp", "unlink tmp"}
        /\ Becomes(t, At(v, "free signer", v.ptr))
    BY <1>9, CallBecomes DEF v
  <2>2. Fits(At(v, "free signer", v.ptr), cert)
    BY <1>2, <1>5, <2>1 DEF Goes
  <2> QED BY <1>6, <1>7, <1>9, <2>1, <2>2, SavingMoveKeepsInv DEF v, cert
<1>10. CASE Release(t, "close tmp", {"FILE"}, "unlink tmp")
            /\ UNCHANGED <<path, stable>>
  <2>1. v.pc = "close tmp" /\ Becomes(t, At(v, "unlink tmp", v.ptr \ {"FILE"}))
    BY <1>10, ReleaseBecomes DEF v
  <2>2. Fits(At(v, "unlink tmp", v.ptr \ {"FILE"}), cert)
    BY <1>4, <2>1 DEF Frees
  <2> QED BY <1>7, <1>10, <2>1, <2>2, SavingMoveKeepsInv DEF v, cert
<1>11. CASE /\ Release(t, "close tmp", {"FILE"}, "rename")
            /\ tmp' = StateLines(StateOf(t)) /\ UNCHANGED <<path, stable>>
  <2>1. v.pc = "close tmp" /\ Becomes(t, At(v, "rename", v.ptr \ {"FILE"}))
    BY <1>11, ReleaseBecomes DEF v
  <2>2. Fits(At(v, "rename", v.ptr \ {"FILE"}), cert)
    BY <1>3, <2>1 DEF Frees
  <2> QED BY <1>7, <1>11, <2>1, <2>2, SavingMoveKeepsInv DEF v, cert
<1> QED
  BY <1>8, <1>9, <1>10, <1>11 DEF OpenTmp, CloseTmp, UnlinkTmp, fileVars

(* rename puts the whole tail in its place, or leaves the file it found.     *)
LEMMA RenameKeepsInv ==
    ASSUME LifeInv, NEW t \in Workers, Rename(t), UNCHANGED <<conf, power, wrkr_count>>
    PROVE  LifeInv'
<1> DEFINE v == wk[t]
           cert == conf.cert
           w == At(v, "free signer", v.ptr)
<1>0. v \in Work /\ cert \in BOOLEAN /\ Fits(v, cert) /\ v.pc = "rename"
  BY OneWorker DEF Rename, Call
<1> HIDE DEF v, cert
<1>1. Goes(v, "free signer", cert) /\ Goes(v, "unlink tmp", cert)
  BY <1>0 DEF Goes, At, Work, Fits, HoldsSigner, HoldsPending, HoldsBuffers,
     CountsEntries, Running, InProcessMsg, Saving, AfterPayload, Initialising,
     AfterKeyLoad
<1>2. v.msg_count > 0 /\ v.pending = NoState /\ v.ptr \in SUBSET Kinds
  BY <1>0 DEF Work, Fits, CountsEntries, HoldsPending, Saving
<1>3. CASE Call(t, "rename", "unlink tmp") /\ UNCHANGED fileVars
  <2>1. Becomes(t, At(v, "unlink tmp", v.ptr))
    BY <1>3, CallBecomes DEF v
  <2>2. /\ "rename" \in Saving /\ "unlink tmp" \in PCs
        /\ path' = path /\ stable' = stable
    BY <1>3 DEF Saving, PCs, fileVars
  <2> QED BY <1>0, <1>1, <1>2, <2>1, <2>2, SavingMoveKeepsInv
             DEF Goes, v, cert
<1>4. CASE /\ Call(t, "rename", "free signer")
           /\ path' = tmp /\ tmp' = NoFile /\ UNCHANGED stable
  <2>1. Becomes(t, w)
    BY <1>4, CallBecomes DEF v
  <2>2. w \in Work /\ w.pc = "free signer" /\ w.pending = NoState
    BY <1>0, <1>2, Places DEF At, Work, Inside
  <2>3. path' = StateLines(StateOf(t)) /\ StateOf(t) \in State
    BY <1>0, <1>2, <1>4, TailIsState DEF LifeInv, FilesFit, v
  <2>4. LoadState(path') = StateOf(t)
    BY <2>3, StateRoundTrip
  <2>5. LoadState(stable') \in State \cup {NoState}
    BY <1>4 DEF LifeInv, FilesFit
  <2>6. StateOf(t) # NoState
    BY <2>3, StateTextAssumption
  <2>7. AtWork(wk[t])
    BY <1>0 DEF AtWork, v
  <2> HIDE DEF w
  <2> QED BY <1>0, <1>1, <2>1, <2>2, <2>3, <2>4, <2>5, <2>6, <2>7,
             WorkerKeepsInv DEF Goes, v, w, cert
<1> QED
  BY <1>3, <1>4 DEF Rename

(* A step on one of the state files keeps the invariant.                     *)
LEMMA FileStepKeepsInv ==
    ASSUME LifeInv, NEW t \in Workers, FileStep(t)
    PROVE  LifeInv'
<1>1. UNCHANGED <<conf, power, wrkr_count>>
  BY DEF FileStep, envVars
<1> QED
  BY <1>1, DeleteStateKeepsInv, TmpStepKeepsInv, RenameKeepsInv DEF FileStep

(* The workers there are                                                     *)
Present == {t \in Workers : wk[t].pc # "out"}

(* A worker that is out holds nothing, and nobody is present when the count  *)
(* is zero.                                                                  *)
LEMMA CountIsPresent ==
    ASSUME LifeInv
    PROVE  /\ IsFiniteSet(Present) /\ wrkr_count = Cardinality(Present)
           /\ wrkr_count \in Nat
           /\ wrkr_count = 0 => \A t \in Workers : ~AtWork(wk[t])
<1>1. IsFiniteSet(Present) /\ wrkr_count = Cardinality(Present)
  BY LifeAssumption, FS_Subset DEF Present, LifeInv, CountsWorkers
<1>2. wrkr_count = 0 => \A t \in Workers : wk[t].pc = "out"
  BY <1>1, FS_EmptySet DEF Present
<1>3. ASSUME NEW t \in Workers, wk[t].pc = "out" PROVE ~AtWork(wk[t])
  <2>1. wk[t].pending = NoState
    BY <1>3, OneWorker DEF Fits, HoldsPending
  <2> QED BY <1>3, <2>1 DEF AtWork
<1> QED
  BY <1>1, <1>2, <1>3 DEF LifeInv, LifeTypeOK

(* createWrkrInstance admits a worker only where there is none.              *)
LEMMA CreateWorkerKeepsInv ==
    ASSUME LifeInv, NEW t \in Workers, CreateWorker(t), UNCHANGED fileVars
    PROVE  LifeInv'
<1> DEFINE v == wk[t]
           next == IF wrkr_count' > 1 THEN "rejected" ELSE "open state"
           w == At(v, next, v.ptr)
<1>1. v.pc = "out" /\ Becomes(t, w)
  BY CallBecomes DEF CreateWorker
<1>2. /\ wrkr_count' = wrkr_count + 1 /\ conf' = conf /\ power' = power
      /\ path' = path /\ tmp' = tmp /\ stable' = stable
  BY DEF CreateWorker, fileVars
<1>3. v \in Work /\ Fits(v, conf.cert)
  BY OneWorker
<1>4. next \in {"rejected", "open state"}
  OBVIOUS
<1>5. next = "open state" => wrkr_count = 0
  <2>1. wrkr_count \in Nat
    BY CountIsPresent
  <2> QED BY <1>2, <2>1
<1> HIDE DEF v, next
<1>6. /\ w \in Work /\ w.pc = next /\ w.pending = NoState /\ w.ptr = v.ptr
      /\ v.pending = NoState
  BY <1>1, <1>3, <1>4, Places DEF At, Work, Inside, Fits, HoldsPending
<1>7. Fits(w, conf.cert)
  BY <1>1, <1>3, <1>4, <1>6 DEF At, Work, Fits, HoldsSigner, HoldsPending,
     HoldsBuffers, CountsEntries, Running, InProcessMsg, Saving, AfterPayload,
     Initialising, AfterKeyLoad
<1> HIDE DEF w
<1>8. /\ wk' = [wk EXCEPT ![t] = w] /\ wk \in [Workers -> Work]
      /\ heap' = [heap EXCEPT ![t] = [k \in Kinds |-> IF k \in w.ptr THEN 1 ELSE 0]]
      /\ heap \in [Workers -> [Kinds -> Int]]
  BY <1>1 DEF Becomes, LifeInv, LifeTypeOK, Work
<1>9. /\ wk'[t] = w
      /\ \A u \in Workers : u # t => wk'[u] = wk[u] /\ heap'[u] = heap[u]
      /\ heap'[t] = [k \in Kinds |-> IF k \in w.ptr THEN 1 ELSE 0]
  BY <1>8
<1>10. LifeTypeOK'
  <2>1. wk' \in [Workers -> Work] /\ heap' \in [Workers -> [Kinds -> Int]]
    BY <1>6, <1>8
  <2>2. wrkr_count' \in Nat
    BY <1>2, CountIsPresent
  <2> QED BY <1>2, <2>1, <2>2 DEF LifeInv, LifeTypeOK, Work
<1>11. HeapIsOwned'
  BY <1>9 DEF LifeInv, HeapIsOwned
<1>12. CountsWorkers'
  <2>1. {u \in Workers : wk'[u].pc # "out"} = Present \cup {t} /\ t \notin Present
    BY <1>1, <1>4, <1>6, <1>9 DEF Present, v
  <2>2. IsFiniteSet(Present) /\ Cardinality(Present) = wrkr_count
    BY CountIsPresent
  <2>3. Cardinality(Present \cup {t}) = Cardinality(Present) + 1
    BY <2>1, <2>2, FS_AddElement
  <2> QED BY <1>2, <2>1, <2>2, <2>3 DEF CountsWorkers
<1>13. AllFit'
  BY <1>2, <1>7, <1>9 DEF LifeInv, AllFit
<1>14. OneAtWork'
  <2>1. AtWork(w) => next = "open state"
    BY <1>4, <1>6 DEF AtWork
  <2> QED BY <1>5, <1>9, <2>1, CountIsPresent DEF LifeInv, OneAtWork
<1>15. FilesFit'
  <2>1. ASSUME NEW u \in Workers
        PROVE  /\ wk'[u].pc = "rename" => tmp' = StateLines(StateOf(u)')
               /\ wk'[u].pending # NoState => LoadState(path') = wk'[u].pending
    <3>1. CASE u = t
      BY <1>4, <1>6, <1>9, <3>1
    <3>2. CASE u # t
      <4>1. StateOf(u)' = StateOf(u)
        BY <1>2, <1>9, <3>2 DEF StateOf
      <4> QED BY <1>2, <1>9, <3>2, <4>1 DEF LifeInv, FilesFit
    <3> QED BY <3>1, <3>2
  <2> QED BY <1>2, <2>1 DEF LifeInv, FilesFit
<1> QED
  BY <1>10, <1>11, <1>12, <1>13, <1>14, <1>15 DEF LifeInv

(* Before it is admitted and when it leaves, a worker holds nothing.         *)
LEMMA HoldsNothing ==
    ASSUME LifeInv, NEW t \in Workers, wk[t].pc \in {"out", "rejected", "leave"}
    PROVE  wk[t].ptr = {}
<1> DEFINE v == wk[t]
<1>1. v \in Work /\ Fits(v, conf.cert) /\ v.pc \in {"out", "rejected", "leave"}
  BY OneWorker
<1> HIDE DEF v
<1>2. "privkey" \notin v.ptr /\ "cert" \notin v.ptr /\ "cert_der" \notin v.ptr
  BY <1>1 DEF Fits, HoldsSigner, Running, InProcessMsg, Saving, AfterKeyLoad
<1>3. "pending_state" \notin v.ptr
  BY <1>1 DEF Fits, HoldsPending
<1>4. /\ "FILE" \notin v.ptr /\ "stripped_sd" \notin v.ptr
      /\ "cleaned_sd" \notin v.ptr /\ "payload" \notin v.ptr
      /\ "new_sd" \notin v.ptr /\ "cert_pub" \notin v.ptr /\ "b64" \notin v.ptr
  BY <1>1 DEF Fits, HoldsBuffers, AfterPayload, InProcessMsg, Initialising,
     AfterKeyLoad
<1>5. v.ptr \subseteq Kinds
  BY <1>1 DEF Work
<1> QED
  BY <1>2, <1>3, <1>4, <1>5 DEF Kinds, SignerKinds, BufferKinds, v

(* A worker that leaves holds nothing any more.                              *)
LEMMA LeaveKeepsInv ==
    ASSUME LifeInv, NEW t \in Workers, Leave(t), UNCHANGED fileVars
    PROVE  LifeInv'
<1>1. /\ wk[t].pc = "leave" /\ wk' = [wk EXCEPT ![t] = NoWork]
      /\ conf' = conf /\ power' = power /\ heap' = heap
      /\ path' = path /\ tmp' = tmp /\ stable' = stable
      /\ wk \in [Workers -> Work]
  BY DEF Leave, fileVars, LifeInv, LifeTypeOK, Work
<1>2. wk'[t] = NoWork /\ \A u \in Workers : u # t => wk'[u] = wk[u]
  BY <1>1
<1>3. wk[t].ptr = {}
  BY <1>1, HoldsNothing
<1>4. /\ NoWork \in Work /\ NoWork.pc = "out" /\ NoWork.pending = NoState
      /\ NoWork.ptr = {}
  BY DEF NoWork, Work, PCs
<1>5. Fits(NoWork, conf.cert)
  BY DEF NoWork, Fits, HoldsSigner, HoldsPending, HoldsBuffers, CountsEntries,
     Running, InProcessMsg, Saving, AfterPayload, Initialising, AfterKeyLoad
<1>6. wrkr_count' = wrkr_count - 1 /\ wrkr_count' \in Nat /\ CountsWorkers'
  <2>1. t \in Present
    BY <1>1 DEF Present
  <2>2. {u \in Workers : wk'[u].pc # "out"} = Present \ {t}
    BY <1>1, <1>2, <1>4 DEF Present
  <2>3. /\ IsFiniteSet(Present \ {t})
        /\ Cardinality(Present \ {t}) = Cardinality(Present) - 1
    BY <2>1, CountIsPresent, FS_RemoveElement
  <2>4. Cardinality(Present \ {t}) \in Nat
    BY <2>3, FS_CardinalityType
  <2>5. wrkr_count > 0 /\ wrkr_count' = wrkr_count - 1
    BY <2>3, <2>4, CountIsPresent DEF Leave
  <2> QED BY <2>2, <2>3, <2>4, <2>5, CountIsPresent DEF CountsWorkers
<1>7. LifeTypeOK'
  <2>1. wk' \in [Workers -> Work]
    BY <1>1, <1>4
  <2> QED BY <1>1, <1>6, <2>1 DEF LifeInv, LifeTypeOK, Work
<1>8. HeapIsOwned'
  BY <1>1, <1>2, <1>3, <1>4 DEF LifeInv, HeapIsOwned
<1>9. AllFit'
  BY <1>1, <1>2, <1>5 DEF LifeInv, AllFit
<1>10. OneAtWork'
  BY <1>2, <1>4 DEF LifeInv, OneAtWork, AtWork
<1>11. FilesFit'
  <2>1. ASSUME NEW u \in Workers
        PROVE  /\ wk'[u].pc = "rename" => tmp' = StateLines(StateOf(u)')
               /\ wk'[u].pending # NoState => LoadState(path') = wk'[u].pending
    <3>1. CASE u = t
      BY <1>2, <1>4, <3>1
    <3>2. CASE u # t
      <4>1. StateOf(u)' = StateOf(u)
        BY <1>1, <1>2, <3>2 DEF StateOf
      <4> QED BY <1>1, <1>2, <3>2, <4>1 DEF LifeInv, FilesFit
    <3> QED BY <3>1, <3>2
  <2> QED BY <1>1, <2>1 DEF LifeInv, FilesFit
<1> QED
  BY <1>6, <1>7, <1>8, <1>9, <1>10, <1>11 DEF LifeInv

(* Whatever ends the process, every worker is gone with its memory.          *)
LEMMA ProcessEndsKeepsInv ==
    ASSUME LifeInv, ProcessEnds, conf' = conf, power' \in {"on", "off"},
           {LoadState(path'), LoadState(stable')} \subseteq State \cup {NoState},
           path' \notin {NoFile, stable'} =>
               LoadState(path') # NoState /\ path' = StateLines(LoadState(path'))
    PROVE  LifeInv'
<1>1. /\ wk' = [t \in Workers |-> NoWork] /\ wrkr_count' = 0
      /\ heap' = [t \in Workers |-> [k \in Kinds |-> 0]]
  BY DEF ProcessEnds, Nothing
<1>2. /\ NoWork \in Work /\ NoWork.pc = "out" /\ NoWork.pending = NoState
      /\ NoWork.ptr = {}
  BY DEF NoWork, Work, PCs
<1>3. Fits(NoWork, conf.cert)
  BY DEF NoWork, Fits, HoldsSigner, HoldsPending, HoldsBuffers, CountsEntries,
     Running, InProcessMsg, Saving, AfterPayload, Initialising, AfterKeyLoad
<1>4. LifeTypeOK'
  BY <1>1, <1>2 DEF LifeInv, LifeTypeOK, Work
<1>5. HeapIsOwned' /\ AllFit' /\ OneAtWork'
  BY <1>1, <1>2, <1>3 DEF HeapIsOwned, AllFit, OneAtWork, AtWork
<1>6. CountsWorkers'
  <2>1. {t \in Workers : wk'[t].pc # "out"} = {}
    BY <1>1, <1>2
  <2> QED BY <1>1, <2>1, FS_EmptySet DEF CountsWorkers
<1>7. FilesFit'
  BY <1>1, <1>2 DEF FilesFit
<1> QED
  BY <1>4, <1>5, <1>6, <1>7 DEF LifeInv

(* What a power failure leaves of a file not yet written back is the tail    *)
(* or nothing load_state accepts.                                            *)
LEMMA PowerFailsReads ==
    ASSUME LifeInv, PowerFails
    PROVE  LoadState(path') \in {LoadState(path), LoadState(stable), NoState}
<1>1. CASE path' \in {stable, path}
  BY <1>1
<1>2. CASE path \notin {NoFile, stable} /\ path' \in TornImages(path)
  <2>1. LoadState(path) \in State /\ path = StateLines(LoadState(path))
    BY <1>2 DEF LifeInv, FilesFit
  <2> QED BY <1>2, <2>1, TornRefused
<1> QED
  BY <1>1, <1>2 DEF PowerFails

(* Steps of the machine and of the operator keep the invariant.              *)
LEMMA MachineKeepsInv ==
    ASSUME LifeInv, Kill \/ PowerFails \/ PowerReturns \/ WriteBack \/ Reconfigure
    PROVE  LifeInv'
<1>0. /\ {LoadState(path), LoadState(stable)} \subseteq State \cup {NoState}
      /\ path \notin {NoFile, stable} =>
           LoadState(path) # NoState /\ path = StateLines(LoadState(path))
      /\ power \in {"on", "off"}
  BY DEF LifeInv, FilesFit, LifeTypeOK
<1>1. CASE Kill
  <2>1. /\ ProcessEnds /\ conf' = conf /\ power' = power
        /\ path' = path /\ stable' = stable
    BY <1>1 DEF Kill
  <2> QED BY <1>0, <2>1, ProcessEndsKeepsInv
<1>2. CASE PowerFails
  <2>1. ProcessEnds /\ conf' = conf /\ power' = "off" /\ stable' = path'
    BY <1>2 DEF PowerFails
  <2>2. LoadState(path') \in State \cup {NoState}
    BY <1>0, <1>2, PowerFailsReads
  <2> QED BY <2>1, <2>2, ProcessEndsKeepsInv
<1>3. CASE PowerReturns
  <2>1. /\ power' = "on" /\ conf' = conf /\ wrkr_count' = wrkr_count
        /\ wk' = wk /\ heap' = heap
        /\ path' = path /\ tmp' = tmp /\ stable' = stable
    BY <1>3 DEF PowerReturns, fileVars
  <2> QED BY <2>1 DEF LifeInv, LifeTypeOK, HeapIsOwned, CountsWorkers, AllFit,
             OneAtWork, FilesFit, StateOf
<1>4. CASE WriteBack
  <2>1. /\ power' = power /\ conf' = conf /\ wrkr_count' = wrkr_count
        /\ wk' = wk /\ heap' = heap
        /\ path' = path /\ tmp' = tmp /\ stable' = path
    BY <1>4 DEF WriteBack, envVars
  <2> QED BY <1>0, <2>1 DEF LifeInv, LifeTypeOK, HeapIsOwned, CountsWorkers,
             AllFit, OneAtWork, FilesFit, StateOf
<1>5. CASE Reconfigure
  <2>1. /\ power' = power /\ conf' \in Confs /\ wrkr_count' = wrkr_count
        /\ wk' = wk /\ heap' = heap
        /\ path' = path /\ tmp' = tmp /\ stable' = stable
        /\ \A t \in Workers : wk[t].pc = "out"
    BY <1>5 DEF Reconfigure, Nobody, fileVars
  <2>2. AllFit'
    <3>1. ASSUME NEW t \in Workers PROVE Fits(wk[t], conf'.cert)
      <4>1. wk[t].pc = "out" /\ wk[t] \in Work /\ Fits(wk[t], conf.cert)
        BY <2>1, OneWorker
      <4> QED BY <4>1 DEF Work, Fits, HoldsSigner, Running, InProcessMsg,
                 Saving, AfterKeyLoad, Initialising
    <3> QED BY <2>1, <3>1 DEF AllFit
  <2>3. LifeTypeOK' /\ HeapIsOwned' /\ CountsWorkers' /\ OneAtWork'
    BY <2>1 DEF LifeInv, LifeTypeOK, HeapIsOwned, CountsWorkers, OneAtWork
  <2>4. FilesFit'
    BY <2>1 DEF LifeInv, FilesFit
  <2> QED BY <2>2, <2>3, <2>4 DEF LifeInv
<1> QED
  BY <1>1, <1>2, <1>3, <1>4, <1>5

(* An action that begins: no worker, no memory, a file of an earlier version *)
(* or none                                                                   *)
LEMMA LifeInitKeepsInv ==
    ASSUME LifeInit
    PROVE  LifeInv
<1>1. /\ wk = [t \in Workers |-> NoWork] /\ wrkr_count = 0
      /\ heap = [t \in Workers |-> [k \in Kinds |-> 0]]
      /\ conf \in Confs /\ power = "on" /\ stable = path
  BY DEF LifeInit, Nothing
<1>2. /\ NoWork \in Work /\ NoWork.pc = "out" /\ NoWork.pending = NoState
      /\ NoWork.ptr = {}
  BY DEF NoWork, Work, PCs
<1>3. Fits(NoWork, conf.cert)
  BY DEF NoWork, Fits, HoldsSigner, HoldsPending, HoldsBuffers, CountsEntries,
     Running, InProcessMsg, Saving, AfterPayload, Initialising, AfterKeyLoad
<1>4. LifeTypeOK
  BY <1>1, <1>2 DEF LifeTypeOK, Work
<1>5. HeapIsOwned /\ AllFit /\ OneAtWork
  BY <1>1, <1>2, <1>3 DEF HeapIsOwned, AllFit, OneAtWork, AtWork
<1>6. CountsWorkers
  <2>1. {t \in Workers : wk[t].pc # "out"} = {}
    BY <1>1, <1>2
  <2> QED BY <1>1, <2>1, FS_EmptySet DEF CountsWorkers
<1>7. LoadState(path) \in State \cup {NoState}
  <2>1. CASE path = NoFile
    BY <2>1 DEF LoadState, Loads
  <2>2. ASSUME NEW s \in OldStates, path = OldLines(s)
        PROVE  LoadState(path) \in State
    <3>1. s \in State
      BY LifeAssumption
    <3>2. LoadState(path) = [s EXCEPT !.alg = DefaultAlg]
      BY <2>2, <3>1, OldLayoutLoads
    <3> QED BY <3>1, <3>2, StateTextAssumption DEF State
  <2> QED BY <2>1, <2>2 DEF LifeInit
<1>8. FilesFit
  BY <1>1, <1>2, <1>7 DEF FilesFit
<1> QED
  BY <1>4, <1>5, <1>6, <1>8 DEF LifeInv

(* Every step keeps the invariant.                                           *)
LEMMA LifeNextKeepsInv ==
    LifeInv /\ [LifeNext]_lifeVars => LifeInv'
<1> SUFFICES ASSUME LifeInv, [LifeNext]_lifeVars PROVE LifeInv'
  OBVIOUS
<1>1. ASSUME NEW t \in Workers, MemoryStep(t) \/ FileStep(t) \/ CounterStep(t)
      PROVE  LifeInv'
  BY <1>1, MemoryStepKeepsInv, FileStepKeepsInv, CreateWorkerKeepsInv,
     LeaveKeepsInv DEF CounterStep
<1>2. CASE UNCHANGED lifeVars
  <2>1. /\ power' = power /\ conf' = conf /\ wrkr_count' = wrkr_count
        /\ wk' = wk /\ heap' = heap
        /\ path' = path /\ tmp' = tmp /\ stable' = stable
    BY <1>2 DEF lifeVars, envVars, fileVars
  <2> QED BY <2>1 DEF LifeInv, LifeTypeOK, HeapIsOwned, CountsWorkers, AllFit,
             OneAtWork, FilesFit, StateOf
<1> QED
  BY <1>1, <1>2, MachineKeepsInv DEF LifeNext

-----------------------------------------------------------------------------
(* The inductive invariant holds of every behaviour: whatever call fails,    *)
(* whenever the process or the machine stops, each call finds the worker     *)
(* holding what the calls before it left.                                    *)
THEOREM LifeInvariant == LifeSpec => []LifeInv
<1>1. LifeInit => LifeInv
  BY LifeInitKeepsInv
<1>2. LifeInv /\ [LifeNext]_lifeVars => LifeInv'
  BY LifeNextKeepsInv
<1> QED
  BY <1>1, <1>2, PTL DEF LifeSpec

(* Type correctness                                                          *)
THEOREM LifeTypeCorrect == LifeSpec => []LifeTypeOK
<1>1. LifeInv => LifeTypeOK
  BY DEF LifeInv
<1> QED
  BY <1>1, LifeInvariant, PTL

(* Nothing leaks, nothing is freed twice and nothing is used after it was    *)
(* freed, on any path of the worker's calls.                                 *)
THEOREM HeapAlwaysOwned == LifeSpec => []HeapIsOwned
<1>1. LifeInv => HeapIsOwned
  BY DEF LifeInv
<1> QED
  BY <1>1, LifeInvariant, PTL

(* wrkr_count is always the number of worker instances.                      *)
THEOREM WorkersCounted == LifeSpec => []CountsWorkers
<1>1. LifeInv => CountsWorkers
  BY DEF LifeInv
<1> QED
  BY <1>1, LifeInvariant, PTL

(* At most one worker at a time holds a chain.                               *)
THEOREM OneChain == LifeSpec => []AtMostOneChain
<1>1. ASSUME LifeInv PROVE AtMostOneChain
  <2> DEFINE S == {t \in Workers : wk[t].initialized}
  <2>1. ASSUME NEW t \in S, NEW u \in S PROVE t = u
    <3>1. AtWork(wk[t]) /\ AtWork(wk[u])
      <4>1. ASSUME NEW x \in S PROVE AtWork(wk[x])
        BY <1>1, OneWorker DEF Fits, HoldsSigner, Running, InProcessMsg, Saving,
           AtWork
      <4> QED BY <4>1
    <3> QED BY <1>1, <3>1 DEF LifeInv, OneAtWork
  <2>2. CASE S = {}
    BY <2>2, FS_EmptySet DEF AtMostOneChain
  <2>3. CASE S # {}
    <3>1. PICK t \in S : TRUE
      BY <2>3
    <3>2. S = {t}
      BY <2>1, <3>1
    <3>3. Cardinality(S) = 1
      BY <3>2, FS_Singleton
    <3> QED BY <3>3 DEF AtMostOneChain
  <2> QED BY <2>2, <2>3
<1> QED
  BY <1>1, LifeInvariant, PTL

(* Between two calls a worker holds its key, its certificate and its pending *)
(* state exactly while it has a use for them, and nothing of an earlier      *)
(* call.                                                                     *)
THEOREM RestsClean == LifeSpec => []RestsWithItsOwn
<1>1. ASSUME LifeInv, NEW t \in Workers, wk[t].pc = "idle"
      PROVE  /\ wk[t].ptr \ {"cert_der"} =
                  (IF wk[t].initialized
                   THEN {"privkey"} \cup IF conf.cert THEN {"cert"} ELSE {}
                   ELSE {}) \cup
                  (IF wk[t].pending = NoState THEN {} ELSE {"pending_state"})
             /\ "cert_der" \in wk[t].ptr => wk[t].initialized /\ conf.cert
  <2> DEFINE v == wk[t]
             cert == conf.cert
  <2>1. v \in Work /\ Fits(v, cert) /\ v.pc = "idle"
    BY <1>1, OneWorker
  <2> HIDE DEF v, cert
  <2>2. /\ "privkey" \in v.ptr <=> v.initialized
        /\ "cert" \in v.ptr <=> v.initialized /\ cert
        /\ "cert_der" \in v.ptr => v.initialized /\ cert
    BY <2>1 DEF Fits, HoldsSigner, AfterKeyLoad
  <2>3. "pending_state" \in v.ptr <=> v.pending # NoState
    BY <2>1 DEF Fits, HoldsPending
  <2>4. /\ "FILE" \notin v.ptr /\ "stripped_sd" \notin v.ptr
        /\ "cleaned_sd" \notin v.ptr /\ "payload" \notin v.ptr
        /\ "new_sd" \notin v.ptr /\ "cert_pub" \notin v.ptr
        /\ "b64" \notin v.ptr
    BY <2>1 DEF Fits, HoldsBuffers, AfterPayload, InProcessMsg, Initialising,
       AfterKeyLoad
  <2>5. v.ptr \subseteq Kinds
    BY <2>1 DEF Work
  <2> QED BY <2>2, <2>3, <2>4, <2>5 DEF Kinds, SignerKinds, BufferKinds, v, cert
<1>3. LifeInv => RestsWithItsOwn
  BY <1>1, HoldsNothing DEF RestsWithItsOwn
<1> QED
  BY <1>3, LifeInvariant, PTL

(***************************************************************************)
(* The files, with their system calls, kills and power failures, implement   *)
(* the one-step cell of StateFile.                                           *)
(***************************************************************************)


(* Only a worker at work has a tail to leave, or a pending state.            *)
LEMMA TailIsAtWork ==
    ASSUME LifeInv, NEW t \in Workers, HasTail(t) \/ wk[t].pending # NoState
    PROVE  AtWork(wk[t])
BY OneWorker DEF HasTail, Fits, HoldsSigner, Running, InProcessMsg, Saving, AtWork

(* The tail of the one worker that has one                                   *)
LEMMA TailOfWorker ==
    LifeInv => \A t \in Workers : HasTail(t) => TailOf = StateOf(t)
<1> SUFFICES ASSUME LifeInv, NEW t \in Workers, HasTail(t)
             PROVE  TailOf = StateOf(t)
  OBVIOUS
<1>1. {u \in Workers : HasTail(u)} = {t}
  BY TailIsAtWork DEF LifeInv, OneAtWork
<1>2. (CHOOSE u \in {t} : TRUE) = t
  OBVIOUS
<1> QED
  BY <1>1, <1>2 DEF TailOf

(* The type of the tail the running worker would leave                       *)
LEMMA TailOfType ==
    LifeInv => TailOf \in State \cup {NoState}
<1> SUFFICES ASSUME LifeInv PROVE TailOf \in State \cup {NoState}
  OBVIOUS
<1>1. CASE {t \in Workers : HasTail(t)} = {}
  BY <1>1 DEF TailOf
<1>2. ASSUME NEW t \in Workers, HasTail(t) PROVE TailOf \in State
  <2>1. TailOf = StateOf(t)
    BY <1>2, TailOfWorker
  <2>2. StateOf(t) \in State
    BY <1>2, TailIsState DEF HasTail
  <2> QED BY <2>1, <2>2
<1> QED
  BY <1>1, <1>2

(* What a worker has taken from the file is still what the file holds.       *)
LEMMA TakenIsStored ==
    LifeInv => /\ TakenState \in {NoState, LoadState(path)}
               /\ \A t \in Workers :
                      wk[t].pending # NoState => TakenState = wk[t].pending
<1> SUFFICES ASSUME LifeInv
             PROVE  /\ TakenState \in {NoState, LoadState(path)}
                    /\ \A t \in Workers :
                           wk[t].pending # NoState => TakenState = wk[t].pending
  OBVIOUS
<1> DEFINE ts == {t \in Workers : wk[t].pending # NoState}
<1>1. CASE ts = {}
  BY <1>1 DEF TakenState
<1>2. ASSUME NEW t \in Workers, wk[t].pending # NoState
      PROVE  TakenState = wk[t].pending /\ LoadState(path) = wk[t].pending
  <2>1. ts = {t}
    BY <1>2, TailIsAtWork DEF LifeInv, OneAtWork
  <2>2. (CHOOSE u \in {t} : TRUE) = t
    OBVIOUS
  <2>3. TakenState = wk[t].pending
    BY <2>1, <2>2 DEF TakenState
  <2> QED BY <1>2, <2>3 DEF LifeInv, FilesFit
<1> QED
  BY <1>1, <1>2

(* The same of the next state                                                *)
LEMMA NextTail ==
    ASSUME LifeInv'
    PROVE  /\ TailOf' \in State \cup {NoState}
           /\ TakenState' \in {NoState, LoadState(path')}
           /\ \A t \in Workers : HasTail(t)' => TailOf' = StateOf(t)'
<1>1. (LifeInv => TailOf \in State \cup {NoState})'
  BY TailOfType, PTL
<1>2. (LifeInv => /\ TakenState \in {NoState, LoadState(path)}
                  /\ \A t \in Workers :
                         wk[t].pending # NoState => TakenState = wk[t].pending)'
  BY TakenIsStored, PTL
<1>3. (LifeInv => \A t \in Workers : HasTail(t) => TailOf = StateOf(t))'
  BY TailOfWorker, PTL
<1> QED
  BY <1>1, <1>2, <1>3

(* A step that leaves the file and the power alone is work in memory.        *)
LEMMA QuietStepWorks ==
    ASSUME LifeInv', path' = path, stable' = stable, power' = power
    PROVE  SF!Work
<1>1. LoadState(path)' = LoadState(path) /\ LoadState(stable)' = LoadState(stable)
  OBVIOUS
<1>2. TailOf' \in State \cup {NoState} /\ TakenState' \in {NoState, LoadState(path)}
  BY <1>1, NextTail
<1> QED
  BY <1>1, <1>2 DEF SF!Work

(* rename leaves the whole tail.                                             *)
LEMMA RenameLeaves ==
    ASSUME LifeInv, LifeInv', NEW t \in Workers, Rename(t),
           UNCHANGED <<conf, power, wrkr_count>>
    PROVE  SF!Work \/ SF!Leave
<1>1. CASE UNCHANGED fileVars
  BY <1>1, QuietStepWorks DEF fileVars
<1>2. CASE /\ Call(t, "rename", "free signer")
           /\ path' = tmp /\ tmp' = NoFile /\ UNCHANGED stable
  <2>1. /\ wk[t] \in Work /\ Fits(wk[t], conf.cert) /\ wk[t].pc = "rename"
        /\ wk \in [Workers -> Work]
    BY <1>2, OneWorker DEF Call, LifeInv, LifeTypeOK, Work
  <2>2. /\ wk[t].initialized /\ wk[t].msg_count > 0 /\ wk[t].pending = NoState
    BY <2>1 DEF Work, Fits, CountsEntries, HoldsPending, Saving
  <2>3. wk' = [wk EXCEPT ![t] = [wk[t] EXCEPT !.pc = "free signer"]]
    BY <1>2, <2>1 DEF Call
  <2>4. /\ wk'[t].initialized = wk[t].initialized /\ wk'[t].seq = wk[t].seq
        /\ wk'[t].msg_count = wk[t].msg_count
        /\ wk'[t].pending = wk[t].pending
        /\ \A u \in Workers : u # t => wk'[u] = wk[u]
    BY <2>1, <2>3 DEF Work
  <2>5. /\ HasTail(t) /\ HasTail(t)' /\ StateOf(t)' = StateOf(t)
    BY <2>2, <2>4 DEF HasTail, StateOf
  <2>6. TailOf = StateOf(t) /\ TailOf' = StateOf(t) /\ StateOf(t) \in State
    BY <2>2, <2>5, TailOfWorker, NextTail, TailIsState
  <2>7. path' = StateLines(StateOf(t)) /\ LoadState(path') = StateOf(t)
    BY <1>2, <2>1, <2>6, StateRoundTrip DEF LifeInv, FilesFit
  <2>8. \A u \in Workers : wk[u].pending = NoState /\ wk'[u].pending = NoState
    <3>1. AtWork(wk[t])
      BY <2>1 DEF AtWork
    <3>2. \A u \in Workers : u # t => wk[u].pending = NoState
      BY <3>1, TailIsAtWork DEF LifeInv, OneAtWork
    <3> QED BY <2>2, <2>4, <3>2
  <2>9. TakenState = NoState /\ TakenState' = NoState
    BY <2>8 DEF TakenState
  <2>10. LoadState(stable') = LoadState(stable)
    BY <1>2
  <2> QED BY <2>6, <2>7, <2>9, <2>10, StateTextAssumption DEF SF!Leave
<1> QED
  BY <1>1, <1>2 DEF Rename

(* unlink takes away the tail that was consumed, and no other.               *)
LEMMA DeleteDrops ==
    ASSUME LifeInv, LifeInv', NEW t \in Workers, DeleteState(t),
           UNCHANGED <<conf, power, wrkr_count>>
    PROVE  SF!Work \/ SF!Drop
<1>1. CASE path' = path
  BY <1>1, QuietStepWorks DEF DeleteState
<1>2. CASE path' = NoFile
  <2>1. /\ wk[t] \in Work /\ Fits(wk[t], conf.cert) /\ wk[t].pc = "delete"
        /\ wk \in [Workers -> Work]
    BY OneWorker DEF DeleteState, LifeInv, LifeTypeOK, Work
  <2>2. wk[t].pending # NoState /\ wk[t].msg_count = 0
    BY <2>1 DEF Fits, HoldsPending
  <2>3. TakenState = wk[t].pending /\ LoadState(path) = wk[t].pending
    BY <2>2, TakenIsStored DEF LifeInv, FilesFit
  <2>4. /\ wk'[t].pending = NoState /\ wk'[t].msg_count = wk[t].msg_count
        /\ \A u \in Workers : u # t => wk'[u] = wk[u]
    BY <2>1 DEF DeleteState, Work
  <2>5. \A u \in Workers : u # t => ~HasTail(u) /\ wk[u].pending = NoState
    BY <2>2, TailIsAtWork DEF LifeInv, OneAtWork
  <2>6. \A u \in Workers : ~HasTail(u) /\ ~HasTail(u)' /\ wk'[u].pending = NoState
    BY <2>2, <2>4, <2>5 DEF HasTail
  <2>7. TailOf = NoState /\ TailOf' = NoState /\ TakenState' = NoState
    BY <2>6 DEF TailOf, TakenState
  <2>8. LoadState(path') = NoState /\ LoadState(stable') = LoadState(stable)
    BY <1>2 DEF LoadState, Loads, DeleteState
  <2> QED BY <2>2, <2>3, <2>7, <2>8 DEF SF!Drop
<1> QED
  BY <1>1, <1>2 DEF DeleteState

(* The steps of the machine                                                  *)
LEMMA MachineRefines ==
    ASSUME LifeInv, LifeInv',
           Kill \/ PowerFails \/ PowerReturns \/ WriteBack \/ Reconfigure
    PROVE  SF!Next
<1>1. CASE Kill \/ Reconfigure
  BY <1>1, QuietStepWorks DEF Kill, Reconfigure, fileVars, SF!Next
<1>2. CASE PowerFails
  <2>1. /\ power = "on" /\ power' = "off" /\ stable' = path'
        /\ wk' = [t \in Workers |-> NoWork]
    BY <1>2 DEF PowerFails, ProcessEnds
  <2>2. \A t \in Workers : ~HasTail(t)' /\ wk'[t].pending = NoState
    BY <2>1 DEF HasTail, NoWork
  <2>3. TailOf' = NoState /\ TakenState' = NoState
    BY <2>2 DEF TailOf, TakenState
  <2>4. LoadState(path') \in {LoadState(path), LoadState(stable), NoState}
    BY <1>2, PowerFailsReads
  <2> QED BY <2>1, <2>3, <2>4 DEF SF!PowerFails, SF!Next
<1>3. CASE PowerReturns \/ WriteBack
  <2>1. /\ conf' = conf /\ wk' = wk /\ path' = path
        /\ \/ power = "off" /\ power' = "on" /\ stable' = stable
           \/ power' = power /\ stable' = path
    BY <1>3 DEF PowerReturns, WriteBack, fileVars, envVars
  <2>2. TailOf' = TailOf /\ TakenState' = TakenState
    BY <2>1 DEF TailOf, HasTail, StateOf, TakenState
  <2>3. LoadState(path') = LoadState(path)
    BY <2>1
  <2>4. CASE power = "off" /\ power' = "on" /\ stable' = stable
    BY <2>2, <2>3, <2>4 DEF SF!PowerReturns, SF!Next
  <2>5. CASE power' = power /\ stable' = path
    BY <2>2, <2>3, <2>5 DEF SF!Settle, SF!Next
  <2> QED BY <2>1, <2>4, <2>5
<1> QED
  BY <1>1, <1>2, <1>3

(* Every step is one of the cell's, or changes nothing the cell shows.       *)
LEMMA LifeStepRefines ==
    LifeInv /\ LifeInv' /\ [LifeNext]_lifeVars => [SF!Next]_(SF!vars)
<1> SUFFICES ASSUME LifeInv, LifeInv', [LifeNext]_lifeVars
             PROVE  [SF!Next]_(SF!vars)
  OBVIOUS
<1>1. ASSUME NEW t \in Workers, MemoryStep(t) \/ CounterStep(t)
      PROVE  SF!Next
  <2>1. path' = path /\ stable' = stable /\ power' = power
    BY <1>1 DEF MemoryStep, CounterStep, CreateWorker, Leave, envVars, fileVars
  <2> QED BY <2>1, QuietStepWorks DEF SF!Next
<1>2. ASSUME NEW t \in Workers, FileStep(t) PROVE SF!Next
  <2>1. UNCHANGED <<conf, power, wrkr_count>>
    BY <1>2 DEF FileStep, envVars
  <2>2. CASE DeleteState(t)
    BY <2>1, <2>2, DeleteDrops DEF SF!Next
  <2>3. CASE Rename(t)
    BY <2>1, <2>3, RenameLeaves DEF SF!Next
  <2>4. CASE OpenTmp(t) \/ CloseTmp(t) \/ UnlinkTmp(t)
    <3>1. path' = path /\ stable' = stable
      BY <2>4 DEF OpenTmp, CloseTmp, UnlinkTmp, fileVars
    <3> QED BY <2>1, <3>1, QuietStepWorks DEF SF!Next
  <2> QED BY <1>2, <2>2, <2>3, <2>4 DEF FileStep
<1>3. CASE UNCHANGED lifeVars
  <2>1. /\ conf' = conf /\ wk' = wk /\ path' = path /\ power' = power
        /\ stable' = stable
    BY <1>3 DEF lifeVars, envVars, fileVars
  <2>2. TailOf' = TailOf /\ TakenState' = TakenState
    BY <2>1 DEF TailOf, HasTail, StateOf, TakenState
  <2> QED BY <2>1, <2>2 DEF SF!vars
<1> QED
  BY <1>1, <1>2, <1>3, MachineRefines DEF LifeNext

(* The first worker finds what an earlier version left, or nothing.          *)
LEMMA LifeInitRefines ==
    LifeInit => SF!Init
<1> SUFFICES ASSUME LifeInit PROVE SF!Init
  OBVIOUS
<1>1. LifeInv
  BY LifeInitKeepsInv
<1>2. wk = [t \in Workers |-> NoWork] /\ stable = path /\ power = "on"
  BY DEF LifeInit
<1>3. \A t \in Workers : ~HasTail(t) /\ wk[t].pending = NoState
  BY <1>2 DEF HasTail, NoWork
<1>4. TailOf = NoState /\ TakenState = NoState
  BY <1>3 DEF TailOf, TakenState
<1> QED
  BY <1>1, <1>2, <1>4 DEF SF!Init, LifeInv, FilesFit

(* The state file is one cell that is written and emptied in one step, for   *)
(* any number of threads and any interleaving of their calls: a kill changes *)
(* nothing, a power failure undoes the last change or loses the tail, and no *)
(* torn or foreign tail is ever taken up (README, "The state file is written *)
(* atomically").                                                             *)
THEOREM LifeImplementsStateFile == LifeSpec => ImplementsStateFile
<1>1. LifeInit => SF!Init
  BY LifeInitRefines
<1>2. LifeInv /\ LifeInv' /\ [LifeNext]_lifeVars => [SF!Next]_(SF!vars)
  BY LifeStepRefines
<1> QED
  BY <1>1, <1>2, LifeInvariant, PTL DEF LifeSpec, ImplementsStateFile, SF!Spec
=============================================================================

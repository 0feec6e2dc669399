----------------------------- MODULE AuditProofs -----------------------------
(* Theorems about mmhashchainsigs-verify over a copy of the log that may be  *)
(* damaged, for every log, every sequence of incidents and every run.        *)
EXTENDS AuditInv, LogProofs, WellFoundedInduction

(* Every step of the audit is a step of the signer and its log, or leaves    *)
(* them alone: what Pipeline proves of the log holds here too.               *)
THEOREM AuditExtendsPipeline == AuditSpec => Spec
<1>1. AuditInit => Init
  BY DEF AuditInit
<1>2. [AuditNext]_allVars => [Next]_vars
  BY DEF AuditNext, allVars, vars, Arrive, SignerStep, Next, Lose, Repeat, Swap,
     Alter, Forge, Rehash, Suffer, Open, Read, ReadFails, Finish
<1> QED
  BY <1>1, <1>2, PTL DEF AuditSpec, Spec

(***************************************************************************)
(* The copy                                                                 *)
(***************************************************************************)

(* A part of a sequence, element by element                                  *)
LEMMA SubSeqDraws ==
    ASSUME NEW S, NEW s \in Seq(S), NEW m \in Nat \ {0}, NEW n \in Nat,
           n <= Len(s), m <= n + 1
    PROVE  LET t == SubSeq(s, m, n)
           IN  /\ t \in Seq(S) /\ Len(t) = n - m + 1
               /\ \A j \in 1 .. Len(t) : t[j] = s[m + j - 1]
               /\ \A j \in 1 .. Len(t) : \E k \in 1 .. Len(s) : t[j] = s[k]
<1> DEFINE t == SubSeq(s, m, n)
<1>1. Len(s) \in Nat
  BY LenProperties
<1>2. \A i \in m .. n : s[i] \in S
  BY <1>1, ElementOfSeq
<1>3. /\ t \in Seq(S) /\ Len(t) = IF m <= n THEN n - m + 1 ELSE 0
      /\ \A j \in 1 .. n - m + 1 : t[j] = s[m + j - 1]
  BY <1>2, SubSeqProperties
<1> HIDE DEF t
<1>4. Len(t) = n - m + 1
  BY <1>3
<1>5. ASSUME NEW j \in 1 .. Len(t)
      PROVE  m + j - 1 \in 1 .. Len(s)
  BY <1>1, <1>4
<1> QED
  BY <1>3, <1>4, <1>5 DEF t

(* Two sequences one after the other, element by element                     *)
LEMMA ConcatDraws ==
    ASSUME NEW S, NEW a \in Seq(S), NEW b \in Seq(S)
    PROVE  LET t == a \o b
           IN  /\ t \in Seq(S)
               /\ \A j \in 1 .. Len(t) :
                      \/ \E k \in 1 .. Len(a) : t[j] = a[k]
                      \/ \E k \in 1 .. Len(b) : t[j] = b[k]
<1> DEFINE t == a \o b
<1>1. Len(a) \in Nat /\ Len(b) \in Nat
  BY LenProperties
<1>2. /\ t \in Seq(S) /\ Len(t) = Len(a) + Len(b)
      /\ \A j \in 1 .. Len(a) + Len(b) :
             t[j] = IF j <= Len(a) THEN a[j] ELSE b[j - Len(a)]
  BY ConcatProperties
<1> HIDE DEF t
<1>3. ASSUME NEW j \in 1 .. Len(t)
      PROVE  \/ \E k \in 1 .. Len(a) : t[j] = a[k]
             \/ \E k \in 1 .. Len(b) : t[j] = b[k]
  <2>1. CASE j <= Len(a)
    <3>1. j \in 1 .. Len(a) /\ t[j] = a[j]
      BY <1>1, <1>2, <2>1
    <3> QED
      BY <3>1
  <2>2. CASE ~(j <= Len(a))
    <3>1. j - Len(a) \in 1 .. Len(b) /\ t[j] = b[j - Len(a)]
      BY <1>1, <1>2, <2>2
    <3> QED
      BY <3>1
  <2> QED
    BY <2>1, <2>2
<1> QED
  BY <1>2, <1>3 DEF t

(* Removing a line leaves lines that were there.                             *)
LEMMA RemoveAtDraws ==
    ASSUME NEW S, NEW s \in Seq(S), NEW i \in 1 .. Len(s)
    PROVE  LET t == RemoveAt(s, i)
           IN  /\ t \in Seq(S)
               /\ \A j \in 1 .. Len(t) : \E k \in 1 .. Len(s) : t[j] = s[k]
<1> DEFINE a == SubSeq(s, 1, i - 1)
           b == SubSeq(s, i + 1, Len(s))
<1>1. /\ Len(s) \in Nat /\ 1 \in Nat \ {0} /\ i - 1 \in Nat /\ i - 1 <= Len(s)
      /\ 1 <= (i - 1) + 1 /\ i + 1 \in Nat \ {0} /\ i + 1 <= Len(s) + 1
      /\ Len(s) <= Len(s)
  BY LenProperties
<1>2. a \in Seq(S) /\ \A j \in 1 .. Len(a) : \E k \in 1 .. Len(s) : a[j] = s[k]
  BY <1>1, SubSeqDraws
<1>3. b \in Seq(S) /\ \A j \in 1 .. Len(b) : \E k \in 1 .. Len(s) : b[j] = s[k]
  BY <1>1, SubSeqDraws
<1>4. RemoveAt(s, i) = a \o b
  BY DEF RemoveAt
<1> DEFINE t == a \o b
<1> HIDE DEF a, b
<1>5. /\ t \in Seq(S)
      /\ \A j \in 1 .. Len(t) : \/ \E k \in 1 .. Len(a) : t[j] = a[k]
                                \/ \E k \in 1 .. Len(b) : t[j] = b[k]
  BY <1>2, <1>3, ConcatDraws
<1> HIDE DEF t
<1>6. ASSUME NEW j \in 1 .. Len(t)
      PROVE  \E k \in 1 .. Len(s) : t[j] = s[k]
  <2>1. CASE \E k \in 1 .. Len(a) : t[j] = a[k]
    <3>1. PICK k \in 1 .. Len(a) : t[j] = a[k]
      BY <2>1
    <3> QED
      BY <1>2, <3>1
  <2>2. CASE \E k \in 1 .. Len(b) : t[j] = b[k]
    <3>1. PICK k \in 1 .. Len(b) : t[j] = b[k]
      BY <2>2
    <3> QED
      BY <1>3, <3>1
  <2> QED
    BY <1>5, <2>1, <2>2
<1> QED
  BY <1>4, <1>5, <1>6 DEF t

(* Inserting a line adds only that line.                                     *)
LEMMA InsertAtDraws ==
    ASSUME NEW S, NEW s \in Seq(S), NEW i \in 1 .. (Len(s) + 1), NEW e \in S
    PROVE  LET t == InsertAt(s, i, e)
           IN  /\ t \in Seq(S)
               /\ \A j \in 1 .. Len(t) :
                      t[j] = e \/ \E k \in 1 .. Len(s) : t[j] = s[k]
<1> DEFINE a == SubSeq(s, 1, i - 1)
           o == <<e>>
           b == SubSeq(s, i, Len(s))
           ao == a \o o
<1>1. /\ Len(s) \in Nat /\ 1 \in Nat \ {0} /\ i - 1 \in Nat /\ i - 1 <= Len(s)
      /\ 1 <= (i - 1) + 1 /\ i \in Nat \ {0} /\ i <= Len(s) + 1
      /\ Len(s) <= Len(s)
  BY LenProperties
<1>2. a \in Seq(S) /\ \A j \in 1 .. Len(a) : \E k \in 1 .. Len(s) : a[j] = s[k]
  BY <1>1, SubSeqDraws
<1>3. b \in Seq(S) /\ \A j \in 1 .. Len(b) : \E k \in 1 .. Len(s) : b[j] = s[k]
  BY <1>1, SubSeqDraws
<1>4. o \in Seq(S) /\ \A j \in 1 .. Len(o) : o[j] = e
  OBVIOUS
<1>5. InsertAt(s, i, e) = ao \o b
  BY DEF InsertAt
<1> HIDE DEF a, o, b
<1>6. /\ ao \in Seq(S)
      /\ \A j \in 1 .. Len(ao) : \/ \E k \in 1 .. Len(a) : ao[j] = a[k]
                                 \/ \E k \in 1 .. Len(o) : ao[j] = o[k]
  <2>1. a \in Seq(S) /\ o \in Seq(S)
    BY <1>2, <1>4
  <2> QED
    BY <2>1, ConcatDraws
<1> DEFINE t == ao \o b
<1> HIDE DEF ao
<1>7. /\ t \in Seq(S)
      /\ \A j \in 1 .. Len(t) : \/ \E k \in 1 .. Len(ao) : t[j] = ao[k]
                                \/ \E k \in 1 .. Len(b) : t[j] = b[k]
  BY <1>3, <1>6, ConcatDraws
<1> HIDE DEF t
<1>8. \A j \in 1 .. Len(ao) : ao[j] = e \/ \E k \in 1 .. Len(s) : ao[j] = s[k]
  <2> SUFFICES ASSUME NEW j \in 1 .. Len(ao)
               PROVE  ao[j] = e \/ \E k \in 1 .. Len(s) : ao[j] = s[k]
    OBVIOUS
  <2>1. CASE \E k \in 1 .. Len(a) : ao[j] = a[k]
    BY <1>2, <2>1
  <2>2. CASE \E k \in 1 .. Len(o) : ao[j] = o[k]
    BY <1>4, <2>2
  <2> QED
    BY <1>6, <2>1, <2>2
<1>9. \A j \in 1 .. Len(t) : t[j] = e \/ \E k \in 1 .. Len(s) : t[j] = s[k]
  BY <1>3, <1>7, <1>8, SMTT(60)
<1> QED
  BY <1>5, <1>7, <1>9 DEF t

(* Line k has the signature of line l, or none.                              *)
SameSeal(k, l) ==
    k.sd # NoSD /\ k.sd.s # NoSig => l.sd # NoSD /\ l.sd.s = k.sd.s

(* A forged parameter keeps the line a line; a signature it carries was one  *)
(* of the copy.                                                              *)
LEMMA ForgedKeeps ==
    ASSUME file \in Seq(Line), NEW line \in Line, line.sd # NoSD,
           NEW k \in Forged(line)
    PROVE  k \in Line /\ (SameSeal(k, line) \/ \E j \in DOMAIN file : SameSeal(k, file[j]))
<1> DEFINE sd == line.sd
           With(e) == [line EXCEPT !.sd = e]
           Goal == k \in Line /\ (SameSeal(k, line) \/ \E j \in DOMAIN file : SameSeal(k, file[j]))
<1>1. line.sd \in SD
  BY DEF Line
<1>2. ASSUME NEW e \in SD, k = With(e),
             \/ e.s \in {sd.s, NoSig}
             \/ \E j \in DOMAIN file : file[j].sd # NoSD /\ e.s = file[j].sd.s
      PROVE  Goal
  <2>1. k \in Line /\ k.sd = e
    BY <1>2 DEF Line
  <2> QED
    BY <1>2, <2>1 DEF SameSeal
<1>3. ASSUME NEW ty \in SDTypes, k = [line EXCEPT !.sd.type = ty]
      PROVE  Goal
  <2> DEFINE e == [sd EXCEPT !.type = ty]
  <2>1. k = With(e)
    BY <1>3
  <2>2. e \in SD /\ e.s = sd.s
    BY <1>1 DEF SD
  <2> HIDE DEF e, With, Goal
  <2> QED
    BY <1>2, <2>1, <2>2
<1>4. ASSUME NEW n \in Nat, k = [line EXCEPT !.sd.qf = n]
      PROVE  Goal
  <2> DEFINE e == [sd EXCEPT !.qf = n]
  <2>1. k = With(e)
    BY <1>4
  <2>2. e \in SD /\ e.s = sd.s
    BY <1>1 DEF SD
  <2> HIDE DEF e, With, Goal
  <2> QED
    BY <1>2, <2>1, <2>2
<1>5. ASSUME NEW n \in Nat, k = [line EXCEPT !.sd.qt = n]
      PROVE  Goal
  <2> DEFINE e == [sd EXCEPT !.qt = n]
  <2>1. k = With(e)
    BY <1>5
  <2>2. e \in SD /\ e.s = sd.s
    BY <1>1 DEF SD
  <2> HIDE DEF e, With, Goal
  <2> QED
    BY <1>2, <2>1, <2>2
<1>6. ASSUME NEW sig \in {NoSig} \cup {file[j].sd.s : j \in Elements},
             k = [line EXCEPT !.sd.s = sig]
      PROVE  Goal
  <2> DEFINE e == [sd EXCEPT !.s = sig]
  <2>1. k = With(e)
    BY <1>6
  <2>2. sig = NoSig \/ \E j \in DOMAIN file : file[j].sd # NoSD /\ sig = file[j].sd.s
    BY <1>6 DEF Elements
  <2>3. \A j \in DOMAIN file : file[j] \in Line
    BY LenProperties, ElementOfSeq
  <2>4. sig \in Signature \cup {NoSig}
    BY <2>2, <2>3 DEF Line, SD
  <2>5. e \in SD /\ e.s = sig
    BY <1>1, <2>4 DEF SD
  <2> HIDE DEF e, With, Goal
  <2> QED
    BY <1>2, <2>1, <2>2, <2>5
<1>7. ASSUME k = [line EXCEPT !.sd.f = NoKey]
      PROVE  Goal
  <2> DEFINE e == [sd EXCEPT !.f = NoKey]
  <2>1. k = With(e)
    BY <1>7
  <2>2. e \in SD /\ e.s = sd.s
    BY <1>1 DEF SD
  <2> HIDE DEF e, With, Goal
  <2> QED
    BY <1>2, <2>1, <2>2
<1>8. ASSUME k = [line EXCEPT !.cert = NoKey]
      PROVE  Goal
  <2>1. k \in Line /\ k.sd = line.sd
    BY <1>8 DEF Line
  <2> QED
    BY <2>1 DEF SameSeal
<1>9. \/ \E ty \in SDTypes : k = [line EXCEPT !.sd.type = ty]
      \/ \E n \in Nat : k = [line EXCEPT !.sd.qf = n] \/ k = [line EXCEPT !.sd.qt = n]
      \/ \E sig \in {NoSig} \cup {file[j].sd.s : j \in Elements} :
             k = [line EXCEPT !.sd.s = sig]
      \/ k = [line EXCEPT !.sd.f = NoKey] \/ k = [line EXCEPT !.cert = NoKey]
  BY DEF Forged
<1> HIDE DEF Goal
<1>10. Goal
  BY <1>3, <1>4, <1>5, <1>6, <1>7, <1>8, <1>9
<1> QED
  BY <1>10 DEF Goal

(* An entry written anew keeps the line a line, and its signature.           *)
LEMMA RehashedKeeps ==
    ASSUME file \in Seq(Line), NEW i \in DOMAIN file, file[i].sd # NoSD,
           NEW h \in Before(i), NEW m \in Payload
    PROVE  LET k == Rehashed(file[i], h, m)
           IN  k \in Line /\ SameSeal(k, file[i])
<1>1. \A j \in DOMAIN file : file[j] \in Line
  BY LenProperties, ElementOfSeq
<1>2. h \in Digest
  <2>1. \A a \in Algs : ChainInitHash(a) \in Digest
    BY ChainInitHashType
  <2>2. \A j \in Elements : file[j].sd.h \in Digest
    BY <1>1 DEF Elements, Line, SD
  <2> QED
    BY <2>1, <2>2 DEF Before
<1> DEFINE n == Len(h.links) + 1
           d == HashChainStep(h, n, m)
           line == file[i]
           e == [line.sd EXCEPT !.q = n, !.h = d]
           k == Rehashed(line, h, m)
<1>3. n \in Nat
  BY <1>2, LenProperties DEF Digest
<1>4. d \in Digest
  BY <1>2, <1>3, HashChainStepType
<1>5. k = [line EXCEPT !.msg = m, !.sd = e]
  BY DEF Rehashed
<1> HIDE DEF n, d
<1>6. line \in Line /\ line.sd \in SD
  BY <1>1 DEF Line
<1>7. e \in SD /\ e.s = line.sd.s
  BY <1>3, <1>4, <1>6 DEF SD
<1> HIDE DEF e, k, line
<1>8. k \in Line /\ k.sd = e
  BY <1>5, <1>6, <1>7 DEF Line
<1>9. line.sd # NoSD
  BY DEF line
<1> QED
  BY <1>7, <1>8, <1>9 DEF SameSeal, k, line

(* Whatever happened to the copy, a signature on one of its lines was there  *)
(* before.                                                                   *)
LEMMA IncidentDraws ==
    ASSUME file \in Seq(Line), Lose \/ Repeat \/ Swap \/ Alter \/ Forge \/ Rehash
    PROVE  /\ file' \in Seq(Line)
           /\ \A i \in DOMAIN file' : \E j \in DOMAIN file :
                  SameSeal(file'[i], file[j])
           /\ ~reading /\ incidents < MaxIncidents /\ incidents' = incidents + 1
           /\ UNCHANGED <<vars, auditVars>>
<1>1. Len(file) \in Nat /\ DOMAIN file = 1 .. Len(file)
      /\ \A i \in 1 .. Len(file) : file[i] \in Line
  BY LenProperties, ElementOfSeq
<1>2. \E kind, copy : Suffer(kind, copy)
  BY DEF Lose, Repeat, Swap, Alter, Forge, Rehash
<1>3. /\ ~reading /\ incidents < MaxIncidents /\ incidents' = incidents + 1
      /\ UNCHANGED <<vars, auditVars>>
  BY <1>2 DEF Suffer
<1>4. \A l : SameSeal(l, l)
  BY DEF SameSeal
<1>5. ASSUME file' \in Seq(Line),
             \A i \in 1 .. Len(file') : \E j \in 1 .. Len(file) :
                 SameSeal(file'[i], file[j])
      PROVE  /\ file' \in Seq(Line)
             /\ \A i \in DOMAIN file' : \E j \in DOMAIN file :
                    SameSeal(file'[i], file[j])
  <2>1. DOMAIN file' = 1 .. Len(file')
    BY <1>5, LenProperties
  <2> QED
    BY <1>1, <1>5, <2>1
<1>6. CASE Lose
  <2>1. PICK i \in 1 .. Len(file) : file' = RemoveAt(file, i)
    BY <1>1, <1>6 DEF Lose, Suffer
  <2>2. /\ file' \in Seq(Line)
        /\ \A j \in 1 .. Len(file') : \E k \in 1 .. Len(file) : file'[j] = file[k]
    BY <2>1, RemoveAtDraws
  <2> QED
    BY <1>3, <1>4, <1>5, <2>2
<1>7. CASE Repeat
  <2>0. PICK i \in 1 .. Len(file) : \E j \in (i + 1) .. (Len(file) + 1) :
            file' = InsertAt(file, j, file[i])
    BY <1>1, <1>7 DEF Repeat, Suffer
  <2>1. PICK j \in (i + 1) .. (Len(file) + 1) : file' = InsertAt(file, j, file[i])
    BY <2>0
  <2>2. j \in 1 .. (Len(file) + 1) /\ file[i] \in Line
    BY <1>1
  <2>3. /\ file' \in Seq(Line)
        /\ \A n \in 1 .. Len(file') :
               file'[n] = file[i] \/ \E k \in 1 .. Len(file) : file'[n] = file[k]
    BY <2>1, <2>2, InsertAtDraws
  <2>4. \A n \in 1 .. Len(file') : \E k \in 1 .. Len(file) : file'[n] = file[k]
    BY <2>3
  <2> QED
    BY <1>3, <1>4, <1>5, <2>3, <2>4
<1>8. ASSUME NEW i \in 1 .. Len(file), NEW k \in Line, NEW s \in Seq(Line),
             Len(s) = Len(file),
             \A n \in 1 .. Len(file) : \E j \in 1 .. Len(file) : SameSeal(s[n], file[j]),
             \E j \in 1 .. Len(file) : SameSeal(k, file[j])
      PROVE  LET t == [s EXCEPT ![i] = k]
             IN  /\ t \in Seq(Line) /\ Len(t) = Len(file)
                 /\ \A n \in 1 .. Len(file) : \E j \in 1 .. Len(file) :
                        SameSeal(t[n], file[j])
  <2> DEFINE t == [s EXCEPT ![i] = k]
  <2>1. /\ t \in Seq(Line) /\ Len(t) = Len(s)
        /\ \A n \in 1 .. Len(s) : t[n] = IF n = i THEN k ELSE s[n]
    BY <1>8, ExceptSeq
  <2> HIDE DEF t
  <2>2. ASSUME NEW n \in 1 .. Len(file)
        PROVE  \E j \in 1 .. Len(file) : SameSeal(t[n], file[j])
    <3>1. t[n] = IF n = i THEN k ELSE s[n]
      BY <1>8, <2>1
    <3>2. CASE n = i
      BY <1>8, <3>1, <3>2
    <3>3. CASE n # i
      BY <1>8, <3>1, <3>3
    <3> QED
      BY <3>2, <3>3
  <2> QED
    BY <1>8, <2>1, <2>2 DEF t
<1>9. \A n \in 1 .. Len(file) : \E j \in 1 .. Len(file) : SameSeal(file[n], file[j])
  BY <1>4
<1>10. CASE Swap
  <2>1. PICK i \in 1 .. (Len(file) - 1) :
            file' = [file EXCEPT ![i] = file[i + 1], ![i + 1] = file[i]]
    BY <1>10 DEF Swap, Suffer
  <2>2. i \in 1 .. Len(file) /\ i + 1 \in 1 .. Len(file)
    BY <1>1
  <2> DEFINE s == [file EXCEPT ![i] = file[i + 1]]
             t == [s EXCEPT ![i + 1] = file[i]]
  <2>3. file' = t
    BY <2>1
  <2>4. file[i] \in Line /\ file[i + 1] \in Line
    BY <1>1, <2>2
  <2>5. /\ s \in Seq(Line) /\ Len(s) = Len(file)
        /\ \A n \in 1 .. Len(file) : \E j \in 1 .. Len(file) : SameSeal(s[n], file[j])
    BY <1>8, <1>9, <2>2, <2>4
  <2> HIDE DEF s
  <2>6. /\ t \in Seq(Line) /\ Len(t) = Len(file)
        /\ \A n \in 1 .. Len(file) : \E j \in 1 .. Len(file) : SameSeal(t[n], file[j])
    BY <1>8, <1>9, <2>2, <2>4, <2>5
  <2> HIDE DEF t
  <2> QED
    BY <1>3, <1>5, <2>3, <2>6
<1>11. CASE Alter
  <2>1. PICK i \in 1 .. Len(file), m \in Payload :
            file' = [file EXCEPT ![i].msg = m]
    BY <1>1, <1>11 DEF Alter, Suffer
  <2> DEFINE k == [file[i] EXCEPT !.msg = m]
             t == [file EXCEPT ![i] = k]
  <2>2. file' = t
    BY <2>1
  <2>3. k \in Line /\ SameSeal(k, file[i])
    BY <1>1 DEF Line, SameSeal
  <2> HIDE DEF k
  <2>4. /\ t \in Seq(Line) /\ Len(t) = Len(file)
        /\ \A n \in 1 .. Len(file) : \E j \in 1 .. Len(file) : SameSeal(t[n], file[j])
    BY <1>8, <1>9, <2>3
  <2> HIDE DEF t
  <2> QED
    BY <1>3, <1>5, <2>2, <2>4
<1>12. CASE Forge
  <2>1. PICK i \in Elements : \E k \in Forged(file[i]) : file' = [file EXCEPT ![i] = k]
    BY <1>12 DEF Forge, Suffer
  <2>2. PICK k \in Forged(file[i]) : file' = [file EXCEPT ![i] = k]
    BY <2>1
  <2>3. i \in 1 .. Len(file) /\ file[i] \in Line /\ file[i].sd # NoSD
    BY <1>1 DEF Elements
  <2>4. k \in Line /\ \E j \in 1 .. Len(file) : SameSeal(k, file[j])
    BY <1>1, <2>3, ForgedKeeps
  <2> DEFINE t == [file EXCEPT ![i] = k]
  <2>5. /\ t \in Seq(Line) /\ Len(t) = Len(file)
        /\ \A n \in 1 .. Len(file) : \E j \in 1 .. Len(file) : SameSeal(t[n], file[j])
    BY <1>8, <1>9, <2>3, <2>4
  <2> HIDE DEF t
  <2> QED
    BY <1>3, <1>5, <2>2, <2>5 DEF t
<1>13. CASE Rehash
  <2>0. PICK i \in Elements : \E h \in Before(i), m \in Payload :
            file' = [file EXCEPT ![i] = Rehashed(file[i], h, m)]
    BY <1>13 DEF Rehash, Suffer
  <2>1. PICK h \in Before(i), m \in Payload :
            file' = [file EXCEPT ![i] = Rehashed(file[i], h, m)]
    BY <2>0
  <2> DEFINE k == Rehashed(file[i], h, m)
  <2>2. file' = [file EXCEPT ![i] = k]
    BY <2>1
  <2>3. i \in 1 .. Len(file) /\ i \in DOMAIN file /\ file[i].sd # NoSD
    BY <1>1 DEF Elements
  <2>4. k \in Line /\ SameSeal(k, file[i])
    BY <2>3, RehashedKeeps
  <2> HIDE DEF k
  <2> DEFINE t == [file EXCEPT ![i] = k]
  <2>5. /\ t \in Seq(Line) /\ Len(t) = Len(file)
        /\ \A n \in 1 .. Len(file) : \E j \in 1 .. Len(file) : SameSeal(t[n], file[j])
    BY <1>8, <1>9, <2>3, <2>4
  <2> HIDE DEF t
  <2> QED
    BY <1>3, <1>5, <2>2, <2>5 DEF t
<1> QED
  BY <1>6, <1>7, <1>10, <1>11, <1>12, <1>13

(***************************************************************************)
(* Calls of the verifier that fail                                          *)
(***************************************************************************)

(* Only a line with an element is hashed.                                    *)
LEMMA HashesElement ==
    ASSUME NEW c, VCtxOK(c), NEW line \in Line, Hashes(c, line)
    PROVE  line.sd # NoSD /\ line.sd \in SD
<1>1. "no element" \in ErrorKinds /\ TRUE \in BOOLEAN
  BY DEF ErrorKinds
<1>2. /\ Fatal(c, "no element").msg_count = c.msg_count
      /\ AddError(c, TRUE, "no element").msg_count = c.msg_count
  BY <1>1, FatalClean, AddErrorClean
<1>3. line.sd # NoSD
  BY <1>2 DEF Hashes, VerifierProcessLine
<1> QED
  BY <1>3 DEF Line

(* A stop of the engine changes nothing but the state.                       *)
LEMMA StopFields ==
    ASSUME NEW c, VCtxOK(c)
    PROVE  LET d == [c EXCEPT !.state = "ERROR"]
           IN  /\ VCtxOK(d) /\ d.state = "ERROR" /\ d.errors = c.errors
               /\ d.key = c.key /\ d.ca = c.ca /\ d.strict = c.strict
               /\ d.msg_count = c.msg_count /\ d.next_seq = c.next_seq
               /\ d.last_signed_seq = c.last_signed_seq
BY DEF VCtxOK, VCtx, VStates

(* Installing the key and closing the segment, whatever they find            *)
LEMMA ClosedFields ==
    ASSUME NEW c, VCtxOK(c), NEW cert \in Keys \cup {NoKey}
    PROVE  LET d == CloseSegment(InstallKey(c, cert))
           IN  /\ VCtxOK(d)
               /\ d.errors = << >> =>
                     /\ c.errors = << >> /\ d.msg_count = c.msg_count
                     /\ d.strict = c.strict /\ d.ca = c.ca
                     /\ c.key # NoKey => d.key = c.key
                     /\ c.state = "PROCESSING" /\ c.strict => ~HasUnsigned(c)
<1> DEFINE keyed == InstallKey(c, cert)
           d == CloseSegment(keyed)
<1>1. VCtxOK(keyed)
  BY InstallKeyType
<1>2. keyed.errors = << >> =>
        /\ c.errors = << >> /\ keyed = [c EXCEPT !.key = keyed.key]
        /\ c.key # NoKey => keyed.key = c.key
  BY InstallKeyClean
<1> HIDE DEF keyed
<1>3. keyed.errors = << >> =>
        /\ keyed.state = c.state /\ keyed.strict = c.strict /\ keyed.ca = c.ca
        /\ keyed.msg_count = c.msg_count /\ keyed.next_seq = c.next_seq
        /\ keyed.last_signed_seq = c.last_signed_seq
  BY <1>2 DEF VCtxOK, VCtx
<1>4. /\ VCtxOK(d)
      /\ d.errors = << >> =>
            /\ keyed.errors = << >>
            /\ IF keyed.state = "PROCESSING"
               THEN /\ keyed.strict => ~HasUnsigned(keyed)
                    /\ d = [keyed EXCEPT !.last_signed_seq = 0]
               ELSE d = keyed
  BY <1>1, CloseSegmentType, CloseSegmentClean
<1> HIDE DEF d
<1>5. d.errors = << >> =>
        /\ d.strict = keyed.strict /\ d.ca = keyed.ca /\ d.key = keyed.key
        /\ d.msg_count = keyed.msg_count
  BY <1>1, <1>4 DEF VCtxOK, VCtx
<1>6. keyed.errors = << >> => HasUnsigned(keyed) = HasUnsigned(c)
  BY <1>3 DEF HasUnsigned
<1> QED
  BY <1>2, <1>3, <1>4, <1>5, <1>6 DEF d, keyed

(* A digest that fails leaves a stopped engine; if that has no error, there  *)
(* was none to find before the digest either.                                *)
LEMMA DigestFailsKeeps ==
    ASSUME NEW c, VCtxOK(c), NEW line \in Line, line.sd \in SD,
           NEW d \in DigestFails(c, line)
    PROVE  /\ VCtxOK(d) /\ d.state = "ERROR"
           /\ d.errors = << >> =>
                 /\ c.errors = << >> /\ d.msg_count = c.msg_count
                 /\ d.strict = c.strict /\ d.ca = c.ca
                 /\ c.key # NoKey => d.key = c.key
                 /\ IF line.sd.type = "INIT"
                    THEN c.state = "PROCESSING" /\ c.strict => ~HasUnsigned(c)
                    ELSE /\ d.next_seq = c.next_seq
                         /\ d.last_signed_seq = c.last_signed_seq
<1> DEFINE sd == line.sd
           closed == CloseSegment(InstallKey(c, line.cert))
           opened == OpenSegment(closed, sd.h.alg)
           next == [c EXCEPT !.segment_count = c.segment_count + 1]
           at == CASE sd.type = "INIT" -> opened
                   [] sd.type = "CONTINUE" -> next
                   [] OTHER -> c
           bad == sd.q # at.next_seq
           e == AddError(at, bad, "sequence")
<1>1. /\ line.cert \in Keys \cup {NoKey} /\ sd.h.alg \in Algs
      /\ "sequence" \in ErrorKinds /\ bad \in BOOLEAN
  BY DEF Line, SD, Digest, ErrorKinds
<1>2. \/ d = [e EXCEPT !.state = "ERROR"]
      \/ sd.type = "INIT" /\ d = [closed EXCEPT !.state = "ERROR"]
  BY DEF DigestFails
<1>3. /\ VCtxOK(closed)
      /\ closed.errors = << >> =>
            /\ c.errors = << >> /\ closed.msg_count = c.msg_count
            /\ closed.strict = c.strict /\ closed.ca = c.ca
            /\ c.key # NoKey => closed.key = c.key
            /\ c.state = "PROCESSING" /\ c.strict => ~HasUnsigned(c)
  BY <1>1, ClosedFields
<1> HIDE DEF closed
<1>4. VCtxOK(opened)
  BY <1>1, <1>3, OpenSegmentType
<1>5. opened.errors = << >> =>
        /\ closed.errors = << >> /\ opened.msg_count = closed.msg_count
        /\ opened.strict = closed.strict /\ opened.ca = closed.ca
        /\ opened.key = closed.key
  BY <1>1, <1>3, OpenSegmentClean
<1>6. /\ VCtxOK(next) /\ next.errors = c.errors /\ next.msg_count = c.msg_count
      /\ next.strict = c.strict /\ next.ca = c.ca /\ next.key = c.key
      /\ next.next_seq = c.next_seq /\ next.last_signed_seq = c.last_signed_seq
  BY SMTT(60) DEF VCtxOK, VCtx
<1> HIDE DEF opened, next
<1>7. /\ VCtxOK(at)
      /\ at.errors = << >> =>
            /\ c.errors = << >> /\ at.msg_count = c.msg_count
            /\ at.strict = c.strict /\ at.ca = c.ca
            /\ c.key # NoKey => at.key = c.key
            /\ IF sd.type = "INIT"
               THEN c.state = "PROCESSING" /\ c.strict => ~HasUnsigned(c)
               ELSE /\ at.next_seq = c.next_seq
                    /\ at.last_signed_seq = c.last_signed_seq
  <2>1. CASE sd.type = "INIT"
    BY <1>3, <1>4, <1>5, <2>1
  <2>2. CASE sd.type = "CONTINUE"
    BY <1>6, <2>2
  <2>3. CASE sd.type \notin {"INIT", "CONTINUE"}
    BY <2>3
  <2> QED
    BY <2>1, <2>2, <2>3
<1> HIDE DEF at, bad, sd
<1>8. /\ VCtxOK(e) /\ (e.errors = << >> => at.errors = << >>)
      /\ e.msg_count = at.msg_count /\ e.strict = at.strict /\ e.ca = at.ca
      /\ e.key = at.key /\ e.next_seq = at.next_seq
      /\ e.last_signed_seq = at.last_signed_seq
  <2>1. (e.errors = << >> => at.errors = << >>) /\ e.msg_count = at.msg_count
    BY <1>1, <1>7, AddErrorClean
  <2>2. /\ VCtxOK(e) /\ e.strict = at.strict /\ e.ca = at.ca
        /\ e.key = at.key /\ e.next_seq = at.next_seq
        /\ e.last_signed_seq = at.last_signed_seq
    BY <1>1, <1>7, AddErrorType
  <2> QED
    BY <2>1, <2>2
<1> HIDE DEF e
<1>9. CASE d = [e EXCEPT !.state = "ERROR"]
  BY <1>7, <1>8, <1>9, StopFields DEF sd
<1>10. CASE sd.type = "INIT" /\ d = [closed EXCEPT !.state = "ERROR"]
  BY <1>3, <1>10, StopFields DEF sd
<1> QED
  BY <1>2, <1>9, <1>10

(* Such a stop counts no line, and keeps what is known of the others.        *)
LEMMA TracksDigestFails ==
    ASSUME NEW c, VCtxOK(c), ~Stopped(c), NEW lines \in Seq(Line), Tracks(c, lines),
           NEW line \in Line, line.sd \in SD, NEW d \in DigestFails(c, line)
    PROVE  Tracks(d, Append(lines, line))
<1> DEFINE n == Len(lines)
           new == Append(lines, line)
<1> SUFFICES ASSUME d.errors = << >>
             PROVE  Counts(d, new) /\ AtStart(d, new) /\ InSegment(d, new)
  BY DEF Tracks
<1>1. /\ d.state = "ERROR" /\ c.errors = << >> /\ d.msg_count = c.msg_count
      /\ d.strict = c.strict /\ (c.key # NoKey => d.key = c.key)
      /\ IF line.sd.type = "INIT"
         THEN c.state = "PROCESSING" /\ c.strict => ~HasUnsigned(c)
         ELSE d.next_seq = c.next_seq /\ d.last_signed_seq = c.last_signed_seq
  BY DigestFailsKeeps
<1>2. /\ Counts(c, lines) /\ Counts(c, new) /\ AtStart(c, lines)
      /\ InSegment(c, lines)
  BY <1>1, CountsAppend DEF Tracks
<1>3. c.state \in {"EXPECT_INIT", "PROCESSING"} /\ c.msg_count \in Nat
  BY DEF VCtxOK, VCtx, VStates, Stopped
<1>4. c.msg_count > 0 => c.state = "PROCESSING" /\ d.key = c.key
  BY <1>1, <1>2, <1>3 DEF AtStart, InSegment
<1> HIDE DEF new
<1>5. ASSUME c.strict, c.msg_count > 0, ~HasUnsigned(d)
      PROVE  new[c.msg_count].sd.type = "SIG"
  <2>1. ~HasUnsigned(c)
    BY <1>1, <1>4, <1>5 DEF HasUnsigned
  <2> QED
    BY <1>2, <1>5, <2>1 DEF Counts
<1>6. Counts(d, new)
  <2>1. \A i \in 1 .. d.msg_count : Sound(new, i, d.key)
    BY <1>1, <1>2, <1>3, <1>4 DEF Counts
  <2> QED
    BY <1>1, <1>2, <1>5, <2>1 DEF Counts
<1> QED
  BY <1>1, <1>6 DEF AtStart, InSegment

(* X509_STORE_CTX_new fails on an INIT line: nothing is counted.             *)
LEMMA TracksStoreFails ==
    ASSUME NEW c, VCtxOK(c), NEW lines \in Seq(Line), Tracks(c, lines),
           NEW line \in Line, NEW d \in StoreFails(c)
    PROVE  VCtxOK(d) /\ d.state = "ERROR" /\ Tracks(d, Append(lines, line))
<1>1. d = [c EXCEPT !.state = "ERROR"]
  BY DEF StoreFails
<1>2. /\ VCtxOK(d) /\ d.state = "ERROR" /\ d.errors = c.errors /\ d.key = c.key
      /\ d.strict = c.strict /\ d.msg_count = c.msg_count
      /\ d.next_seq = c.next_seq /\ d.last_signed_seq = c.last_signed_seq
  BY <1>1, StopFields
<1>3. c.errors = << >> => Counts(c, Append(lines, line))
  BY CountsAppend DEF Tracks
<1> HIDE DEF StoreFails
<1> QED
  BY <1>2, <1>3 DEF Tracks, Counts, AtStart, InSegment, HasUnsigned

(* The line getline delivers is the next one of the copy.                    *)
LEMMA NextLine ==
    ASSUME AuditTypeOK, LineIsThere
    PROVE  /\ reading /\ ~Stopped(ctx)
           /\ Next1 \in Line /\ Len(seen) \in Nat /\ Len(file) \in Nat
           /\ Len(seen) + 1 \in 1 .. Len(file)
<1>1. Len(seen) \in Nat /\ Len(file) \in Nat /\ Len(seen) < Len(file)
  BY LenProperties DEF AuditTypeOK, LineIsThere
<1>2. Len(seen) + 1 \in 1 .. Len(file)
  BY <1>1
<1> QED
  BY <1>1, <1>2, ElementOfSeq DEF AuditTypeOK, LineIsThere, Next1

(* A call that fails stops the engine.                                       *)
LEMMA ReadFailsStops ==
    ASSUME AuditTypeOK, ReadFails
    PROVE  /\ VCtxOK(ctx') /\ ctx'.state = "ERROR"
           /\ Tracks(ctx, seen) => Tracks(ctx', Append(seen, Next1))
<1>1. Next1 \in Line /\ ~Stopped(ctx) /\ VCtxOK(ctx) /\ seen \in Seq(Line)
  BY NextLine DEF ReadFails, AuditTypeOK
<1>2. CASE Hashes(ctx, Next1) /\ ctx' \in DigestFails(ctx, Next1)
  <2>1. Next1.sd \in SD
    BY <1>1, <1>2, HashesElement
  <2>2. VCtxOK(ctx') /\ ctx'.state = "ERROR"
    BY <1>1, <1>2, <2>1, DigestFailsKeeps
  <2>3. Tracks(ctx, seen) => Tracks(ctx', Append(seen, Next1))
    BY <1>1, <1>2, <2>1, TracksDigestFails
  <2> QED
    BY <2>2, <2>3
<1>3. CASE ctx' \in StoreFails(ctx)
  <2>1. VCtxOK(ctx') /\ ctx'.state = "ERROR"
    <3>1. ctx' = [ctx EXCEPT !.state = "ERROR"]
      BY <1>3 DEF StoreFails
    <3> QED
      BY <1>1, <3>1, StopFields
  <2>2. Tracks(ctx, seen) => Tracks(ctx', Append(seen, Next1))
    BY <1>1, <1>3, TracksStoreFails
  <2> QED
    BY <2>1, <2>2
<1> QED
  BY <1>2, <1>3 DEF ReadFails

(* A step of the audit is one of the signer and its log, or none of theirs.  *)
LEMMA AuditStepIsLogStep ==
    ASSUME [AuditNext]_allVars
    PROVE  [Next]_vars
BY DEF AuditNext, allVars, vars, Arrive, SignerStep, Next, Lose, Repeat, Swap,
   Alter, Forge, Rehash, Suffer, Open, Read, ReadFails, Finish

(* The audit keeps its types.                                                *)
LEMMA AuditStepType ==
    ASSUME AuditTypeOK, [AuditNext]_allVars
    PROVE  AuditTypeOK'
<1>1. TypeOK'
  BY AuditStepIsLogStep, StepType DEF AuditTypeOK
<1> USE DEF AuditTypeOK
<1>2. CASE Arrive
  <2>1. inhand \in Line
    BY <1>2 DEF Arrive, Store, HandOver, TypeOK, SignerTypeOK
  <2>2. file' \in Seq(Line)
    BY <1>2, <2>1, AppendLine DEF Arrive
  <2> QED
    BY <1>1, <1>2, <2>2 DEF Arrive, auditVars
<1>3. CASE SignerStep \/ UNCHANGED allVars
  BY <1>1, <1>3 DEF SignerStep, allVars, copyVars, auditVars
<1>4. CASE Lose \/ Repeat \/ Swap \/ Alter \/ Forge \/ Rehash
  <2>1. /\ file' \in Seq(Line) /\ incidents < MaxIncidents
        /\ incidents' = incidents + 1 /\ UNCHANGED auditVars
    BY <1>4, IncidentDraws
  <2>2. incidents' \in 0 .. MaxIncidents
    BY <2>1, AuditAssumption
  <2> QED
    BY <1>1, <2>1, <2>2 DEF auditVars
<1>5. CASE Open
  <2>1. VCtxOK(ctx')
    BY <1>5, AuditAssumption, VerifierInitType DEF Open
  <2> QED
    BY <1>1, <1>5, <2>1 DEF Open, copyVars
<1>6. CASE Read
  <2>1. Next1 \in Line
    BY <1>6, NextLine DEF Read
  <2>2. seen' \in Seq(Line) /\ VCtxOK(ctx')
    BY <1>6, <2>1, AppendLine, VerifierProcessLineType DEF Read
  <2> QED
    BY <1>1, <1>6, <2>2 DEF Read, copyVars
<1>7. CASE ReadFails
  <2>1. Next1 \in Line
    BY <1>7, NextLine DEF ReadFails
  <2>2. seen' \in Seq(Line) /\ VCtxOK(ctx')
    BY <1>7, <2>1, AppendLine, ReadFailsStops DEF ReadFails
  <2> QED
    BY <1>1, <1>7, <2>2 DEF ReadFails, copyVars
<1>8. CASE Finish
  <2>1. VCtxOK(ctx')
    BY <1>8, FinalizeClean DEF Finish
  <2>2. code' \in {0, 1, 3, 4}
    BY <1>8 DEF Finish, ExitCode
  <2> QED
    BY <1>1, <1>8, <2>1, <2>2 DEF Finish, copyVars
<1> QED
  BY <1>2, <1>3, <1>4, <1>5, <1>6, <1>7, <1>8 DEF AuditNext

(* The audit starts with its types.                                          *)
LEMMA AuditInitType == AuditInit => AuditTypeOK
<1> SUFFICES ASSUME AuditInit
             PROVE  AuditTypeOK
  OBVIOUS
<1>1. TypeOK
  BY InitType DEF AuditInit
<1>2. VCtxOK(ctx)
  BY PipelineAssumption, VerifierInitType DEF AuditInit
<1>3. 0 \in 0 .. MaxIncidents
  BY AuditAssumption
<1>4. << >> \in Seq(Line)
  OBVIOUS
<1>5. code \in {NoCode, 0, 1, 3, 4} /\ FALSE \in BOOLEAN
  BY DEF AuditInit
<1> QED
  BY <1>1, <1>2, <1>3, <1>4, <1>5 DEF AuditInit, AuditTypeOK

(* AuditTypeOK: the copy, whatever happens to it, stays a sequence of lines, *)
(* and the run over it a context and an exit code of main.                   *)
THEOREM AuditTypeCorrect == AuditSpec => []AuditTypeOK
<1>1. AuditTypeOK /\ [AuditNext]_allVars => AuditTypeOK'
  BY AuditStepType
<1> QED
  BY <1>1, AuditInitType, PTL DEF AuditSpec

(***************************************************************************)
(* The inductive invariant of the audit                                     *)
(***************************************************************************)

(* A step of the signer stores the line in hand or leaves the log alone.     *)
LEMMA LogStepCases ==
    ASSUME TypeOK, [Next]_vars
    PROVE  \/ UNCHANGED <<log, v>>
           \/ /\ inhand \in Line /\ log' = Append(log, inhand)
              /\ v' = VerifierProcessLine(v, inhand)
<1>1. CASE Store
  BY <1>1 DEF Store, HandOver, TypeOK, SignerTypeOK
<1>2. CASE ~Store
  BY <1>2 DEF Next, vars, Sign, SignTail, Start, Stop, Kill, Rewrite
<1> QED
  BY <1>1, <1>2

(* An emitted line stays where it is in the log.                             *)
LEMMA LogKeeps ==
    ASSUME TypeOK, [Next]_vars
    PROVE  /\ Len(log) \in Nat /\ DOMAIN log = 1 .. Len(log)
           /\ \A j \in DOMAIN log : j \in DOMAIN log' /\ log'[j] = log[j]
<1>1. log \in Seq(Line) /\ Len(log) \in Nat /\ DOMAIN log = 1 .. Len(log)
  BY LenProperties DEF TypeOK
<1>2. CASE UNCHANGED <<log, v>>
  BY <1>1, <1>2
<1>3. CASE inhand \in Line /\ log' = Append(log, inhand)
  <2>1. /\ log' \in Seq(Line) /\ Len(log') = Len(log) + 1
        /\ \A j \in 1 .. Len(log) : log'[j] = log[j]
    BY <1>1, <1>3, AppendLine
  <2>2. DOMAIN log' = 1 .. (Len(log) + 1)
    BY <2>1, LenProperties
  <2> QED
    BY <1>1, <2>1, <2>2
<1> QED
  BY <1>2, <1>3, LogStepCases

(* An element the signer formats is signed, if at all, over its own digest.  *)
LEMMA ElementsSign ==
    /\ \A q, h, f : SDInit(q, h, f).s = NoSig
    /\ \A q, h : SDMsg(q, h).s = NoSig
    /\ \A q, h, from, to, key :
           LET sd == SDSig(q, h, from, to, HcsSign(key, h)) IN sd.s.digest = sd.h
BY DEF SDInit, SDMsg, SDSig, SDPlain, HcsSign

(* process_final and process_msg return such an element, or none.            *)
LEMMA EntriesSign ==
    /\ \A w, st, m, fails :
           LET sd == ProcessFinal(w, st, m, fails).sd
           IN  sd # NoSD /\ sd.s # NoSig => sd.s.digest = sd.h
    /\ \A w, m, fails :
           LET sd == NextEntry(w, m, fails).sd
           IN  sd # NoSD /\ sd.s # NoSig => sd.s.digest = sd.h
<1>1. ASSUME NEW w, NEW st, NEW m, NEW fails
      PROVE  LET sd == ProcessFinal(w, st, m, fails).sd
             IN  sd # NoSD /\ sd.s # NoSig => sd.s.digest = sd.h
  <2> DEFINE sd == ProcessFinal(w, st, m, fails).sd
  <2>1. sd = NoSD \/ \E q, h, from, to, key : sd = SDSig(q, h, from, to, HcsSign(key, h))
    BY DEF ProcessFinal
  <2> HIDE DEF sd
  <2>2. sd # NoSD => sd.s.digest = sd.h
    BY <2>1, ElementsSign
  <2> QED
    BY <2>2 DEF sd
<1>2. ASSUME NEW w, NEW m, NEW fails
      PROVE  LET sd == NextEntry(w, m, fails).sd
             IN  sd # NoSD /\ sd.s # NoSig => sd.s.digest = sd.h
  <2> DEFINE sd == NextEntry(w, m, fails).sd
  <2>1. \/ sd = NoSD
        \/ \E q, h, f : sd = SDInit(q, h, f)
        \/ \E q, h : sd = SDMsg(q, h)
        \/ \E q, h, from, to, key : sd = SDSig(q, h, from, to, HcsSign(key, h))
    BY DEF NextEntry
  <2> HIDE DEF sd
  <2>2. sd # NoSD /\ sd.s # NoSig => sd.s.digest = sd.h
    BY <2>1, ElementsSign
  <2> QED
    BY <2>2 DEF sd
<1> QED
  BY <1>1, <1>2

(* The line in hand is signed over its own digest.                           *)
LEMMA InHandSigns ==
    ASSUME inhand # NoLine => SignsItself(inhand), [Next]_vars
    PROVE  (inhand # NoLine => SignsItself(inhand))'
<1>1. ASSUME NEW sd, NEW m, NEW fails,
             sd # NoSD /\ sd.s # NoSig => sd.s.digest = sd.h
      PROVE  SignsItself(LineOf(sd, m, fails))
  BY <1>1 DEF SignsItself, LineOf
<1>2. \A m : PassUnsigned(m) => (inhand' # NoLine => SignsItself(inhand'))
  BY DEF PassUnsigned, SignsItself
<1>3. ASSUME NEW sd, NEW m, NEW fails, Deliver(sd, m, fails),
             sd # NoSD /\ sd.s # NoSig => sd.s.digest = sd.h
      PROVE  inhand' # NoLine => SignsItself(inhand')
  BY <1>1, <1>2, <1>3 DEF Deliver
<1>4. ASSUME NEW m, NEW fails, DoAction(m, fails)
      PROVE  inhand' # NoLine => SignsItself(inhand')
  <2>1. CASE PayloadFails(m, fails)
    BY <1>2, <2>1 DEF PayloadFails
  <2>2. CASE InitFails(fails) \/ HashFails(m, fails)
    <3>1. inhand' = inhand
      BY <2>2 DEF InitFails, HashFails, signerVars
    <3> QED
      BY <3>1
  <2>3. CASE FinishOldChain(m, fails)
    BY <1>3, <2>3, EntriesSign DEF FinishOldChain
  <2>4. CASE ExtendChain(m, fails)
    <3> DEFINE sd == NextEntry(Current(m, fails), m, fails).sd
    <3>1. sd # NoSD /\ sd.s # NoSig => sd.s.digest = sd.h
      BY EntriesSign
    <3>2. IF sd = NoSD THEN inhand' = inhand ELSE Deliver(sd, m, fails)
      BY <2>4 DEF ExtendChain
    <3> HIDE DEF sd
    <3> QED
      BY <1>3, <3>1, <3>2
  <2> QED
    BY <1>4, <2>1, <2>2, <2>3, <2>4 DEF DoAction
<1>5. ASSUME NEW fails, FinalSign(fails)
      PROVE  inhand' # NoLine => SignsItself(inhand')
  <2>1. inhand' = inhand \/ \E q, h, from, to, key :
            inhand' = LineOf(SDSig(q, h, from, to, HcsSign(key, h)), EmptyMsg, fails)
    BY <1>5 DEF FinalSign
  <2> QED
    BY <1>1, <2>1, ElementsSign
<1>6. CASE \E m \in Msgs : Sign(m)
  BY <1>4, <1>6 DEF Sign
<1>7. CASE SignTail
  BY <1>5, <1>7 DEF SignTail
<1>8. CASE Store \/ Start \/ Stop \/ Kill \/ Rewrite \/ UNCHANGED vars
  <2>1. inhand' = inhand \/ inhand' = NoLine
    BY <1>8 DEF Store, HandOver, Start, CreateWorker, Stop, FreeWorker, Kill, Crash,
       Rewrite, Reconfigure, vars, signerVars
  <2> QED
    BY <2>1
<1> QED
  BY <1>6, <1>7, <1>8 DEF Next

(* Signatures on the copy and in the run sign emitted entries.               *)
LEMMA StemsStep ==
    ASSUME AuditTypeOK, AuditIInv, [AuditNext]_allVars
    PROVE  (Stems(file) /\ Stems(seen))'
<1>1. TypeOK /\ [Next]_vars /\ file \in Seq(Line) /\ seen \in Seq(Line)
  BY AuditStepIsLogStep DEF AuditTypeOK
<1>2. Stems(file) /\ Stems(seen)
  BY DEF AuditIInv
<1> DEFINE SignsLater(line) ==
               line.sd # NoSD /\ line.sd.s # NoSig =>
                   \E j \in DOMAIN log' :
                       log'[j].sd # NoSD /\ log'[j].sd.h = line.sd.s.digest
           StemsLater(lines) == \A i \in DOMAIN lines : SignsLater(lines[i])
<1>3. \A line : SignsEmitted(line) => SignsLater(line)
  BY <1>1, LogKeeps DEF SignsEmitted
<1>4. StemsLater(file) /\ StemsLater(seen)
  BY <1>2, <1>3 DEF Stems
<1>5. ASSUME NEW lines \in Seq(Line), StemsLater(lines), NEW line \in Line,
             SignsLater(line)
      PROVE  StemsLater(Append(lines, line))
  <2> DEFINE new == Append(lines, line)
  <2>1. /\ new \in Seq(Line) /\ Len(lines) \in Nat /\ Len(new) = Len(lines) + 1
        /\ \A i \in 1 .. Len(lines) : new[i] = lines[i]
        /\ new[Len(lines) + 1] = line
    BY <1>5, AppendLine
  <2>2. DOMAIN new = 1 .. Len(new) /\ DOMAIN lines = 1 .. Len(lines)
    BY <1>5, <2>1, LenProperties
  <2> HIDE DEF new, SignsLater
  <2>3. ASSUME NEW i \in DOMAIN new
        PROVE  SignsLater(new[i])
    <3>1. CASE i = Len(lines) + 1
      BY <1>5, <2>1, <3>1
    <3>2. CASE i # Len(lines) + 1
      <4>1. i \in DOMAIN lines /\ new[i] = lines[i]
        BY <2>1, <2>2, <3>2
      <4> QED
        BY <1>5, <4>1
    <3> QED
      BY <3>1, <3>2
  <2> QED
    BY <2>3 DEF new
<1> SUFFICES StemsLater(file') /\ StemsLater(seen')
  BY DEF Stems, SignsEmitted
<1>7. CASE Arrive
  <2>1. inhand \in Line /\ log' = Append(log, inhand) /\ log \in Seq(Line)
        /\ inhand # NoLine /\ SignsItself(inhand)
    BY <1>1, <1>7 DEF Arrive, Store, HandOver, TypeOK, SignerTypeOK, AuditIInv
  <2>2. /\ log' \in Seq(Line) /\ Len(log) \in Nat /\ Len(log') = Len(log) + 1
        /\ log'[Len(log) + 1] = inhand
    BY <2>1, AppendLine
  <2>3. Len(log) + 1 \in DOMAIN log'
    BY <2>2, LenProperties
  <2>4. SignsLater(inhand)
    BY <2>1, <2>2, <2>3 DEF SignsItself
  <2>5. file' = Append(file, inhand) /\ seen' = seen
    BY <1>7 DEF Arrive, auditVars
  <2> HIDE DEF StemsLater, SignsLater
  <2> QED
    BY <1>1, <1>4, <1>5, <2>1, <2>4, <2>5
<1>8. CASE SignerStep \/ Open \/ Finish \/ UNCHANGED allVars
  <2>1. file' = file /\ (seen' = seen \/ seen' = << >>)
    BY <1>8 DEF SignerStep, Open, Finish, allVars, copyVars, auditVars
  <2>2. StemsLater(<< >>)
    OBVIOUS
  <2> HIDE DEF StemsLater
  <2> QED
    BY <1>4, <2>1, <2>2
<1>9. CASE Lose \/ Repeat \/ Swap \/ Alter \/ Forge \/ Rehash
  <2>1. /\ \A i \in DOMAIN file' : \E j \in DOMAIN file :
               SameSeal(file'[i], file[j])
        /\ seen' = seen
    BY <1>1, <1>9, IncidentDraws DEF auditVars
  <2>2. StemsLater(file')
    <3> SUFFICES ASSUME NEW i \in DOMAIN file'
                 PROVE  SignsLater(file'[i])
      OBVIOUS
    <3>1. PICK n \in DOMAIN file : SameSeal(file'[i], file[n])
      BY <2>1
    <3>2. SignsLater(file[n])
      BY <1>4
    <3> QED
      BY <3>1, <3>2 DEF SameSeal
  <2> HIDE DEF StemsLater
  <2> QED
    BY <1>4, <2>1, <2>2
<1>10. CASE Read \/ ReadFails
  <2>1. /\ Next1 \in Line /\ Len(seen) + 1 \in 1 .. Len(file)
        /\ seen' = Append(seen, Next1) /\ file' = file
    BY <1>10, NextLine DEF Read, ReadFails, copyVars
  <2>2. Len(seen) + 1 \in DOMAIN file
    BY <1>1, <2>1, LenProperties
  <2>3. SignsLater(Next1)
    BY <1>4, <2>2 DEF Next1
  <2> HIDE DEF StemsLater, SignsLater
  <2> QED
    BY <1>1, <1>4, <1>5, <2>1, <2>3
<1> QED
  BY <1>7, <1>8, <1>9, <1>10 DEF AuditNext

(* Without an incident the copy stays the log.                               *)
LEMMA CopyIntactStep ==
    ASSUME AuditTypeOK, AuditIInv, [AuditNext]_allVars
    PROVE  CopyIntact'
<1> SUFFICES ASSUME incidents' = 0
             PROVE  /\ file' = log' /\ Len(seen') <= Len(log')
                    /\ \A i \in DOMAIN seen' : seen'[i] = log'[i]
  BY DEF CopyIntact
<1>1. /\ TypeOK /\ [Next]_vars /\ file \in Seq(Line) /\ seen \in Seq(Line)
      /\ log \in Seq(Line) /\ incidents \in Nat
  BY AuditStepIsLogStep, AuditAssumption DEF AuditTypeOK, TypeOK
<1>2. /\ Len(seen) \in Nat /\ DOMAIN seen = 1 .. Len(seen) /\ Len(log) \in Nat
  BY <1>1, LenProperties
<1>3. incidents = 0 => /\ file = log /\ Len(seen) <= Len(log)
                       /\ \A i \in DOMAIN seen : seen[i] = log[i]
  BY DEF AuditIInv, CopyIntact
<1>4. CASE Arrive
  <2>1. /\ inhand \in Line /\ log' = Append(log, inhand) /\ seen' = seen
        /\ file' = Append(file, inhand) /\ incidents = 0
    BY <1>1, <1>4 DEF Arrive, Store, HandOver, TypeOK, SignerTypeOK, auditVars
  <2>2. /\ Len(log') = Len(log) + 1
        /\ \A i \in 1 .. Len(log) : log'[i] = log[i]
    BY <1>1, <2>1, AppendLine
  <2>3. Len(seen') <= Len(log')
    BY <1>2, <1>3, <2>1, <2>2
  <2>4. \A i \in DOMAIN seen' : seen'[i] = log'[i]
    BY <1>2, <1>3, <2>1, <2>2
  <2> QED
    BY <1>3, <2>1, <2>3, <2>4
<1>5. CASE Lose \/ Repeat \/ Swap \/ Alter \/ Forge \/ Rehash
  BY <1>1, <1>5, IncidentDraws
<1>6. CASE SignerStep \/ Finish \/ UNCHANGED allVars
  <2>1. file' = file /\ seen' = seen /\ incidents' = incidents /\ log' = log
    BY <1>6 DEF SignerStep, Finish, allVars, copyVars, auditVars, Sign, SignTail,
       Start, Stop, Kill, Rewrite, vars
  <2> QED
    BY <1>3, <2>1
<1>7. CASE Open
  <2>1. /\ file' = file /\ seen' = << >> /\ incidents' = incidents /\ log' = log
    BY <1>7 DEF Open, copyVars, vars
  <2>2. Len(seen') = 0 /\ DOMAIN seen' = {}
    BY <2>1
  <2> QED
    BY <1>2, <1>3, <2>1, <2>2
<1>8. CASE Read \/ ReadFails
  <2>1. /\ Next1 \in Line /\ Len(seen) + 1 \in 1 .. Len(file)
        /\ seen' = Append(seen, Next1) /\ file' = file /\ log' = log
        /\ incidents = 0
    BY <1>8, NextLine DEF Read, ReadFails, copyVars, vars
  <2>2. /\ seen' \in Seq(Line) /\ Len(seen') = Len(seen) + 1
        /\ \A i \in 1 .. Len(seen) : seen'[i] = seen[i]
        /\ seen'[Len(seen) + 1] = Next1
    BY <1>1, <2>1, AppendLine
  <2>3. DOMAIN seen' = 1 .. (Len(seen) + 1)
    BY <2>2, LenProperties
  <2>4. Len(seen') <= Len(log')
    BY <1>2, <1>3, <2>1, <2>2
  <2>5. \A i \in DOMAIN seen' : seen'[i] = log'[i]
    BY <1>2, <1>3, <2>1, <2>2, <2>3 DEF Next1
  <2> QED
    BY <1>3, <2>1, <2>4, <2>5
<1> QED
  BY <1>4, <1>5, <1>6, <1>7, <1>8 DEF AuditNext

(* Exit code 0 is that of a run that recorded nothing.                       *)
LEMMA ExitCodeZero == \A c : ExitCode(c) = 0 <=> VerifierPassed(c)
BY DEF ExitCode

(* The exit code stays that of the finalised context.                        *)
LEMMA CodeFitsStep ==
    ASSUME AuditTypeOK, AuditIInv, [AuditNext]_allVars
    PROVE  CodeFits'
<1>1. CodeFits /\ VCtxOK(ctx)
  BY DEF AuditIInv, AuditTypeOK
<1>2. CASE UNCHANGED auditVars
  BY <1>1, <1>2 DEF CodeFits, auditVars, HasUnsigned
<1>3. CASE Open
  BY <1>3 DEF Open, CodeFits, NoCode
<1>4. CASE Read \/ ReadFails
  BY <1>1, <1>4 DEF Read, ReadFails, LineIsThere, CodeFits, NoCode
<1>5. CASE Finish
  <2>1. /\ ~reading' /\ ctx' = VerifierFinalize(ctx) /\ code' = ExitCode(ctx')
    BY <1>5 DEF Finish
  <2>2. /\ ctx'.state = "DONE" /\ ctx'.strict = ctx.strict
        /\ ctx'.next_seq = ctx.next_seq
        /\ ctx'.last_signed_seq = ctx.last_signed_seq
        /\ ctx'.errors = << >> /\ ctx.strict => ~HasUnsigned(ctx)
    BY <1>1, <2>1, FinalizeClean
  <2>3. code' = 0 => ctx'.errors = << >>
    BY <2>1, ExitCodeZero DEF VerifierPassed
  <2>4. code' = 0 /\ ctx'.strict => ~HasUnsigned(ctx)'
    BY <2>2, <2>3 DEF HasUnsigned
  <2> QED
    BY <2>1, <2>2, <2>4 DEF CodeFits
<1>6. CASE Lose \/ Repeat \/ Swap \/ Alter \/ Forge \/ Rehash
  BY <1>2, <1>6, IncidentDraws DEF AuditTypeOK
<1> QED
  BY <1>2, <1>3, <1>4, <1>5, <1>6 DEF AuditNext, Arrive, SignerStep, allVars

(* The verifier keeps following the log, the program what it reads.          *)
LEMMA FollowsStep ==
    ASSUME AuditTypeOK, AuditIInv, [AuditNext]_allVars
    PROVE  Follows'
<1>1. /\ TypeOK /\ [Next]_vars /\ log \in Seq(Line) /\ VCtxOK(v)
      /\ seen \in Seq(Line) /\ VCtxOK(ctx)
  BY AuditStepIsLogStep DEF AuditTypeOK, TypeOK
<1>2. Tracks(v, log) /\ (v.errors = << >> => ~Stopped(v)) /\ Tracks(ctx, seen)
  BY DEF AuditIInv, Follows
<1>3. (Tracks(v, log) /\ (v.errors = << >> => ~Stopped(v)))'
  <2>1. CASE UNCHANGED <<log, v>>
    BY <1>2, <2>1
  <2>2. CASE /\ inhand \in Line /\ log' = Append(log, inhand)
             /\ v' = VerifierProcessLine(v, inhand)
    <3>1. Tracks(v, log)'
      BY <1>1, <1>2, <2>2, TracksGrows
    <3>2. CASE Stopped(v)
      <4>1. v' = v
        BY <2>2, <3>2 DEF VerifierProcessLine
      <4> QED
        BY <1>2, <3>1, <3>2, <4>1
    <3>3. CASE ~Stopped(v)
      <4>1. v'.errors = << >> => v'.state = "PROCESSING"
        BY <1>1, <2>2, <3>3, LineClean DEF Advanced
      <4> QED
        BY <3>1, <4>1 DEF Stopped
    <3> QED
      BY <3>2, <3>3
  <2> QED
    BY <1>1, <2>1, <2>2, LogStepCases
<1>4. Tracks(ctx, seen)'
  <2>1. CASE UNCHANGED auditVars
    BY <1>2, <2>1 DEF auditVars
  <2>2. CASE Open
    <3>1. PICK opts \in VOpts : ctx' = VerifierInit(opts)
      BY <2>2, AuditAssumption DEF Open
    <3> QED
      BY <2>2, <3>1, TracksInit DEF Open
  <2>3. CASE Read
    BY <1>1, <1>2, <2>3, NextLine, TracksGrows DEF Read
  <2>4. CASE ReadFails
    BY <1>2, <2>4, ReadFailsStops DEF ReadFails
  <2>5. CASE Finish
    BY <1>1, <1>2, <2>5, TracksFinalize DEF Finish
  <2>6. CASE Lose \/ Repeat \/ Swap \/ Alter \/ Forge \/ Rehash
    BY <2>1, <2>6, IncidentDraws DEF AuditTypeOK
  <2> QED
    BY <2>1, <2>2, <2>3, <2>4, <2>5, <2>6 DEF AuditNext, Arrive, SignerStep, allVars
<1> QED
  BY <1>3, <1>4 DEF Follows

(* The audit starts with an empty copy of an empty log.                      *)
LEMMA AuditInvInit ==
    ASSUME AuditInit
    PROVE  AuditIInv
<1>1. /\ log = << >> /\ file = << >> /\ seen = << >> /\ ~reading
      /\ v = VerifierInit(Opts) /\ ctx = VerifierInit(Opts) /\ code = NoCode
      /\ inhand = NoLine
  BY DEF AuditInit, Init, SignerInit
<1>2. Stems(file) /\ Stems(seen) /\ CopyIntact
  BY <1>1 DEF Stems, CopyIntact
<1>3. CodeFits
  BY <1>1 DEF CodeFits, NoCode
<1>4. Tracks(v, log) /\ Tracks(ctx, seen)
  BY <1>1, TracksInit, PipelineAssumption
<1>5. ~Stopped(v)
  BY <1>1 DEF Stopped, VerifierInit
<1> QED
  BY <1>1, <1>2, <1>3, <1>4, <1>5 DEF AuditIInv, Follows

(* What holds at every step of every audit, whatever is damaged and whatever *)
(* fails.                                                                    *)
THEOREM AuditInvariant == AuditSpec => [](AuditTypeOK /\ AuditIInv)
<1>1. AuditInit => AuditTypeOK /\ AuditIInv
  BY AuditInitType, AuditInvInit
<1>2. AuditTypeOK /\ AuditIInv /\ [AuditNext]_allVars => (AuditTypeOK /\ AuditIInv)'
  <2> SUFFICES ASSUME AuditTypeOK, AuditIInv, [AuditNext]_allVars
               PROVE  (AuditTypeOK /\ AuditIInv)'
    OBVIOUS
  <2>1. AuditTypeOK'
    BY AuditStepType
  <2>2. (Stems(file) /\ Stems(seen))' /\ CopyIntact' /\ CodeFits' /\ Follows'
    BY StemsStep, CopyIntactStep, CodeFitsStep, FollowsStep
  <2>3. (inhand # NoLine => SignsItself(inhand))'
    BY AuditStepIsLogStep, InHandSigns DEF AuditIInv
  <2> QED
    BY <2>1, <2>2, <2>3 DEF AuditIInv
<1> QED
  BY <1>1, <1>2, PTL DEF AuditSpec

(***************************************************************************)
(* What exit code 0 says of the lines that were read                        *)
(***************************************************************************)

(* After exit code 0 the lines counted are sound, and Counted is them.       *)
LEMMA AcceptedRun ==
    ASSUME AuditTypeOK, AuditIInv, code = 0
    PROVE  /\ ctx.errors = << >> /\ Counts(ctx, seen)
           /\ ctx.strict => ~HasUnsigned(ctx)
           /\ ctx.msg_count \in Nat /\ ctx.msg_count <= Len(seen)
           /\ Len(Counted) = ctx.msg_count /\ DOMAIN Counted = 1 .. ctx.msg_count
           /\ \A i \in 1 .. ctx.msg_count :
                  /\ Counted[i] = seen[i] /\ i \in 1 .. Len(seen)
                  /\ seen[i] \in Line /\ Sound(seen, i, ctx.key)
<1>1. /\ seen \in Seq(Line) /\ VCtxOK(ctx) /\ Len(seen) \in Nat
      /\ ctx.msg_count \in Nat
  BY LenProperties DEF AuditTypeOK, VCtxOK, VCtx
<1>2. CodeFits /\ Tracks(ctx, seen)
  BY DEF AuditIInv, Follows
<1>3. ctx.errors = << >> /\ (ctx.strict => ~HasUnsigned(ctx))
  BY <1>2, ExitCodeZero DEF CodeFits, NoCode, VerifierPassed
<1>4. Counts(ctx, seen)
  BY <1>2, <1>3 DEF Tracks
<1>5. ctx.msg_count <= Len(seen) /\ \A i \in 1 .. ctx.msg_count : Sound(seen, i, ctx.key)
  BY <1>4 DEF Counts
<1>6. /\ Counted \in Seq(Line) /\ Len(Counted) = ctx.msg_count
      /\ \A j \in 1 .. ctx.msg_count : Counted[j] = seen[j]
  <2> DEFINE t == SubSeq(seen, 1, ctx.msg_count)
  <2>1. 1 \in Nat \ {0} /\ 1 <= ctx.msg_count + 1
    BY <1>1
  <2>2. /\ t \in Seq(Line) /\ Len(t) = ctx.msg_count - 1 + 1
        /\ \A j \in 1 .. Len(t) : t[j] = seen[1 + j - 1]
    BY <1>1, <1>5, <2>1, SubSeqDraws
  <2> HIDE DEF t
  <2>3. Len(t) = ctx.msg_count /\ \A j \in 1 .. ctx.msg_count : t[j] = seen[j]
    BY <1>1, <2>2
  <2> QED
    BY <2>2, <2>3 DEF t, Counted
<1>7. \A i \in 1 .. ctx.msg_count : i \in 1 .. Len(seen)
  BY <1>1, <1>5
<1>8. \A i \in 1 .. ctx.msg_count : seen[i] \in Line
  BY <1>1, <1>7, ElementOfSeq
<1> QED
  BY <1>1, <1>3, <1>4, <1>5, <1>6, <1>7, <1>8, LenProperties

(* StrictSegmentsSigned: a strict run with exit code 0 counted no segment    *)
(* whose last line is not a SIG, whatever the copy went through and whichever *)
(* call of the verifier failed (verifier.c 259-268, 462-477).                *)
THEOREM StrictIsSigned == AuditSpec => []StrictSegmentsSigned
<1>1. AuditTypeOK /\ AuditIInv => StrictSegmentsSigned
  <2> SUFFICES ASSUME AuditTypeOK, AuditIInv, code = 0, ctx.strict,
                      NEW i \in DOMAIN Counted,
                      i = Len(Counted) \/ Counted[i + 1].sd.type = "INIT"
               PROVE  Counted[i].sd.type = "SIG"
    BY DEF StrictSegmentsSigned
  <2> DEFINE n == ctx.msg_count
  <2>1. /\ n \in Nat /\ i \in 1 .. n /\ Len(Counted) = n /\ ~HasUnsigned(ctx)
        /\ \A j \in 1 .. n : Counted[j] = seen[j]
    BY AcceptedRun
  <2>2. /\ \A j \in 2 .. n : seen[j].sd.type = "INIT" => seen[j - 1].sd.type = "SIG"
        /\ n > 0 /\ ~HasUnsigned(ctx) => seen[n].sd.type = "SIG"
    BY AcceptedRun DEF Counts
  <2> HIDE DEF n, Counted
  <2>3. CASE i = n
    BY <2>1, <2>2, <2>3
  <2>4. CASE i # n
    <3>1. i + 1 \in 2 .. n /\ i + 1 \in 1 .. n /\ (i + 1) - 1 = i
      BY <2>1, <2>4
    <3>2. seen[i + 1].sd.type = "INIT"
      BY <2>1, <2>4, <3>1
    <3> QED
      BY <2>1, <2>2, <3>1, <3>2
  <2> QED
    BY <2>3, <2>4
<1> QED
  BY <1>1, AuditInvariant, PTL

(* The largest element of a set is its Max.                                  *)
LEMMA MaxIs ==
    ASSUME NEW S \in SUBSET Int, NEW s \in S, \A x \in S : x <= s
    PROVE  Max(S) = s
<1> DEFINE t == Max(S)
<1>1. \A y \in S : y \in Int /\ s >= y
  OBVIOUS
<1>2. t \in S /\ \A y \in S : t >= y
  BY <1>1 DEF Max
<1> HIDE DEF t
<1>3. t \in Int /\ s \in Int /\ t <= s /\ t >= s
  BY <1>1, <1>2
<1>4. t = s
  BY <1>3
<1> QED
  BY <1>4 DEF t

(* SignedRangesTile: after exit code 0 every counted signature covers what   *)
(* follows the signature before it in its segment, up to itself (338-366).   *)
THEOREM RangesTile == AuditSpec => []SignedRangesTile
<1>1. AuditTypeOK /\ AuditIInv => SignedRangesTile
  <2> SUFFICES ASSUME AuditTypeOK, AuditIInv, code = 0,
                      NEW i \in DOMAIN Counted, Counted[i].sd.type = "SIG"
               PROVE  /\ Counted[i].sd.qt = Counted[i].sd.q
                      /\ Counted[i].sd.qf = 1 + Max(SignedBefore(i) \cup {0})
    BY DEF SignedRangesTile
  <2> DEFINE n == ctx.msg_count
             sd == seen[i].sd
             s == sd.qf - 1
             S == SignedBefore(i) \cup {0}
  <2>1. /\ n \in Nat /\ i \in 1 .. n
        /\ \A j \in 1 .. n : /\ Counted[j] = seen[j] /\ seen[j] \in Line
                             /\ Sound(seen, j, ctx.key)
    BY AcceptedRun
  <2> HIDE DEF n, Counted
  <2>2. sd.type = "SIG" /\ Sound(seen, i, ctx.key)
    BY <2>1
  <2>3. sd.qt = sd.q /\ sd.qf > 0 /\ Reach(seen, i, s) /\ sd # NoSD
    BY <2>2 DEF Sound, Chains
  <2>4. \A j \in 1 .. n : seen[j].sd \in SD
    BY <2>1 DEF Sound, Chains, Line
  <2>5. sd.qf \in Nat /\ s \in Nat /\ sd.qf = 1 + s
    BY <2>1, <2>3, <2>4 DEF SD
  <2>6. \A j \in 1 .. n : seen[j].sd.q \in Nat
    BY <2>4 DEF SD
  <2> HIDE DEF sd, s
  <2>7. \A k \in 1 .. (i - 1) :
            (/\ Counted[k].sd.type = "SIG"
             /\ \A m \in k .. i : Counted[m].sd.type # "INIT") <=> SignedIn(seen, k, i)
    <3> SUFFICES ASSUME NEW k \in 1 .. (i - 1)
                 PROVE  (/\ Counted[k].sd.type = "SIG"
                         /\ \A m \in k .. i : Counted[m].sd.type # "INIT") <=>
                            SignedIn(seen, k, i)
      OBVIOUS
    <3>1. k \in 1 .. n /\ Counted[k] = seen[k] /\ Counted[i] = seen[i]
      BY <2>1
    <3>2. ASSUME Counted[k].sd.type = "SIG",
                 \A m \in k .. i : Counted[m].sd.type # "INIT"
          PROVE  SignedIn(seen, k, i)
      <4>1. \A m \in (k + 1) .. (i - 1) : m \in k .. i /\ Counted[m] = seen[m]
        BY <2>1
      <4> QED
        BY <3>1, <3>2, <4>1 DEF SignedIn
    <3>3. ASSUME SignedIn(seen, k, i), NEW m \in k .. i
          PROVE  Counted[m].sd.type # "INIT"
      <4>1. m = k \/ m = i \/ m \in (k + 1) .. (i - 1)
        BY <2>1
      <4>2. Counted[m] = seen[m]
        BY <2>1
      <4> QED
        BY <2>2, <3>1, <3>3, <4>1, <4>2 DEF SignedIn, sd
    <3>4. SignedIn(seen, k, i) => Counted[k].sd.type = "SIG"
      BY <3>1 DEF SignedIn
    <3> QED
      BY <3>2, <3>3, <3>4
  <2>8. SignedBefore(i) = {seen[j].sd.q : j \in {k \in 1 .. (i - 1) : SignedIn(seen, k, i)}}
    <3>1. {k \in 1 .. (i - 1) : /\ Counted[k].sd.type = "SIG"
                                /\ \A m \in k .. i : Counted[m].sd.type # "INIT"}
          = {k \in 1 .. (i - 1) : SignedIn(seen, k, i)}
      BY <2>7
    <3>2. \A j \in 1 .. (i - 1) : Counted[j] = seen[j]
      BY <2>1
    <3> QED
      BY <3>1, <3>2 DEF SignedBefore
  <2>9. S \in SUBSET Int /\ s \in S /\ \A x \in S : x <= s
    <3>1. \A j \in 1 .. (i - 1) : j \in 1 .. n
      BY <2>1
    <3>2. ASSUME NEW x \in S
          PROVE  x \in Int /\ x <= s
      <4>1. CASE x = 0
        BY <2>5, <4>1
      <4>2. CASE x # 0
        <5>1. PICK j \in 1 .. (i - 1) : SignedIn(seen, j, i) /\ x = seen[j].sd.q
          BY <2>8, <4>2
        <5> QED
          BY <2>3, <2>6, <3>1, <5>1 DEF Reach
      <4> QED
        BY <4>1, <4>2
    <3>3. s \in S
      <4>1. CASE s = 0
        BY <4>1
      <4>2. CASE s # 0
        <5>1. PICK j \in 1 .. (i - 1) : SignedIn(seen, j, i) /\ seen[j].sd.q = s
          BY <2>3, <4>2 DEF Reach
        <5> QED
          BY <2>8, <5>1
      <4> QED
        BY <4>1, <4>2
    <3> QED
      BY <3>2, <3>3
  <2> HIDE DEF S
  <2>10. Max(S) = s
    BY <2>9, MaxIs
  <2> QED
    BY <2>1, <2>3, <2>5, <2>10 DEF S, sd
<1> QED
  BY <1>1, AuditInvariant, PTL

(* A log the verifier finds nothing in is sound from its first to its last   *)
(* line.                                                                     *)
LEMMA LogIsSound ==
    ASSUME AuditTypeOK, AuditIInv, NoFalseAlarm
    PROVE  /\ log \in Seq(Line) /\ Len(log) \in Nat
           /\ \A j \in 1 .. Len(log) : Sound(log, j, v.key)
           /\ log # << >> => v.state = "PROCESSING"
<1>1. /\ log \in Seq(Line) /\ VCtxOK(v) /\ Len(log) \in Nat
  BY LenProperties DEF AuditTypeOK, TypeOK
<1>2. /\ ~Stopped(v) /\ Counts(v, log) /\ AtStart(v, log) /\ InSegment(v, log)
  BY DEF AuditIInv, Follows, Tracks, NoFalseAlarm, VerifierPassed
<1>3. v.state \in {"EXPECT_INIT", "PROCESSING"}
  BY <1>1, <1>2 DEF Stopped, VCtxOK, VCtx, VStates
<1>4. CASE v.state = "EXPECT_INIT"
  <2>1. log = << >>
    BY <1>2, <1>4 DEF AtStart
  <2> QED
    BY <1>1, <2>1
<1>5. CASE v.state = "PROCESSING"
  BY <1>1, <1>2, <1>5 DEF InSegment, Counts
<1> QED
  BY <1>3, <1>4, <1>5

(* Induction over the natural numbers, for a set instead of a predicate: the *)
(* least number outside it would have a predecessor in it.                   *)
LEMMA CountingUp ==
    ASSUME NEW S, 0 \in S, \A n \in Nat : n \in S => n + 1 \in S
    PROVE  Nat \subseteq S
<1> DEFINE Rest == Nat \ S
           Less == OpToRel(<, Nat)
<1> SUFFICES ASSUME Rest # {} PROVE FALSE
  OBVIOUS
<1>1. PICK x \in Rest : \A y \in Rest : ~(<<y, x>> \in Less)
  <2>1. IsWellFoundedOn(Less, Nat) /\ Rest \subseteq Nat
    BY NatLessThanWellFounded
  <2> HIDE DEF Rest, Less
  <2> QED
    BY <2>1, WFMin
<1>2. x - 1 \in Nat /\ x - 1 < x /\ x \in Nat /\ x - 1 \in Rest
  OBVIOUS
<1>3. <<x - 1, x>> \in Less
  BY <1>2 DEF OpToRel
<1> HIDE DEF Rest, Less
<1> QED
  BY <1>1, <1>2, <1>3

(* What a signature accepted vouches for, of a log that verifies: the digest *)
(* it signs is that of an emitted line; a digest fixes the number, the       *)
(* message and the digest before it, and so on back to the INIT line.        *)
LEMMA AcceptedStems ==
    ASSUME AuditTypeOK, AuditIInv, NoFalseAlarm
    PROVE  AcceptedIsAuthentic
<1> SUFFICES ASSUME code = 0, NEW k \in DOMAIN Counted, Counted[k].sd.type = "SIG"
             PROVE  LET q == Counted[k].sd.q
                    IN  /\ q <= k /\ Counted[k - q + 1].sd.type = "INIT"
                        /\ \E j \in q .. Len(log) : \A x \in 0 .. q - 1 :
                               SameLine(log[j - x], Counted[k - x])
  BY DEF AcceptedIsAuthentic
<1> DEFINE n == ctx.msg_count
           key == ctx.key
           q == seen[k].sd.q
<1>1. /\ n \in Nat /\ n <= Len(seen) /\ k \in 1 .. n
      /\ \A m \in 1 .. n : /\ Counted[m] = seen[m] /\ m \in 1 .. Len(seen)
                           /\ seen[m] \in Line /\ Sound(seen, m, key)
  BY AcceptedRun
<1> HIDE DEF n, key, Counted
<1>2. /\ log \in Seq(Line) /\ Len(log) \in Nat /\ DOMAIN log = 1 .. Len(log)
      /\ seen \in Seq(Line) /\ DOMAIN seen = 1 .. Len(seen)
      /\ \A j \in 1 .. Len(log) : Sound(log, j, v.key)
  BY LogIsSound, LenProperties DEF AuditTypeOK
<1>3. ASSUME NEW m \in 1 .. n, NEW j \in 1 .. Len(log),
             log[j].sd.h = seen[m].sd.h
      PROVE  /\ SameLine(log[j], seen[m])
             /\ seen[m].sd.type # "INIT" =>
                   m > 1 /\ j > 1 /\ log[j - 1].sd.h = seen[m - 1].sd.h
  <2>1. /\ m \in 1 .. Len(seen)
        /\ \A x \in 1 .. m : Sound(seen, x, key)
        /\ \A x \in 1 .. j : Sound(log, x, v.key)
    BY <1>1, <1>2
  <2>2. /\ seen[m].sd.q = log[j].sd.q /\ seen[m].msg = log[j].msg
        /\ seen[m].sd.type # "INIT" =>
              m > 1 /\ j > 1 /\ seen[m - 1].sd.h = log[j - 1].sd.h
    BY <1>2, <1>3, <2>1, SoundMatch
  <2> QED
    BY <1>3, <2>2 DEF SameLine
<1>4. \A m \in 1 .. n :
         /\ seen[m].sd.q \in Nat
         /\ seen[m].sd.type = "INIT" => seen[m].sd.q = 1
         /\ seen[m].sd.type # "INIT" => m > 1 /\ seen[m].sd.q = seen[m - 1].sd.q + 1
  <2>1. \A m \in 1 .. n : Chains(seen, m) /\ seen[m].sd # NoSD
    BY <1>1 DEF Sound, Chains
  <2>2. \A m \in 1 .. n : seen[m].sd \in SD
    BY <1>1, <2>1 DEF Line
  <2> QED
    BY <2>1, <2>2 DEF Chains, SD
<1>5. \A m \in 1 .. n : seen[m].sd.q >= 1
  <2>1. \A m \in 1 .. n : m > 1 => m - 1 \in 1 .. n
    BY <1>1
  <2> QED
    BY <1>4, <2>1
<1>6. PICK j \in 1 .. Len(log) : log[j].sd.h = seen[k].sd.h
  <2>1. seen[k].sd # NoSD /\ seen[k].sd.s # NoSig
        /\ seen[k].sd.s = HcsSign(key, seen[k].sd.h)
    BY <1>1 DEF Sound, Chains
  <2>2. seen[k].sd.s.digest = seen[k].sd.h
    BY <2>1 DEF HcsSign
  <2>3. SignsEmitted(seen[k])
    BY <1>1, <1>2 DEF AuditIInv, Stems
  <2> QED
    BY <1>2, <2>1, <2>2, <2>3 DEF SignsEmitted
<1> DEFINE Back(x) == /\ x < k /\ x < j
                      /\ log[j - x].sd.h = seen[k - x].sd.h
                      /\ seen[k - x].sd.q = q - x
           P == {x \in Nat : x <= q - 1 => Back(x)}
<1>7. q \in Nat /\ q >= 1 /\ k \in Nat /\ j \in Nat
  BY <1>1, <1>4, <1>5
<1> HIDE DEF q
<1>8. 0 \in P
  BY <1>1, <1>6, <1>7 DEF q
<1>9. ASSUME NEW x \in Nat, x \in P PROVE x + 1 \in P
  <2> SUFFICES ASSUME x + 1 <= q - 1 PROVE Back(x + 1)
    OBVIOUS
  <2>1. Back(x) /\ k - x \in 1 .. n /\ j - x \in 1 .. Len(log)
        /\ (k - x) - 1 = k - (x + 1) /\ (j - x) - 1 = j - (x + 1)
    BY <1>1, <1>2, <1>7, <1>9
  <2>2. seen[k - x].sd.q = q - x /\ q - x > 1
    BY <1>7, <2>1
  <2>3. seen[k - x].sd.type # "INIT"
    BY <1>4, <2>1, <2>2
  <2>4. /\ k - x > 1 /\ j - x > 1
        /\ log[j - (x + 1)].sd.h = seen[k - (x + 1)].sd.h
    BY <1>3, <2>1, <2>3
  <2>5. q - x = seen[k - (x + 1)].sd.q + 1
    BY <1>4, <2>1, <2>2, <2>3
  <2>6. k - (x + 1) \in 1 .. n
    BY <1>1, <1>7, <2>4
  <2>7. seen[k - (x + 1)].sd.q = q - (x + 1)
    BY <1>4, <1>7, <2>5, <2>6
  <2> QED
    BY <1>7, <2>4, <2>7
<1>10. \A x \in 0 .. q - 1 : Back(x)
  <2>1. Nat \subseteq P
    <3> HIDE DEF P
    <3> QED
      BY <1>8, <1>9, CountingUp
  <2>2. \A x \in Nat : x <= q - 1 => Back(x)
    BY <2>1
  <2>3. \A x \in 0 .. q - 1 : x \in Nat /\ x <= q - 1
    BY <1>7
  <2> HIDE DEF Back
  <2> QED
    BY <2>2, <2>3
<1>11. \A x \in 0 .. q - 1 :
          k - x \in 1 .. n /\ j - x \in 1 .. Len(log)
          /\ SameLine(log[j - x], Counted[k - x])
  <2> SUFFICES ASSUME NEW x \in 0 .. q - 1
               PROVE  k - x \in 1 .. n /\ j - x \in 1 .. Len(log)
                      /\ SameLine(log[j - x], Counted[k - x])
    OBVIOUS
  <2>1. Back(x) /\ k - x \in 1 .. n /\ j - x \in 1 .. Len(log)
    BY <1>1, <1>2, <1>7, <1>10
  <2>2. Counted[k - x] = seen[k - x]
    BY <1>1, <2>1
  <2> QED
    BY <1>3, <2>1, <2>2
<1>12. /\ q <= k /\ j \in q .. Len(log) /\ k - q + 1 \in 1 .. n
       /\ seen[k - q + 1].sd.q = 1
  <2>1. q - 1 \in 0 .. q - 1 /\ k - (q - 1) = k - q + 1 /\ q - (q - 1) = 1
    BY <1>7
  <2>2. Back(q - 1) /\ k - q + 1 \in 1 .. n
    BY <1>10, <1>11, <2>1
  <2> QED
    BY <1>7, <2>1, <2>2
<1>13. Counted[k - q + 1].sd.type = "INIT"
  <2>1. \A m \in 1 .. n : m > 1 => m - 1 \in 1 .. n
    BY <1>1
  <2>2. \A m \in 1 .. n : seen[m].sd.q = 1 => seen[m].sd.type = "INIT"
    BY <1>4, <1>5, <2>1
  <2> QED
    BY <1>1, <1>12, <2>2
<1>14. Counted[k].sd.q = q
  BY <1>1 DEF q
<1> QED
  BY <1>11, <1>12, <1>13, <1>14

(* AcceptedIsAuthentic, at every moment at which the log as it was emitted   *)
(* verifies.                                                                 *)
THEOREM AcceptedOfVerifiableLog ==
    AuditSpec => [](NoFalseAlarm => AcceptedIsAuthentic)
<1>1. AuditTypeOK /\ AuditIInv => (NoFalseAlarm => AcceptedIsAuthentic)
  BY AcceptedStems
<1> QED
  BY <1>1, AuditInvariant, PTL

(* AcceptedIsAuthentic: with exit code 0 every signature counted vouches for *)
(* all of its segment up to itself, lines the signer emitted in a row,       *)
(* whatever lines were changed and digests recomputed, if nothing failed on  *)
(* the signer's side that spoils its log.                                    *)
THEOREM Authentic ==
    ASSUME Tolerable
    PROVE  AuditSpec => []AcceptedIsAuthentic
BY AcceptedOfVerifiableLog, AuditExtendsPipeline, HonestLogVerifies, PTL

(***************************************************************************)
(* A copy nobody damaged passes                                             *)
(***************************************************************************)

(* No handler changes how strict the run is.                                 *)
LEMMA FatalStrict ==
    ASSUME NEW c, VCtxOK(c), NEW kind \in ErrorKinds
    PROVE  Fatal(c, kind).strict = c.strict
<1>1. TRUE \in BOOLEAN
  OBVIOUS
<1> DEFINE e == AddError(c, TRUE, kind)
<1>2. VCtxOK(e) /\ e.strict = c.strict
  BY <1>1, AddErrorType
<1> HIDE DEF e
<1>3. [e EXCEPT !.state = "ERROR"].strict = e.strict
  BY <1>2 DEF VCtxOK, VCtx
<1> QED
  BY <1>2, <1>3 DEF Fatal, e

(* ... verify_sd_msg_hash                                                    *)
LEMMA VerifyStrict ==
    ASSUME NEW c, VCtxOK(c), NEW sd \in SD, NEW m \in Payload
    PROVE  VerifySdMsgHash(c, sd, m).strict = c.strict
<1> DEFINE bad == sd.q # c.next_seq
           a == AddError(c, bad, "sequence")
           h == HashChainStep(c.chain_hash, c.next_seq, m)
           wrong == h # sd.h
           b == AddError(a, wrong, "chain hash")
<1>1. /\ bad \in BOOLEAN /\ wrong \in BOOLEAN
      /\ {"sequence", "chain hash", "hash length"} \subseteq ErrorKinds
  BY DEF ErrorKinds
<1> HIDE DEF bad, wrong, h
<1>2. VCtxOK(a) /\ a.strict = c.strict
  BY <1>1, AddErrorType
<1> HIDE DEF a
<1>3. VCtxOK(b) /\ b.strict = c.strict
  BY <1>1, <1>2, AddErrorType
<1>4. Fatal(a, "hash length").strict = c.strict
  BY <1>1, <1>2, FatalStrict
<1> HIDE DEF b
<1>5. [b EXCEPT !.chain_hash = h, !.next_seq = b.next_seq + 1,
                !.msg_count = b.msg_count + 1].strict = c.strict
  BY <1>3 DEF VCtxOK, VCtx
<1> QED
  BY <1>4, <1>5 DEF VerifySdMsgHash, a, b, h, bad, wrong

(* ... the steps of an INIT line before its hash                             *)
LEMMA OpenStrict ==
    ASSUME NEW c, VCtxOK(c), NEW cert \in Keys \cup {NoKey}, NEW alg \in Algs
    PROVE  LET keyed == InstallKey(c, cert)
               opened == OpenSegment(CloseSegment(keyed), alg)
           IN  /\ VCtxOK(keyed) /\ keyed.strict = c.strict
               /\ VCtxOK(CloseSegment(keyed))
               /\ CloseSegment(keyed).strict = c.strict
               /\ VCtxOK(opened) /\ opened.strict = c.strict
<1> DEFINE keyed == InstallKey(c, cert)
           tail == keyed.strict /\ HasUnsigned(keyed)
           told == AddError(keyed, tail, "unsigned before segment")
           closed == CloseSegment(keyed)
           opened == OpenSegment(closed, alg)
<1>1. {"certificate required", "certificate chain validation",
       "unsigned before segment", "algorithm changed"} \subseteq ErrorKinds
  BY DEF ErrorKinds
<1>2. VCtxOK(keyed) /\ keyed.strict = c.strict
  <2>1. VCtxOK(keyed)
    BY InstallKeyType
  <2>2. /\ Fatal(c, "certificate required").strict = c.strict
        /\ Fatal(c, "certificate chain validation").strict = c.strict
    BY <1>1, FatalStrict
  <2>3. [c EXCEPT !.key = cert].strict = c.strict
    BY DEF VCtxOK, VCtx
  <2> QED
    BY <2>1, <2>2, <2>3 DEF InstallKey
<1> HIDE DEF keyed
<1>3. tail \in BOOLEAN
  BY <1>2 DEF HasUnsigned, VCtxOK, VCtx
<1>4. closed = IF keyed.state # "PROCESSING" THEN keyed
               ELSE [told EXCEPT !.last_signed_seq = 0]
  BY DEF CloseSegment
<1> HIDE DEF tail
<1>5. VCtxOK(told) /\ told.strict = c.strict
  BY <1>1, <1>2, <1>3, AddErrorType
<1> HIDE DEF told
<1>6. VCtxOK(closed) /\ closed.strict = c.strict
  <2>1. VCtxOK(closed)
    BY <1>2, CloseSegmentType
  <2>2. [told EXCEPT !.last_signed_seq = 0].strict = c.strict
    BY <1>5 DEF VCtxOK, VCtx
  <2> QED
    BY <1>2, <1>4, <2>1, <2>2
<1> HIDE DEF closed
<1>7. VCtxOK(opened) /\ opened.strict = c.strict
  <2>1. VCtxOK(opened)
    BY <1>6, OpenSegmentType
  <2>2. Fatal(closed, "algorithm changed").strict = c.strict
    BY <1>1, <1>6, FatalStrict
  <2>3. opened = IF closed.alg # NoAlg /\ closed.alg # alg
                 THEN Fatal(closed, "algorithm changed")
                 ELSE [closed EXCEPT !.alg = alg,
                          !.chain_hash = ChainInitHash(alg), !.next_seq = 1,
                          !.segment_count = closed.segment_count + 1,
                          !.state = "PROCESSING"]
    BY DEF OpenSegment
  <2>4. [closed EXCEPT !.alg = alg,
            !.chain_hash = ChainInitHash(alg), !.next_seq = 1,
            !.segment_count = closed.segment_count + 1,
            !.state = "PROCESSING"].strict = c.strict
    BY <1>6 DEF VCtxOK, VCtx
  <2> QED
    BY <2>1, <2>2, <2>3, <2>4
<1> QED
  BY <1>2, <1>6, <1>7 DEF keyed, closed

(* ... check_signature                                                       *)
LEMMA SignatureStrict ==
    ASSUME NEW c, VCtxOK(c), NEW sd \in SD
    PROVE  CheckSignature(c, sd).strict = c.strict
<1> DEFINE f == sd.qf # c.last_signed_seq + 1
           from == AddError(c, f, "SIG from")
           to == AddError(from, sd.qt # c.next_seq - 1, "SIG to")
<1>1. /\ f \in BOOLEAN /\ (sd.qt # c.next_seq - 1) \in BOOLEAN /\ TRUE \in BOOLEAN
      /\ {"SIG from", "SIG to", "invalid signature"} \subseteq ErrorKinds
  BY DEF ErrorKinds
<1> HIDE DEF f
<1>2. VCtxOK(from) /\ from.strict = c.strict
  BY <1>1, AddErrorType
<1> HIDE DEF from
<1>3. VCtxOK(to) /\ to.strict = c.strict
  BY <1>1, <1>2, AddErrorType
<1> HIDE DEF to
<1>4. AddError(to, TRUE, "invalid signature").strict = c.strict
  BY <1>1, <1>3, AddErrorType
<1>5. [to EXCEPT !.last_signed_seq = sd.qt,
                 !.sig_count = to.sig_count + 1].strict = c.strict
  BY <1>3 DEF VCtxOK, VCtx
<1> QED
  BY <1>4, <1>5 DEF CheckSignature, to, from, f

(* ... verifier_process_line                                                 *)
LEMMA LineStrict ==
    ASSUME NEW c, VCtxOK(c), NEW line \in Line
    PROVE  VerifierProcessLine(c, line).strict = c.strict
<1> DEFINE sd == line.sd
           m == line.msg
           hashed == VerifySdMsgHash(c, sd, m)
           next == [c EXCEPT !.segment_count = c.segment_count + 1]
<1>1. /\ \A kind \in ErrorKinds : AddError(c, TRUE, kind).strict = c.strict
      /\ \A kind \in ErrorKinds : Fatal(c, kind).strict = c.strict
  <2>1. TRUE \in BOOLEAN
    OBVIOUS
  <2> QED
    BY <2>1, AddErrorType, FatalStrict
<1>2. {"no element", "expected INIT", "message before INIT", "SIG before INIT",
       "CONTINUE before INIT", "missing fingerprint",
       "INIT fingerprint mismatch", "CONTINUE fingerprint mismatch",
       "missing signature"} \subseteq ErrorKinds
  BY DEF ErrorKinds
<1>3. CASE Stopped(c) \/ sd = NoSD
  BY <1>1, <1>2, <1>3 DEF VerifierProcessLine
<1>4. ASSUME ~Stopped(c), sd # NoSD
      PROVE  VerifierProcessLine(c, line).strict = c.strict
  <2>1. /\ sd \in SD /\ m \in Payload /\ line.cert \in Keys \cup {NoKey}
        /\ sd.h.alg \in Algs /\ sd.type \in {"INIT", "MSG", "SIG", "CONTINUE"}
    BY <1>4 DEF Line, SD, SDTypes, Digest
  <2>2. CASE sd.type = "INIT"
    <3> DEFINE keyed == InstallKey(c, line.cert)
               opened == OpenSegment(CloseSegment(keyed), sd.h.alg)
    <3>1. /\ VCtxOK(keyed) /\ keyed.strict = c.strict
          /\ VCtxOK(opened) /\ opened.strict = c.strict
      BY <2>1, OpenStrict
    <3> HIDE DEF keyed, opened
    <3>2. Fatal(keyed, "INIT fingerprint mismatch").strict = c.strict
      BY <1>2, <3>1, FatalStrict
    <3>3. VerifySdMsgHash(opened, sd, m).strict = c.strict
      BY <2>1, <3>1, VerifyStrict
    <3>4. HandleSdInit(c, sd, m, line.cert).strict = c.strict
      BY <1>1, <1>2, <3>1, <3>2, <3>3 DEF HandleSdInit, keyed, opened
    <3> QED
      BY <1>4, <2>2, <3>4 DEF VerifierProcessLine
  <2>3. CASE sd.type = "SIG"
    <3>1. hashed.strict = c.strict
      BY <2>1, VerifyStrict
    <3>2. c.state = "PROCESSING" => VCtxOK(hashed)
      BY <2>1, VerifySdMsgHashType
    <3> HIDE DEF hashed, sd
    <3>3. c.state = "PROCESSING" =>
            /\ AddError(hashed, TRUE, "missing signature").strict = c.strict
            /\ CheckSignature(hashed, sd).strict = c.strict
      <4>1. TRUE \in BOOLEAN
        OBVIOUS
      <4> QED
        BY <1>2, <2>1, <3>1, <3>2, <4>1, AddErrorType, SignatureStrict
    <3>4. HandleSdSig(c, sd, m).strict = c.strict
      BY <1>1, <1>2, <3>1, <3>3 DEF HandleSdSig, hashed
    <3> QED
      BY <1>1, <1>2, <1>4, <2>3, <3>4 DEF VerifierProcessLine, sd
  <2>4. CASE sd.type = "CONTINUE"
    <3>1. VCtxOK(next) /\ next.strict = c.strict
      BY SMTT(60) DEF VCtxOK, VCtx
    <3> HIDE DEF next
    <3>2. VerifySdMsgHash(next, sd, m).strict = c.strict
      BY <2>1, <3>1, VerifyStrict
    <3>3. HandleSdContinue(c, sd, m).strict = c.strict
      BY <1>1, <1>2, <3>2 DEF HandleSdContinue, next
    <3> QED
      BY <1>1, <1>2, <1>4, <2>4, <3>3 DEF VerifierProcessLine
  <2>5. CASE sd.type = "MSG"
    <3>1. HandleSdMsg(c, sd, m).strict = c.strict
      BY <1>1, <1>2, <2>1, VerifyStrict DEF HandleSdMsg
    <3> QED
      BY <1>1, <1>2, <1>4, <2>5, <3>1 DEF VerifierProcessLine
  <2> QED
    BY <2>1, <2>2, <2>3, <2>4, <2>5
<1> QED
  BY <1>3, <1>4

(* A digest that fails does not change how strict the run is.                *)
LEMMA DigestStrict ==
    ASSUME NEW c, VCtxOK(c), NEW line \in Line, line.sd \in SD,
           NEW d \in DigestFails(c, line)
    PROVE  d.strict = c.strict
<1> DEFINE sd == line.sd
           keyed == InstallKey(c, line.cert)
           closed == CloseSegment(keyed)
           opened == OpenSegment(closed, sd.h.alg)
           next == [c EXCEPT !.segment_count = c.segment_count + 1]
           at == CASE sd.type = "INIT" -> opened
                   [] sd.type = "CONTINUE" -> next
                   [] OTHER -> c
           bad == sd.q # at.next_seq
           e == AddError(at, bad, "sequence")
<1>1. /\ line.cert \in Keys \cup {NoKey} /\ sd.h.alg \in Algs
      /\ "sequence" \in ErrorKinds /\ bad \in BOOLEAN
  BY DEF Line, SD, Digest, ErrorKinds
<1>2. \/ d = [e EXCEPT !.state = "ERROR"]
      \/ d = [closed EXCEPT !.state = "ERROR"]
  BY DEF DigestFails
<1>3. /\ VCtxOK(closed) /\ closed.strict = c.strict
      /\ VCtxOK(opened) /\ opened.strict = c.strict
  BY <1>1, OpenStrict
<1>4. VCtxOK(next) /\ next.strict = c.strict
  BY SMTT(60) DEF VCtxOK, VCtx
<1> HIDE DEF closed, opened, next
<1>5. VCtxOK(at) /\ at.strict = c.strict
  BY <1>3, <1>4
<1> HIDE DEF at, bad
<1>6. VCtxOK(e) /\ e.strict = c.strict
  BY <1>1, <1>5, AddErrorType
<1> HIDE DEF e
<1>7. CASE d = [e EXCEPT !.state = "ERROR"]
  BY <1>6, <1>7, StopFields
<1>8. CASE d = [closed EXCEPT !.state = "ERROR"]
  BY <1>3, <1>8, StopFields
<1> QED
  BY <1>2, <1>7, <1>8

(* Every line that leaves doAction or final_sign carries the certificate of  *)
(* the signer's key if it carries an INIT element.                           *)
LEMMA CertsFitStep ==
    ASSUME Tolerable, TypeOK, CertsFit, [Next]_vars
    PROVE  CertsFit'
<1> SUFFICES ASSUME Embeds
             PROVE  /\ \A i \in DOMAIN log' : CertFits(log'[i])
                    /\ inhand' # NoLine => CertFits(inhand')
  BY DEF CertsFit
<1>1. /\ \A i \in DOMAIN log : CertFits(log[i])
      /\ inhand # NoLine => CertFits(inhand)
  BY DEF CertsFit
<1>2. conf \in Confs /\ conf.key = Opts.key /\ conf.embedcert /\ "cert" \notin Faults
  BY DEF Tolerable, Embeds, TypeOK, SignerTypeOK
<1>3. \A i \in DOMAIN log' : CertFits(log'[i])
  <2>1. CASE Store
    <3>1. /\ log \in Seq(Line) /\ inhand \in Line /\ log' = Append(log, inhand)
          /\ inhand # NoLine
      BY <2>1 DEF Store, HandOver, TypeOK, SignerTypeOK
    <3>2. /\ log' \in Seq(Line) /\ Len(log) \in Nat /\ Len(log') = Len(log) + 1
          /\ \A i \in 1 .. Len(log) : log'[i] = log[i]
          /\ log'[Len(log) + 1] = inhand
      BY <3>1, AppendLine
    <3>3. DOMAIN log' = 1 .. (Len(log) + 1) /\ DOMAIN log = 1 .. Len(log)
      BY <3>1, <3>2, LenProperties
    <3> SUFFICES ASSUME NEW i \in DOMAIN log'
                 PROVE  CertFits(log'[i])
      OBVIOUS
    <3>4. CASE i = Len(log) + 1
      BY <1>1, <3>1, <3>2, <3>4
    <3>5. CASE i # Len(log) + 1
      <4>1. i \in 1 .. Len(log)
        BY <3>2, <3>3, <3>5
      <4> QED
        BY <1>1, <3>2, <3>3, <4>1
    <3> QED
      BY <3>4, <3>5
  <2>2. CASE ~Store
    <3>1. log' = log
      BY <2>2 DEF Next, Sign, SignTail, Start, Stop, Kill, Rewrite, vars
    <3> QED
      BY <1>1, <3>1
  <2> QED
    BY <2>1, <2>2
<1>4. ASSUME NEW sd, NEW m, NEW fails, "cert" \notin fails
      PROVE  CertFits(LineOf(sd, m, fails))
  BY <1>2, <1>4 DEF LineOf, CertFits
<1>5. ASSUME NEW m, PassUnsigned(m)
      PROVE  inhand' # NoLine => CertFits(inhand')
  BY <1>5 DEF PassUnsigned, CertFits
<1>6. ASSUME NEW sd, NEW m, NEW fails, "cert" \notin fails, Deliver(sd, m, fails)
      PROVE  inhand' # NoLine => CertFits(inhand')
  BY <1>4, <1>5, <1>6 DEF Deliver
<1>7. CASE inhand' \in {inhand, NoLine}
  BY <1>1, <1>3, <1>7
<1>8. ASSUME NEW m \in Msgs, Sign(m)
      PROVE  inhand' # NoLine => CertFits(inhand')
  <2>1. PICK fails \in ActionFails : DoAction(m, fails)
    BY <1>8 DEF Sign
  <2>2. "cert" \notin fails
    BY <1>2 DEF ActionFails, FailsOf
  <2>3. CASE PayloadFails(m, fails)
    BY <1>5, <2>3 DEF PayloadFails
  <2>4. CASE InitFails(fails) \/ HashFails(m, fails)
    BY <1>1, <2>4 DEF InitFails, HashFails, signerVars
  <2>5. CASE FinishOldChain(m, fails)
    BY <1>6, <2>2, <2>5 DEF FinishOldChain
  <2>6. CASE ExtendChain(m, fails)
    BY <1>1, <1>6, <2>2, <2>6 DEF ExtendChain
  <2> QED
    BY <2>1, <2>3, <2>4, <2>5, <2>6 DEF DoAction
<1>9. CASE SignTail
  <2>1. PICK fails \in FailsOf({"hash", "sign"}) : FinalSign(fails)
    BY <1>9 DEF SignTail
  <2>2. "cert" \notin fails
    BY <1>2 DEF FailsOf
  <2> QED
    BY <1>1, <1>3, <1>4, <2>1, <2>2 DEF FinalSign
<1>10. CASE Store \/ Start \/ Stop \/ Kill \/ Rewrite \/ UNCHANGED vars
  <2>1. inhand' \in {inhand, NoLine}
    BY <1>10 DEF Store, HandOver, Start, CreateWorker, Stop, FreeWorker, Kill,
       Crash, Rewrite, Reconfigure, vars
  <2> QED
    BY <1>7, <2>1
<1> QED
  BY <1>3, <1>8, <1>9, <1>10 DEF Next

(* The next line of an undamaged copy is sound after those read before it,   *)
(* and brings the certificate if it is an INIT line.                         *)
LEMMA HonestNext ==
    ASSUME Tolerable, AuditTypeOK, IInv, AuditIInv, CertsFit, LineIsThere,
           incidents = 0
    PROVE  /\ Sound(Append(seen, Next1), Len(seen) + 1, Opts.key)
           /\ Embeds => CertFits(Next1)
<1>1. /\ v.errors = << >> /\ v.key = Opts.key
  BY DEF IInv, VerifierContent, Content, Tolerable, AuditTypeOK, TypeOK, SignerTypeOK
<1>2. /\ log \in Seq(Line) /\ Len(log) \in Nat /\ seen \in Seq(Line)
      /\ \A j \in 1 .. Len(log) : Sound(log, j, Opts.key)
  BY <1>1, LogIsSound DEF NoFalseAlarm, VerifierPassed, AuditTypeOK
<1>3. /\ file = log /\ Len(seen) <= Len(log)
      /\ \A i \in DOMAIN seen : seen[i] = log[i]
  BY DEF AuditIInv, CopyIntact
<1>4. Next1 \in Line /\ Len(seen) \in Nat /\ Len(seen) + 1 \in 1 .. Len(log)
  BY <1>3, NextLine
<1> DEFINE new == Append(seen, Next1)
           n == Len(seen) + 1
<1>5. /\ \A i \in 1 .. Len(seen) : new[i] = seen[i]
      /\ new[n] = Next1 /\ DOMAIN seen = 1 .. Len(seen)
  BY <1>2, <1>4, AppendLine, LenProperties
<1>6. n \in Nat \ {0} /\ n \in 1 .. Len(log) /\ Next1 = log[n]
  BY <1>3, <1>4 DEF Next1
<1> HIDE DEF new, Next1
<1>7. \A j \in 1 .. n : log[j] = new[j]
  <2> SUFFICES ASSUME NEW j \in 1 .. n
               PROVE  log[j] = new[j]
    OBVIOUS
  <2>1. CASE j = n
    BY <1>5, <1>6, <2>1
  <2>2. CASE j # n
    <3>1. j \in 1 .. Len(seen)
      BY <1>4, <2>2
    <3> QED
      BY <1>3, <1>5, <3>1
  <2> QED
    BY <2>1, <2>2
<1> HIDE DEF n
<1>8. Sound(new, n, Opts.key)
  BY <1>2, <1>6, <1>7, SoundAgrees
<1>9. Embeds => CertFits(Next1)
  <2>1. n \in DOMAIN log
    BY <1>2, <1>6, LenProperties
  <2> QED
    BY <1>6, <2>1 DEF CertsFit
<1> QED
  BY <1>8, <1>9 DEF new, n

(* A digest that fails on a sound line of a run without errors records none, *)
(* and leaves the key what it was or will be.                                *)
LEMMA SoundDigestFails ==
    ASSUME NEW c, VCtxOK(c), ~Stopped(c), c.errors = << >>, ~c.strict,
           NEW lines \in Seq(Line), Tracks(c, lines), NEW line \in Line,
           NEW k \in Keys, Sound(Append(lines, line), Len(lines) + 1, k),
           \/ c.key = k
           \/ /\ c.ca /\ c.key = NoKey /\ k \in CertifiedKeys
              /\ line.sd.type = "INIT" => line.cert = k,
           NEW d \in DigestFails(c, line)
    PROVE  /\ d.errors = << >>
           /\ d.key = k \/ (d.ca = c.ca /\ d.key = c.key)
<1> DEFINE n == Len(lines)
           new == Append(lines, line)
           sd == line.sd
           closed == CloseSegment(InstallKey(c, line.cert))
           opened == OpenSegment(closed, sd.h.alg)
           next == [c EXCEPT !.segment_count = c.segment_count + 1]
           at == CASE sd.type = "INIT" -> opened
                   [] sd.type = "CONTINUE" -> next
                   [] OTHER -> c
           bad == sd.q # at.next_seq
           e == AddError(at, bad, "sequence")
<1>1. \/ d = [e EXCEPT !.state = "ERROR"]
      \/ sd.type = "INIT" /\ d = [closed EXCEPT !.state = "ERROR"]
  BY DEF DigestFails
<1>2. /\ n \in Nat /\ new[n + 1] = line /\ \A i \in 1 .. n : new[i] = lines[i]
      /\ (n + 1) - 1 = n
  BY AppendLine
<1> HIDE DEF new
<1>3. /\ sd # NoSD /\ sd.h.alg = new[1].sd.h.alg
      /\ sd.type = "INIT" => sd.q = 1
      /\ sd.type # "INIT" => n + 1 > 1 /\ sd.q = new[n].sd.q + 1
  BY <1>2 DEF Sound, Chains, new
<1>4. /\ sd \in SD /\ sd.h.alg \in Algs /\ line.cert \in Keys \cup {NoKey}
  BY <1>3 DEF Line, SD, Digest
<1>5. AtStart(c, lines) /\ InSegment(c, lines)
  BY DEF Tracks
<1>6. c.state \in {"EXPECT_INIT", "PROCESSING"}
  BY DEF VCtxOK, VCtx, VStates, Stopped
<1> HIDE DEF n
<1>7. c.alg \in {NoAlg, sd.h.alg}
  <2>1. CASE c.state = "EXPECT_INIT"
    BY <1>5, <2>1 DEF AtStart
  <2>2. CASE c.state = "PROCESSING"
    <3>1. n > 0 /\ c.alg = lines[1].sd.h.alg
      BY <1>5, <2>2 DEF InSegment, n
    <3>2. new[1] = lines[1]
      BY <1>2, <3>1
    <3> QED
      BY <1>3, <3>1, <3>2
  <2> QED
    BY <1>6, <2>1, <2>2
<1> HIDE DEF sd, closed, opened, next, at, bad, e
<1>8. CASE sd.type = "INIT"
  <2>1. /\ VCtxOK(closed) /\ closed.errors = << >> /\ closed.key = k
        /\ VCtxOK(opened) /\ opened.errors = << >> /\ opened.key = k
        /\ opened.next_seq = 1
    <3>1. c.key = k \/ (c.ca /\ c.key = NoKey /\ line.cert = k /\ k \in CertifiedKeys)
      BY <1>8 DEF sd
    <3> QED
      BY <1>4, <1>7, <3>1, OpensClean DEF closed, opened
  <2>2. e = opened
    <3>1. at = opened
      BY <1>8 DEF at
    <3>2. bad = FALSE
      BY <1>3, <1>8, <2>1, <3>1 DEF bad
    <3> QED
      BY <3>1, <3>2, NoError DEF e
  <2>3. \/ d = [opened EXCEPT !.state = "ERROR"]
        \/ d = [closed EXCEPT !.state = "ERROR"]
    BY <1>1, <2>2
  <2>4. CASE d = [opened EXCEPT !.state = "ERROR"]
    BY <2>1, <2>4, StopFields
  <2>5. CASE d = [closed EXCEPT !.state = "ERROR"]
    BY <2>1, <2>5, StopFields
  <2> QED
    BY <2>3, <2>4, <2>5
<1>9. CASE sd.type # "INIT"
  <2>1. n > 0 /\ c.state = "PROCESSING"
    <3>1. n > 0
      BY <1>2, <1>3, <1>9
    <3>2. c.state # "EXPECT_INIT"
      BY <1>5, <3>1 DEF AtStart, n
    <3> QED
      BY <1>6, <3>1, <3>2
  <2>2. c.next_seq = lines[n].sd.q + 1
    BY <1>5, <2>1 DEF InSegment, n
  <2>3. sd.q = c.next_seq
    <3>1. new[n] = lines[n]
      BY <1>2, <2>1
    <3> QED
      BY <1>3, <1>9, <2>2, <3>1
  <2>4. /\ VCtxOK(next) /\ next.errors = << >> /\ next.next_seq = c.next_seq
        /\ next.ca = c.ca /\ next.key = c.key
    BY DEF VCtxOK, VCtx, next
  <2>5. at \in {c, next}
    BY <1>9 DEF at
  <2>6. e = at
    <3>1. bad = FALSE
      BY <2>3, <2>4, <2>5 DEF bad
    <3> QED
      BY <3>1, NoError DEF e
  <2>7. d = [at EXCEPT !.state = "ERROR"]
    BY <1>1, <1>9, <2>6
  <2> QED
    BY <2>4, <2>5, <2>7, StopFields
<1> QED
  BY <1>8, <1>9

(* A run that is not strict over an undamaged copy finds nothing.            *)
LEMMA ReadsHonestStep ==
    ASSUME AuditTolerable, AuditTypeOK, IInv, AuditIInv, HonestIInv,
           [AuditNext]_allVars
    PROVE  ReadsHonestLog'
<1>1. /\ Tolerable /\ Opts.key \in Keys
      /\ \A o \in AuditOpts :
            \/ o.key = Opts.key
            \/ o.key = NoKey /\ Opts.key \in CertifiedKeys /\ Embeds
  BY DEF AuditTolerable, Tolerable
<1>2. /\ VCtxOK(ctx) /\ seen \in Seq(Line) /\ Tracks(ctx, seen)
      /\ CertsFit /\ ReadsHonestLog /\ incidents \in Nat
  BY AuditAssumption DEF AuditTypeOK, AuditIInv, Follows, HonestIInv
<1> SUFFICES ASSUME incidents' = 0, reading' \/ seen' # << >>, ~ctx'.strict
             PROVE  Trusts' /\ ctx'.errors = << >>
  BY DEF ReadsHonestLog
<1>3. CASE UNCHANGED <<incidents, auditVars>>
  BY <1>2, <1>3 DEF ReadsHonestLog, Trusts, Embeds, auditVars
<1>4. CASE Lose \/ Repeat \/ Swap \/ Alter \/ Forge \/ Rehash
  BY <1>2, <1>4, IncidentDraws DEF AuditTypeOK
<1>5. CASE Open
  <2>1. PICK o \in AuditOpts : ctx' = VerifierInit(o)
    BY <1>5 DEF Open
  <2>2. ctx'.key = o.key /\ ctx'.errors = << >> /\ ctx'.ca = (o.key = NoKey)
    BY <2>1 DEF VerifierInit
  <2> QED
    BY <1>1, <2>2 DEF Trusts
<1>6. ASSUME LineIsThere, incidents = 0, ~ctx.strict
      PROVE  /\ ~Stopped(ctx) /\ ctx.errors = << >> /\ Next1 \in Line
             /\ Sound(Append(seen, Next1), Len(seen) + 1, Opts.key)
             /\ \/ ctx.key = Opts.key
                \/ /\ Embeds /\ ctx.ca /\ ctx.key = NoKey
                   /\ Opts.key \in CertifiedKeys
                   /\ Next1.sd.type = "INIT" => Next1.cert = Opts.key
  <2>1. /\ ~Stopped(ctx) /\ Next1 \in Line /\ reading
    BY <1>6, NextLine
  <2>2. Trusts /\ ctx.errors = << >>
    BY <1>2, <1>6, <2>1 DEF ReadsHonestLog
  <2>3. /\ Sound(Append(seen, Next1), Len(seen) + 1, Opts.key)
        /\ Embeds => CertFits(Next1)
    BY <1>1, <1>2, <1>6, HonestNext
  <2>4. Next1.sd # NoSD
    <3>1. Append(seen, Next1)[Len(seen) + 1] = Next1
      BY <1>2, <2>1, AppendLine
    <3> QED
      BY <2>3, <3>1 DEF Sound, Chains
  <2> QED
    BY <2>1, <2>2, <2>3, <2>4 DEF Trusts, CertFits
<1>7. CASE Read
  <2> DEFINE line == Next1
  <2>1. LineIsThere /\ incidents = 0 /\ ctx' = VerifierProcessLine(ctx, line)
    BY <1>7 DEF Read, copyVars
  <2>2. line \in Line
    BY <2>1, NextLine
  <2> HIDE DEF line
  <2>3. ~ctx.strict
    BY <1>2, <2>1, <2>2, LineStrict
  <2>4. /\ ~Stopped(ctx) /\ ctx.errors = << >>
        /\ Sound(Append(seen, line), Len(seen) + 1, Opts.key)
        /\ \/ ctx.key = Opts.key
           \/ /\ Embeds /\ ctx.ca /\ ctx.key = NoKey
              /\ Opts.key \in CertifiedKeys
              /\ line.sd.type = "INIT" => line.cert = Opts.key
    BY <1>6, <2>1, <2>3 DEF line
  <2>5. ctx'.errors = << >>
    BY <1>1, <1>2, <2>1, <2>2, <2>3, <2>4, SoundIsClean
  <2>6. /\ ctx'.ca = ctx.ca
        /\ IF line.sd.type = "INIT" THEN ctx'.key = line.sd.f
                                    ELSE ctx'.key = ctx.key
    BY <1>2, <2>1, <2>2, <2>4, <2>5, LineClean DEF Advanced
  <2>7. line.sd.type = "INIT" => line.sd.f = Opts.key
    <3>1. Append(seen, line)[Len(seen) + 1] = line
      BY <1>2, <2>2, AppendLine
    <3> QED
      BY <2>4, <3>1 DEF Sound
  <2> QED
    BY <2>4, <2>5, <2>6, <2>7 DEF Trusts, Embeds
<1>8. CASE ReadFails
  <2> DEFINE line == Next1
  <2>1. /\ LineIsThere /\ incidents = 0
        /\ \/ Hashes(ctx, line) /\ ctx' \in DigestFails(ctx, line)
           \/ ctx' \in StoreFails(ctx)
    BY <1>8 DEF ReadFails, copyVars
  <2>2. line \in Line
    BY <2>1, NextLine
  <2>3. CASE ctx' \in StoreFails(ctx)
    <3>1. ctx' = [ctx EXCEPT !.state = "ERROR"]
      BY <2>3 DEF StoreFails
    <3>2. /\ ctx'.errors = ctx.errors /\ ctx'.key = ctx.key /\ ctx'.ca = ctx.ca
          /\ ctx'.strict = ctx.strict
      BY <1>2, <3>1, StopFields
    <3>3. reading
      BY <2>1 DEF LineIsThere
    <3>4. Trusts /\ ctx.errors = << >>
      BY <1>2, <2>1, <3>2, <3>3 DEF ReadsHonestLog
    <3> QED
      BY <3>2, <3>4 DEF Trusts, Embeds
  <2>4. CASE Hashes(ctx, line) /\ ctx' \in DigestFails(ctx, line)
    <3> HIDE DEF line
    <3>1. line.sd \in SD
      BY <1>2, <2>2, <2>4, HashesElement
    <3>2. ~ctx.strict
      BY <1>2, <2>2, <2>4, <3>1, DigestStrict
    <3>3. /\ ~Stopped(ctx) /\ ctx.errors = << >>
          /\ Sound(Append(seen, line), Len(seen) + 1, Opts.key)
          /\ \/ ctx.key = Opts.key
             \/ /\ Embeds /\ ctx.ca /\ ctx.key = NoKey
                /\ Opts.key \in CertifiedKeys
                /\ line.sd.type = "INIT" => line.cert = Opts.key
      BY <1>6, <2>1, <3>2 DEF line
    <3>4. /\ ctx'.errors = << >>
          /\ ctx'.key = Opts.key \/ (ctx'.ca = ctx.ca /\ ctx'.key = ctx.key)
      BY <1>1, <1>2, <2>2, <2>4, <3>2, <3>3, SoundDigestFails
    <3> QED
      BY <3>3, <3>4 DEF Trusts, Embeds
  <2> QED
    BY <2>1, <2>3, <2>4
<1>9. CASE Finish
  <2>1. /\ reading /\ ~reading' /\ seen' = seen /\ incidents = 0
        /\ ctx' = VerifierFinalize(ctx)
    BY <1>9 DEF Finish, copyVars
  <2>2. /\ ctx'.strict = ctx.strict /\ ctx'.key = ctx.key /\ ctx'.ca = ctx.ca
        /\ ctx'.errors = << >> <=> /\ ctx.errors = << >>
                                   /\ ctx.state # "EXPECT_INIT"
                                   /\ ctx.strict => ~HasUnsigned(ctx)
    BY <1>2, <2>1, FinalizeClean
  <2>3. Trusts /\ ctx.errors = << >> /\ seen # << >>
    BY <1>2, <2>1, <2>2 DEF ReadsHonestLog
  <2>4. ctx.state # "EXPECT_INIT"
    BY <1>2, <2>3 DEF Tracks, AtStart
  <2> QED
    BY <2>2, <2>3, <2>4 DEF Trusts, Embeds
<1> QED
  BY <1>3, <1>4, <1>5, <1>7, <1>8, <1>9
     DEF AuditNext, Arrive, SignerStep, allVars, copyVars

(* What holds of an undamaged copy at every step of every audit.             *)
THEOREM HonestInvariant ==
    ASSUME AuditTolerable
    PROVE  AuditSpec => []HonestIInv
<1>1. Tolerable
  BY DEF AuditTolerable
<1>2. AuditInit => HonestIInv
  <2> SUFFICES ASSUME AuditInit
               PROVE  HonestIInv
    OBVIOUS
  <2>1. log = << >> /\ inhand = NoLine /\ ~reading /\ seen = << >>
    BY DEF AuditInit, Init, SignerInit
  <2> QED
    BY <2>1 DEF HonestIInv, CertsFit, ReadsHonestLog
<1>3. AuditTypeOK /\ AuditIInv /\ TypeOK /\ IInv /\ HonestIInv /\ [AuditNext]_allVars
          => HonestIInv'
  <2> SUFFICES ASSUME AuditTypeOK, AuditIInv, TypeOK, IInv, HonestIInv,
                      [AuditNext]_allVars
               PROVE  HonestIInv'
    OBVIOUS
  <2>1. CertsFit'
    BY <1>1, AuditStepIsLogStep, CertsFitStep DEF HonestIInv
  <2>2. ReadsHonestLog'
    BY ReadsHonestStep
  <2> QED
    BY <2>1, <2>2 DEF HonestIInv
<1>4. AuditSpec => [](AuditTypeOK /\ AuditIInv)
  BY AuditInvariant
<1>5. AuditSpec => [](TypeOK /\ IInv)
  BY <1>1, AuditExtendsPipeline, LogInvariant, PTL
<1> QED
  BY <1>2, <1>3, <1>4, <1>5, PTL DEF AuditSpec

(* UndamagedPasses: a copy nobody damaged gets exit code 0 from every run    *)
(* that is not strict and found a line in it, with the signer's key or with  *)
(* a CA bundle, also while lines are being appended and when a call of the   *)
(* verifier fails.                                                           *)
THEOREM UndamagedCopyPasses ==
    ASSUME AuditTolerable
    PROVE  AuditSpec => []UndamagedPasses
<1>1. AuditTypeOK /\ AuditIInv /\ HonestIInv => UndamagedPasses
  <2> SUFFICES ASSUME AuditTypeOK, AuditIInv, HonestIInv, incidents = 0,
                      seen # << >>, ~ctx.strict, code # NoCode
               PROVE  code = 0
    BY DEF UndamagedPasses
  <2>1. ctx.errors = << >>
    BY DEF HonestIInv, ReadsHonestLog
  <2>2. code = ExitCode(ctx)
    BY DEF AuditIInv, CodeFits
  <2> QED
    BY <2>1, <2>2, ExitCodeZero DEF VerifierPassed
<1> QED
  BY <1>1, AuditInvariant, HonestInvariant, PTL

(***************************************************************************)
(* Where exit code 0 means that the whole copy was read                     *)
(***************************************************************************)

(* The engine goes on as long as it has recorded nothing.                    *)
GoesOn == reading /\ ctx.errors = << >> => ~Stopped(ctx)

(* PassReadsWholeFile: if no digest, no store context and no getline fails,  *)
(* a run that stops early does not end with exit code 0 (verifier.h, "-1 on   *)
(* unrecoverable error").  The failing calls are what DigestFailure is about. *)
THEOREM WholeFileIsRead ==
    ASSUME AuditFaults = {}
    PROVE  AuditSpec => PassReadsWholeFile
<1>1. AuditInit => GoesOn
  BY DEF AuditInit, GoesOn
<1>2. AuditTypeOK /\ GoesOn /\ [AuditNext]_allVars => GoesOn'
  <2> SUFFICES ASSUME AuditTypeOK, GoesOn, [AuditNext]_allVars,
                      reading', ctx'.errors = << >>
               PROVE  ~Stopped(ctx')
    BY DEF GoesOn, Stopped
  <2>1. CASE UNCHANGED auditVars
    BY <2>1 DEF GoesOn, auditVars
  <2>2. CASE Lose \/ Repeat \/ Swap \/ Alter \/ Forge \/ Rehash
    BY <2>1, <2>2, IncidentDraws DEF AuditTypeOK
  <2>3. CASE Open
    BY <2>3 DEF Open, VerifierInit, Stopped
  <2>4. CASE Read
    <3>1. /\ Next1 \in Line /\ VCtxOK(ctx) /\ ~Stopped(ctx)
          /\ ctx' = VerifierProcessLine(ctx, Next1)
      BY <2>4, NextLine DEF Read, AuditTypeOK
    <3>2. ctx'.state = "PROCESSING"
      BY <3>1, LineClean DEF Advanced
    <3> QED
      BY <3>2 DEF Stopped
  <2>5. CASE ReadFails
    BY <2>5 DEF ReadFails
  <2>6. CASE Finish
    BY <2>6 DEF Finish
  <2> QED
    BY <2>1, <2>2, <2>3, <2>4, <2>5, <2>6
       DEF AuditNext, Arrive, SignerStep, allVars
<1>3. AuditTypeOK /\ GoesOn /\ [AuditNext]_allVars =>
        [reading /\ ~reading' /\ code' = 0 =>
            Len(seen) = Len(file) /\ ~Stopped(ctx)]_allVars
  <2> SUFFICES ASSUME AuditTypeOK, GoesOn, [AuditNext]_allVars, reading, ~reading',
                      code' = 0
               PROVE  Len(seen) = Len(file) /\ ~Stopped(ctx)
    OBVIOUS
  <2>1. Finish
    BY IncidentDraws DEF AuditTypeOK, AuditNext, Arrive, SignerStep, Open, Read,
       ReadFails, allVars, auditVars
  <2>2. /\ ctx' = VerifierFinalize(ctx) /\ code' = ExitCode(ctx')
        /\ Stopped(ctx) \/ Len(seen) = Len(file)
    BY <2>1 DEF Finish
  <2>3. ctx'.errors = << >>
    BY <2>2, ExitCodeZero DEF VerifierPassed
  <2>4. ctx.errors = << >>
    BY <2>2, <2>3, FinalizeClean DEF AuditTypeOK
  <2> QED
    BY <2>2, <2>4 DEF GoesOn
<1> QED
  BY <1>1, <1>2, <1>3, AuditTypeCorrect, PTL DEF AuditSpec, PassReadsWholeFile
==============================================================================

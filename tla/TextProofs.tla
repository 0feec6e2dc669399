------------------------------ MODULE TextProofs ------------------------------
(*****************************************************************************)
(* LineText proved for texts, element lists and relays of any length.        *)
(*                                                                           *)
(* The scanners are recursive functions on the positions of a text.          *)
(* Induction over positions is induction over a SET of positions             *)
(* (SetInduction), which follows from the least element of a well-founded    *)
(* relation; Downward goes from the end of a text to its front, as the       *)
(* scanners call themselves, Upward from one position to a later one.        *)
(*****************************************************************************)
EXTENDS LineText, SequenceTheorems, WellFoundedInduction, TLAPS

(* Texts joined in a row may be grouped either way.                          *)
Regroups(T) == \A x, y, z \in Seq(T) : (x \o y) \o z = x \o (y \o z)

(* Concatenation is associative; under a name, so that a proof can cite the  *)
(* fact for one set of tokens.                                               *)
LEMMA ConcatRegroups == ASSUME NEW T PROVE Regroups(T)
  BY ConcatAssociative, SMT DEF Regroups

(*****************************************************************************)
(* Induction over positions                                                  *)
(*****************************************************************************)

(* Induction over the natural numbers, for a set instead of a predicate.     *)
LEMMA SetInduction ==
    ASSUME NEW S, 0 \in S, \A n \in Nat : n \in S => n + 1 \in S
    PROVE  Nat \subseteq S
<1> DEFINE T == Nat \ S
           R == OpToRel(<, Nat)
<1> SUFFICES ASSUME T # {} PROVE FALSE
  OBVIOUS
<1>1. \E x \in T : \A y \in T : ~(<<y, x>> \in R)
  <2>1. IsWellFoundedOn(R, Nat)
    BY Zenon, NatLessThanWellFounded
  <2>2. T \subseteq Nat
    OBVIOUS
  <2> HIDE DEF T, R
  <2> QED
    BY <2>1, <2>2, WFMin
<1>2. PICK x \in T : \A y \in T : ~(<<y, x>> \in R)
  BY <1>1
<1>3. x # 0 /\ x - 1 \in T
  OBVIOUS
<1>4. \A a, b \in Nat : a < b => <<a, b>> \in R
  BY DEF OpToRel
<1>5. x - 1 \in Nat /\ x \in Nat /\ x - 1 < x
  BY <1>3
<1> HIDE DEF T, R
<1> QED
  BY <1>2, <1>3, <1>4, <1>5

(* What holds at n + 2, and at a position if it holds at all later ones,     *)
(* holds at every position of a text of n tokens.                            *)
LEMMA Downward ==
    ASSUME NEW n \in Nat, NEW S, n + 2 \in S,
           \A i \in 1 .. n + 1 : (\A j \in i + 1 .. n + 2 : j \in S) => i \in S
    PROVE  \A i \in 1 .. n + 2 : i \in S
<1> DEFINE P == {k \in Nat : \A j \in 1 .. n + 2 : j >= n + 2 - k => j \in S}
<1>1. 0 \in P
  OBVIOUS
<1>2. ASSUME NEW k \in Nat, k \in P PROVE k + 1 \in P
  <2> SUFFICES ASSUME NEW j \in 1 .. n + 2, j >= n + 2 - (k + 1) PROVE j \in S
    OBVIOUS
  <2>1. \A i \in j + 1 .. n + 2 : i \in S
    BY <1>2
  <2> QED
    BY <2>1
<1>3. Nat \subseteq P
  <2> HIDE DEF P
  <2> QED
    BY <1>1, <1>2, SetInduction
<1>4. n + 2 \in P
  BY <1>3
<1> QED
  BY <1>4

(* Induction from one position up to another.                                *)
LEMMA Upward ==
    ASSUME NEW p \in Nat, NEW q \in Nat, NEW S, p \in S,
           \A j \in p .. q - 1 : j \in S => j + 1 \in S
    PROVE  \A j \in p .. q : j \in S
<1> DEFINE P == {k \in Nat : p + k <= q => p + k \in S}
<1>1. 0 \in P
  OBVIOUS
<1>2. ASSUME NEW k \in Nat, k \in P PROVE k + 1 \in P
  <2> SUFFICES ASSUME p + (k + 1) <= q PROVE p + (k + 1) \in S
    OBVIOUS
  <2>1. p + k \in p .. q - 1 /\ p + k \in S
    BY <1>2
  <2>2. (p + k) + 1 \in S
    BY <2>1
  <2>3. (p + k) + 1 = p + (k + 1)
    OBVIOUS
  <2> QED
    BY <2>2, <2>3
<1>3. Nat \subseteq P
  <2> HIDE DEF P
  <2> QED
    BY <1>1, <1>2, SetInduction
<1> SUFFICES ASSUME NEW j \in p .. q PROVE j \in S
  OBVIOUS
<1>4. j - p \in P /\ p + (j - p) = j
  BY <1>3
<1> QED
  BY <1>4

(* A set of positions has a least ...                                        *)
LEMMA LeastExists ==
    ASSUME NEW S, S \subseteq Nat, S # {}
    PROVE  \E x \in S : \A y \in S : x <= y
<1> DEFINE R == OpToRel(<, Nat)
<1>1. IsWellFoundedOn(R, Nat)
  BY Zenon, NatLessThanWellFounded
<1>2. \A a, b \in Nat : a < b => <<a, b>> \in R
  BY DEF OpToRel
<1> HIDE DEF R
<1>3. PICK x \in S : \A y \in S : ~(<<y, x>> \in R)
  BY <1>1, WFMin
<1>4. \A y \in S : x <= y
  <2> SUFFICES ASSUME NEW y \in S PROVE x <= y
    OBVIOUS
  <2>1. x \in Nat /\ y \in Nat /\ ~(y < x)
    BY <1>2, <1>3
  <2> QED
    BY <2>1
<1> QED
  BY <1>4

(* ... and a greatest member.                                                *)
LEMMA GreatestExists ==
    ASSUME NEW n \in Nat, NEW S, S \subseteq 1 .. n, S # {}
    PROVE  \E x \in S : \A y \in S : y <= x
<1> DEFINE Q == {k \in Nat : \E x \in S : k = n - x}
<1>1. Q \subseteq Nat /\ Q # {}
  <2>1. PICK x \in S : TRUE
    OBVIOUS
  <2>2. n - x \in Nat
    OBVIOUS
  <2>3. n - x \in Q
    BY <2>2
  <2> QED
    BY <2>3
<1>2. PICK k \in Q : \A j \in Q : k <= j
  BY <1>1, LeastExists
<1>3. PICK x \in S : k = n - x
  BY <1>2
<1>4. \A y \in S : y <= x
  <2> SUFFICES ASSUME NEW y \in S PROVE y <= x
    OBVIOUS
  <2>1. n - y \in Nat /\ x \in Nat /\ y \in Nat
    OBVIOUS
  <2>2. n - y \in Q
    BY <2>1
  <2>3. k <= n - y
    BY <1>2, <2>2
  <2> QED
    BY <1>3, <2>1, <2>3
<1> QED
  BY <1>4

(*****************************************************************************)
(* The scanners unfold as their definitions say                              *)
(*****************************************************************************)

(* The body of ValueEnd, with the function it calls as a parameter           *)
EndAt(f, s, i) ==
    CASE i > Len(s) -> Len(s) + 1
      [] i <= Len(s) /\ s[i] = Quote -> i
      [] i <= Len(s) /\ s[i] = Backslash -> f[i + 2]
      [] OTHER -> f[i + 1]

(* The recursive functions of LineText unfold as they are written: one with  *)
(* the equation exists (built downward from the end of the text), so CHOOSE  *)
(* finds one.                                                                *)
LEMMA ValueEndUnfolds ==
    ASSUME NEW s, Len(s) \in Nat
    PROVE  ValueEnd(s) = [i \in 1 .. Len(s) + 2 |-> EndAt(ValueEnd(s), s, i)]
<1> DEFINE n == Len(s)
           Is(f, k) == f = [i \in k .. n + 2 |-> EndAt(f, s, i)]
           S == {k \in 1 .. n + 2 : \E f : Is(f, k)}
<1>1. n + 2 \in S
  <2> DEFINE f == [i \in n + 2 .. n + 2 |-> n + 1]
  <2>1. Is(f, n + 2)
    BY DEF EndAt
  <2> HIDE DEF f, Is
  <2> QED
    BY <2>1
<1>2. ASSUME NEW k \in 1 .. n + 1, \A j \in k + 1 .. n + 2 : j \in S
      PROVE  k \in S
  <2>1. PICK f : Is(f, k + 1)
    <3>1. k + 1 \in S
      <4>1. k + 1 \in k + 1 .. n + 2
        OBVIOUS
      <4> HIDE DEF S
      <4> QED
        BY <1>2, <4>1
    <3> HIDE DEF Is
    <3> QED
      BY <3>1
  <2> DEFINE g == [i \in k .. n + 2 |-> EndAt(f, s, i)]
  <2>2. \A i \in k + 1 .. n + 2 : g[i] = f[i]
    BY <2>1
  <2>3. \A i \in k .. n + 2 : EndAt(f, s, i) = EndAt(g, s, i)
    <3> SUFFICES ASSUME NEW i \in k .. n + 2
                 PROVE  EndAt(f, s, i) = EndAt(g, s, i)
      OBVIOUS
    <3> HIDE DEF g
    <3>1. i <= n => f[i + 1] = g[i + 1] /\ f[i + 2] = g[i + 2]
      BY <2>2
    <3> QED
      BY <3>1 DEF EndAt
  <2>4. Is(g, k)
    BY <2>3
  <2> HIDE DEF g, Is
  <2> QED
    BY <2>4
<1>3. 1 \in S
  <2> HIDE DEF S
  <2>1. \A i \in 1 .. n + 2 : i \in S
    <3>1. n \in Nat
      OBVIOUS
    <3> HIDE DEF n
    <3> QED
      BY <1>1, <1>2, <3>1, Downward, Zenon
  <2> QED
    BY <2>1
<1>4. \E f : Is(f, 1)
  BY <1>3
<1> QED
  BY <1>4 DEF ValueEnd, EndAt

(* A closing quote is at or after the place where it is looked for.          *)
LEMMA ValueEndRange ==
    ASSUME NEW s, Len(s) \in Nat, NEW i \in 1 .. Len(s) + 2
    PROVE  /\ ValueEnd(s)[i] \in Nat
           /\ i <= Len(s) => ValueEnd(s)[i] \in i .. Len(s) + 1
           /\ i > Len(s) => ValueEnd(s)[i] = Len(s) + 1
<1> DEFINE n == Len(s)
           e == ValueEnd(s)
           S == {k \in 1 .. n + 2 : /\ k <= n => e[k] \in k .. n + 1
                                    /\ k > n => e[k] = n + 1}
<1>0. \A k \in 1 .. n + 2 : e[k] = EndAt(e, s, k)
  <2> HIDE DEF e
  <2> QED
    BY ValueEndUnfolds DEF e
<1> HIDE DEF e
<1>1. n + 2 \in S
  BY <1>0 DEF EndAt
<1>2. ASSUME NEW k \in 1 .. n + 1, \A j \in k + 1 .. n + 2 : j \in S
      PROVE  k \in S
  <2>1. e[k] = EndAt(e, s, k)
    BY <1>0
  <2>2. CASE k > n
    BY <2>1, <2>2 DEF EndAt
  <2>3. CASE k <= n
    <3>1. k + 1 \in S /\ k + 2 \in S
      BY <1>2, <2>3
    <3> QED
      BY <2>1, <2>3, <3>1, SMTT(60) DEF EndAt
  <2> QED
    BY <2>2, <2>3
<1>3. i \in S
  <2> HIDE DEF S
  <2> QED
    BY <1>1, <1>2, Downward
<1> QED
  BY <1>3 DEF e

(* The body of SdScanElement                                                 *)
AfterAt(f, s, i) ==
    CASE i > Len(s) -> Len(s) + 2
      [] i <= Len(s) /\ s[i] = "]" -> i + 1
      [] i <= Len(s) /\ s[i] = Quote -> f[ValueEnd(s)[i + 1] + 1]
      [] OTHER -> f[i + 1]

(* The same for the end of an element: the value it may skip ends later.     *)
LEMMA ScanUnfolds ==
    ASSUME NEW s, Len(s) \in Nat
    PROVE  SdScanElement(s) =
               [i \in 1 .. Len(s) + 2 |-> AfterAt(SdScanElement(s), s, i)]
<1> DEFINE n == Len(s)
           Is(f, k) == f = [i \in k .. n + 2 |-> AfterAt(f, s, i)]
           S == {k \in 1 .. n + 2 : \E f : Is(f, k)}
<1>1. n + 2 \in S
  <2> DEFINE f == [i \in n + 2 .. n + 2 |-> n + 2]
  <2>1. Is(f, n + 2)
    BY DEF AfterAt
  <2> HIDE DEF f, Is
  <2> QED
    BY <2>1
<1>2. ASSUME NEW k \in 1 .. n + 1, \A j \in k + 1 .. n + 2 : j \in S
      PROVE  k \in S
  <2>1. PICK f : Is(f, k + 1)
    <3>1. k + 1 \in S
      <4>1. k + 1 \in k + 1 .. n + 2
        OBVIOUS
      <4> HIDE DEF S
      <4> QED
        BY <1>2, <4>1
    <3> HIDE DEF Is
    <3> QED
      BY <3>1
  <2> DEFINE g == [i \in k .. n + 2 |-> AfterAt(f, s, i)]
  <2>2. \A i \in k + 1 .. n + 2 : g[i] = f[i]
    BY <2>1
  <2>3. \A i \in k .. n + 2 : AfterAt(f, s, i) = AfterAt(g, s, i)
    <3> SUFFICES ASSUME NEW i \in k .. n + 2
                 PROVE  AfterAt(f, s, i) = AfterAt(g, s, i)
      OBVIOUS
    <3> HIDE DEF g
    <3>1. i <= n => f[i + 1] = g[i + 1]
      BY <2>2
    <3>2. i <= n => ValueEnd(s)[i + 1] + 1 \in k + 1 .. n + 2
      <4>1. i + 1 <= n + 1 /\ i >= k => i + 1 \in 1 .. Len(s) + 2
        OBVIOUS
      <4> QED
        BY <4>1, ValueEndRange, SMTT(60)
    <3>3. i <= n => f[ValueEnd(s)[i + 1] + 1] = g[ValueEnd(s)[i + 1] + 1]
      BY <2>2, <3>2
    <3> QED
      BY <3>1, <3>3 DEF AfterAt
  <2>4. Is(g, k)
    BY <2>3
  <2> HIDE DEF g, Is
  <2> QED
    BY <2>4
<1>3. 1 \in S
  <2> HIDE DEF S
  <2>1. \A i \in 1 .. n + 2 : i \in S
    <3>1. n \in Nat
      OBVIOUS
    <3> HIDE DEF n
    <3> QED
      BY <1>1, <1>2, <3>1, Downward, Zenon
  <2> QED
    BY <2>1
<1>4. \E f : Is(f, 1)
  BY <1>3
<1> QED
  BY <1>4 DEF SdScanElement, AfterAt

(* An element ends after the place where the scan begins.                    *)
LEMMA ScanRange ==
    ASSUME NEW s, Len(s) \in Nat, NEW i \in 1 .. Len(s) + 2
    PROVE  /\ i <= Len(s) => SdScanElement(s)[i] \in i + 1 .. Len(s) + 2
           /\ i > Len(s) => SdScanElement(s)[i] = Len(s) + 2
<1> DEFINE n == Len(s)
           e == SdScanElement(s)
           S == {k \in 1 .. n + 2 : /\ k <= n => e[k] \in k + 1 .. n + 2
                                    /\ k > n => e[k] = n + 2}
<1>0. \A k \in 1 .. n + 2 : e[k] = AfterAt(e, s, k)
  <2> HIDE DEF e
  <2> QED
    BY ScanUnfolds DEF e
<1> HIDE DEF e
<1>1. n + 2 \in S
  BY <1>0 DEF AfterAt
<1>2. ASSUME NEW k \in 1 .. n + 1, \A j \in k + 1 .. n + 2 : j \in S
      PROVE  k \in S
  <2>1. e[k] = AfterAt(e, s, k)
    BY <1>0
  <2>2. CASE k > n
    BY <2>1, <2>2 DEF AfterAt
  <2>3. CASE k <= n
    <3>1. k + 1 \in S
      BY <1>2, <2>3
    <3>2. ValueEnd(s)[k + 1] + 1 \in k + 1 .. n + 2
      <4>1. k + 1 \in 1 .. Len(s) + 2
        BY <2>3
      <4> QED
        BY <2>3, <4>1, ValueEndRange, SMTT(60)
    <3>3. ValueEnd(s)[k + 1] + 1 \in S
      BY <1>2, <3>2
    <3> QED
      BY <2>1, <2>3, <3>1, <3>2, <3>3, SMTT(60) DEF AfterAt
  <2> QED
    BY <2>2, <2>3
<1>3. i \in S
  <2> HIDE DEF S
  <2> QED
    BY <1>1, <1>2, Downward
<1> QED
  BY <1>3 DEF e

(* The body of Remaining                                                     *)
RestAt(f, s, id, i) ==
    CASE i > Len(s) -> << >>
      [] At(s, id, i) -> f[SdScanElement(s)[i + 2]]
      [] i <= Len(s) /\ ~At(s, id, i) -> <<s[i]>> \o f[i + 1]

(* Past a prefix there is text or its end, and the element ends after that.  *)
LEMMA PrefixScan ==
    ASSUME NEW s, Len(s) \in Nat, NEW id, NEW i \in Nat \ {0}, At(s, id, i)
    PROVE  /\ i + 1 \in 1 .. Len(s) /\ i \in 1 .. Len(s)
           /\ SdScanElement(s)[i + 2] \in i + 3 .. Len(s) + 2
<1>1. i < Len(s)
  BY DEF At
<1>2. i + 2 \in 1 .. Len(s) + 2
  BY <1>1
<1> QED
  BY <1>1, <1>2, ScanRange, SMTT(60)

(* The same for what stripping leaves: the element it skips ends later.      *)
LEMMA RemainingUnfolds ==
    ASSUME NEW s, Len(s) \in Nat, NEW id
    PROVE  Remaining(s, id) =
               [i \in 1 .. Len(s) + 2 |-> RestAt(Remaining(s, id), s, id, i)]
<1> DEFINE n == Len(s)
           Is(f, k) == f = [i \in k .. n + 2 |-> RestAt(f, s, id, i)]
           S == {k \in 1 .. n + 2 : \E f : Is(f, k)}
<1>1. n + 2 \in S
  <2> DEFINE f == [i \in n + 2 .. n + 2 |-> << >>]
  <2>1. \A i \in n + 2 .. n + 2 : RestAt(f, s, id, i) = << >>
    BY DEF RestAt, At
  <2>2. Is(f, n + 2)
    BY <2>1
  <2> HIDE DEF f, Is
  <2> QED
    BY <2>2
<1>2. ASSUME NEW k \in 1 .. n + 1, \A j \in k + 1 .. n + 2 : j \in S
      PROVE  k \in S
  <2>1. PICK f : Is(f, k + 1)
    <3>1. k + 1 \in S
      <4>1. k + 1 \in k + 1 .. n + 2
        OBVIOUS
      <4> HIDE DEF S
      <4> QED
        BY <1>2, <4>1
    <3> HIDE DEF Is
    <3> QED
      BY <3>1
  <2> DEFINE g == [i \in k .. n + 2 |-> RestAt(f, s, id, i)]
  <2>2. \A i \in k + 1 .. n + 2 : g[i] = f[i]
    BY <2>1
  <2>3. \A i \in k .. n + 2 : RestAt(f, s, id, i) = RestAt(g, s, id, i)
    <3> SUFFICES ASSUME NEW i \in k .. n + 2
                 PROVE  RestAt(f, s, id, i) = RestAt(g, s, id, i)
      OBVIOUS
    <3> HIDE DEF g
    <3>1. i <= n => f[i + 1] = g[i + 1]
      BY <2>2
    <3>2. At(s, id, i) => SdScanElement(s)[i + 2] \in k + 1 .. n + 2
      <4>1. SdScanElement(s)[i + 2] \in i + 3 .. n + 2
                => SdScanElement(s)[i + 2] \in k + 1 .. n + 2
        OBVIOUS
      <4> QED
        BY <4>1, PrefixScan
    <3>3. At(s, id, i) => f[SdScanElement(s)[i + 2]] = g[SdScanElement(s)[i + 2]]
      BY <2>2, <3>2
    <3> QED
      BY <3>1, <3>3 DEF RestAt
  <2>4. Is(g, k)
    BY <2>3
  <2> HIDE DEF g, Is
  <2> QED
    BY <2>4
<1>3. 1 \in S
  <2> HIDE DEF S
  <2>1. \A i \in 1 .. n + 2 : i \in S
    <3>1. n \in Nat
      OBVIOUS
    <3> HIDE DEF n
    <3> QED
      BY <1>1, <1>2, <3>1, Downward, Zenon
  <2> QED
    BY <2>1
<1>4. \E f : Is(f, 1)
  BY <1>3
<1> QED
  BY <1>4 DEF Remaining, RestAt

(*****************************************************************************)
(* What stripping leaves                                                     *)
(*****************************************************************************)

(* What is left of a text has no token the text did not have.                *)
LEMMA RemainingType ==
    ASSUME NEW T, NEW s \in Seq(T), NEW id, NEW i \in 1 .. Len(s) + 2
    PROVE  Remaining(s, id)[i] \in Seq(T)
<1> DEFINE n == Len(s)
           r == Remaining(s, id)
           S == {k \in 1 .. n + 2 : r[k] \in Seq(T)}
<1>0. n \in Nat /\ \A k \in 1 .. n : s[k] \in T
  OBVIOUS
<1>1. \A k \in 1 .. n + 2 : r[k] = RestAt(r, s, id, k)
  <2> HIDE DEF r
  <2> QED
    BY <1>0, RemainingUnfolds DEF r
<1> HIDE DEF r
<1>2. \A k \in 1 .. n + 2 : k > n => k \in S
  <2>1. << >> \in Seq(T)
    BY EmptySeq
  <2>2. ASSUME NEW k \in 1 .. n + 2, k > n PROVE r[k] = << >>
    <3>1. k > Len(s) /\ ~(k <= Len(s)) /\ ~At(s, id, k)
      BY <1>0, <2>2 DEF At
    <3> QED
      BY <1>1, <3>1 DEF RestAt
  <2> QED
    BY <2>1, <2>2
<1>3. ASSUME NEW k \in 1 .. n + 1, \A j \in k + 1 .. n + 2 : j \in S
      PROVE  k \in S
  <2>1. r[k] = RestAt(r, s, id, k)
    BY <1>1
  <2>2. CASE k > n
    BY <1>2, <2>2
  <2>3. CASE At(s, id, k)
    <3>1. SdScanElement(s)[k + 2] \in k + 1 .. n + 2
      <4>1. SdScanElement(s)[k + 2] \in k + 3 .. n + 2
        BY <1>0, <2>3, PrefixScan
      <4> QED
        BY <1>0, <4>1
    <3>2. r[k] = r[SdScanElement(s)[k + 2]]
      <4>1. ~(k > Len(s)) /\ At(s, id, k)
        BY <1>0, <2>3 DEF At
      <4> QED
        BY <2>1, <4>1, Zenon DEF RestAt
    <3> QED
      BY <1>3, <3>1, <3>2
  <2>4. CASE k <= n /\ ~At(s, id, k)
    <3>1. r[k] = <<s[k]>> \o r[k + 1]
      <4>1. ~(k > Len(s)) /\ k <= Len(s) /\ ~At(s, id, k)
        BY <1>0, <2>4
      <4> QED
        BY <2>1, <4>1, Zenon DEF RestAt
    <3>2. r[k + 1] \in Seq(T) /\ s[k] \in T
      BY <1>0, <1>3, <2>4
    <3>3. r[k] \in Seq(T)
      BY <3>1, <3>2
    <3> QED
      BY <3>3
  <2> QED
    BY <1>0, <2>2, <2>3, <2>4
<1>4. i \in S
  <2>1. n + 2 \in S
    BY <1>0, <1>2
  <2> HIDE DEF S
  <2> QED
    BY <1>0, <1>3, <2>1, Downward
<1> QED
  BY <1>4 DEF r

(* hcs_strip_all_sd returns a text of the tokens it was given.               *)
LEMMA StripType ==
    ASSUME NEW T, NEW s \in Seq(T), NEW id
    PROVE  HcsStripAllSd(s, id) \in Seq(T)
<1>1. 1 \in 1 .. Len(s) + 2
  BY LenProperties
<1> QED
  BY <1>1, RemainingType DEF HcsStripAllSd

(* Text without a prefix of the ID is copied.                                *)
LEMMA CopyRun ==
    ASSUME NEW T, NEW s \in Seq(T), NEW id, NEW p \in 1 .. Len(s) + 1,
           NEW q \in p .. Len(s) + 1, \A i \in p .. q - 1 : ~At(s, id, i)
    PROVE  Remaining(s, id)[p] = SubSeq(s, p, q - 1) \o Remaining(s, id)[q]
<1> DEFINE r == Remaining(s, id)
           S == {j \in p .. q : r[p] = SubSeq(s, p, j - 1) \o r[j]}
<1>0. /\ Len(s) \in Nat /\ \A k \in 1 .. Len(s) : s[k] \in T
      /\ \A k \in 1 .. Len(s) + 2 : r[k] \in Seq(T)
  <2>1. \A k \in 1 .. Len(s) + 2 : r[k] \in Seq(T)
    BY RemainingType
  <2> HIDE DEF r
  <2> QED
    BY <2>1
<1>1. \A k \in 1 .. Len(s) + 2 : r[k] = RestAt(r, s, id, k)
  <2> HIDE DEF r
  <2> QED
    BY <1>0, RemainingUnfolds DEF r
<1> HIDE DEF r
<1>2. p \in S
  <2>1. SubSeq(s, p, p - 1) = << >>
    OBVIOUS
  <2>2. p \in p .. q /\ r[p] \in Seq(T)
    BY <1>0
  <2>3. r[p] = << >> \o r[p]
    BY <2>2, ConcatEmptySeq
  <2> QED
    BY <2>1, <2>2, <2>3
<1>3. ASSUME NEW j \in p .. q - 1, j \in S PROVE j + 1 \in S
  <2>1. /\ j \in 1 .. Len(s) /\ ~At(s, id, j) /\ j \in p .. Len(s)
        /\ j \in 1 .. Len(s) + 2 /\ j <= Len(s) /\ ~(j > Len(s))
        /\ j + 1 \in 1 .. Len(s) + 2 /\ p \in 1 .. Len(s) /\ (j + 1) - 1 = j
    BY <1>0
  <2>2. r[j] = <<s[j]>> \o r[j + 1]
    BY <1>1, <2>1 DEF RestAt
  <2>3. r[p] = SubSeq(s, p, j - 1) \o (<<s[j]>> \o r[j + 1])
    BY <1>3, <2>2
  <2>4. SubSeq(s, p, j) = SubSeq(s, p, j - 1) \o <<s[j]>>
    BY <2>1, SubSeqRecursiveSecond
  <2>5. /\ SubSeq(s, p, j - 1) \in Seq(T) /\ <<s[j]>> \in Seq(T)
        /\ r[j + 1] \in Seq(T)
    <3>1. \A i \in p .. j - 1 : s[i] \in T
      BY <1>0, <2>1
    <3>2. SubSeq(s, p, j - 1) \in Seq(T)
      BY <3>1, SubSeqProperties
    <3> QED
      BY <1>0, <2>1, <3>2
  <2>6. (SubSeq(s, p, j - 1) \o <<s[j]>>) \o r[j + 1]
            = SubSeq(s, p, j - 1) \o (<<s[j]>> \o r[j + 1])
    <3> DEFINE a == SubSeq(s, p, j - 1)
               b == <<s[j]>>
               c == r[j + 1]
    <3>1. a \in Seq(T) /\ b \in Seq(T) /\ c \in Seq(T)
      BY <2>5
    <3> HIDE DEF a, b, c
    <3>2. Regroups(T)
      BY ConcatRegroups, Zenon
    <3>3. (a \o b) \o c = a \o (b \o c)
      BY <3>1, <3>2, Zenon DEF Regroups
    <3> QED
      BY <3>3 DEF a, b, c
  <2>7. r[p] = SubSeq(s, p, (j + 1) - 1) \o r[j + 1]
    BY <2>1, <2>3, <2>4, <2>6
  <2>8. j + 1 \in p .. q
    OBVIOUS
  <2> QED
    BY <2>7, <2>8
<1>4. q \in S
  <2>1. p \in Nat /\ q \in Nat /\ q \in p .. q
    BY <1>0
  <2> HIDE DEF S
  <2> QED
    BY <1>2, <1>3, <2>1, Upward
<1> QED
  BY <1>4 DEF r

(* A text without a prefix of the ID is left as it is.                       *)
LEMMA StripNothing ==
    ASSUME NEW T, NEW s \in Seq(T), NEW id, ~Occurs(s, id)
    PROVE  HcsStripAllSd(s, id) = s
<1> DEFINE n == Len(s) + 1
<1>0. n \in 1 .. Len(s) + 1 /\ 1 \in 1 .. Len(s) + 1 /\ n - 1 = Len(s)
      /\ n \in 1 .. Len(s) + 2 /\ \A i \in 1 .. n - 1 : ~At(s, id, i)
  <2>1. Len(s) \in Nat /\ \A i \in 1 .. Len(s) : ~At(s, id, i)
    BY DEF Occurs
  <2> QED
    BY <2>1
<1>1. Remaining(s, id)[1] = SubSeq(s, 1, n - 1) \o Remaining(s, id)[n]
  <2> HIDE DEF n
  <2> QED
    BY <1>0, CopyRun
<1>2. Remaining(s, id)[n] = << >>
  <2>1. Remaining(s, id)[n] = RestAt(Remaining(s, id), s, id, n)
    BY <1>0, RemainingUnfolds
  <2>2. n > Len(s) /\ ~(n <= Len(s)) /\ ~At(s, id, n)
    BY <1>0 DEF At
  <2> HIDE DEF n
  <2> QED
    BY <2>1, <2>2 DEF RestAt
<1>3. SubSeq(s, 1, Len(s)) = s
  BY SubSeqFull
<1> QED
  BY <1>0, <1>1, <1>2, <1>3, ConcatEmptySeq DEF HcsStripAllSd

(* One step of each scan.                                                    *)
LEMMA ValueEndStep ==
    ASSUME NEW s, Len(s) \in Nat, NEW i \in 1 .. Len(s) + 2
    PROVE  /\ i > Len(s) => ValueEnd(s)[i] = Len(s) + 1
           /\ i <= Len(s) /\ s[i] = Quote => ValueEnd(s)[i] = i
           /\ i <= Len(s) /\ s[i] = Backslash =>
                  ValueEnd(s)[i] = ValueEnd(s)[i + 2]
           /\ i <= Len(s) /\ s[i] # Quote /\ s[i] # Backslash =>
                  ValueEnd(s)[i] = ValueEnd(s)[i + 1]
<1> DEFINE f == ValueEnd(s)
<1>1. f[i] = EndAt(f, s, i)
  <2>1. ValueEnd(s) = [k \in 1 .. Len(s) + 2 |-> EndAt(ValueEnd(s), s, k)]
    BY ValueEndUnfolds
  <2> HIDE DEF f
  <2> QED
    BY <2>1 DEF f
<1> HIDE DEF f
<1>2. CASE i > Len(s)
  BY <1>1, <1>2 DEF EndAt, f
<1>3. CASE i <= Len(s)
  <2> DEFINE x == s[i]
             n == Len(s)
  <2>1. /\ f[i] = CASE i > n -> n + 1
                    [] i <= n /\ x = Quote -> i
                    [] i <= n /\ x = Backslash -> f[i + 2]
                    [] OTHER -> f[i + 1]
        /\ i <= n /\ ~(i > n)
    BY <1>1, <1>3 DEF EndAt
  <2> HIDE DEF x, n
  <2>2. x = Quote => f[i] = i
    BY <2>1 DEF Quote, Backslash
  <2>3. x = Backslash => f[i] = f[i + 2]
    BY <2>1 DEF Quote, Backslash
  <2>4. x # Quote /\ x # Backslash => f[i] = f[i + 1]
    BY <2>1
  <2> QED
    BY <2>1, <2>2, <2>3, <2>4 DEF f, x, n
<1> QED
  BY <1>2, <1>3

(* ... of an element, which a value in it does not end ...                   *)
LEMMA ScanStep ==
    ASSUME NEW s, Len(s) \in Nat, NEW i \in 1 .. Len(s) + 2
    PROVE  /\ i > Len(s) => SdScanElement(s)[i] = Len(s) + 2
           /\ i <= Len(s) /\ s[i] = "]" => SdScanElement(s)[i] = i + 1
           /\ i <= Len(s) /\ s[i] = Quote =>
                  SdScanElement(s)[i] = SdScanElement(s)[ValueEnd(s)[i + 1] + 1]
           /\ i <= Len(s) /\ s[i] # Quote /\ s[i] # "]" =>
                  SdScanElement(s)[i] = SdScanElement(s)[i + 1]
<1> DEFINE f == SdScanElement(s)
           g == ValueEnd(s)
<1>1. f[i] = AfterAt(f, s, i)
  <2>1. SdScanElement(s) = [k \in 1 .. Len(s) + 2 |-> AfterAt(SdScanElement(s), s, k)]
    BY ScanUnfolds
  <2> HIDE DEF f
  <2> QED
    BY <2>1 DEF f
<1> HIDE DEF f, g
<1>2. CASE i > Len(s)
  BY <1>1, <1>2 DEF AfterAt, f
<1>3. CASE i <= Len(s)
  <2> DEFINE x == s[i]
             n == Len(s)
  <2>1. /\ f[i] = CASE i > n -> n + 2
                    [] i <= n /\ x = "]" -> i + 1
                    [] i <= n /\ x = Quote -> f[g[i + 1] + 1]
                    [] OTHER -> f[i + 1]
        /\ i <= n /\ ~(i > n)
    BY <1>1, <1>3 DEF AfterAt, g
  <2> HIDE DEF x, n
  <2>2. x = "]" => f[i] = i + 1
    BY <2>1 DEF Quote
  <2>3. x = Quote => f[i] = f[g[i + 1] + 1]
    BY <2>1 DEF Quote
  <2>4. x # Quote /\ x # "]" => f[i] = f[i + 1]
    BY <2>1
  <2> QED
    BY <2>1, <2>2, <2>3, <2>4 DEF f, g, x, n
<1> QED
  BY <1>2, <1>3

(* ... and of what stripping leaves: an element of ours is skipped,          *)
LEMMA RemainingSkips ==
    ASSUME NEW s, NEW id, Len(s) \in Nat, NEW i \in 1 .. Len(s), At(s, id, i)
    PROVE  Remaining(s, id)[i] = Remaining(s, id)[SdScanElement(s)[i + 2]]
<1> DEFINE f == Remaining(s, id)
<1>1. i \in 1 .. Len(s) + 2 /\ i <= Len(s) /\ ~(i > Len(s))
  OBVIOUS
<1>2. f[i] = RestAt(f, s, id, i)
  <2>1. Remaining(s, id)
            = [k \in 1 .. Len(s) + 2 |-> RestAt(Remaining(s, id), s, id, k)]
    BY RemainingUnfolds
  <2> HIDE DEF f
  <2> QED
    BY <1>1, <2>1 DEF f
<1> HIDE DEF f
<1>3. f[i] = f[SdScanElement(s)[i + 2]]
  BY <1>1, <1>2 DEF RestAt
<1> QED
  BY <1>3 DEF f

(* a token that does not begin one is kept,                                  *)
LEMMA RemainingKeeps ==
    ASSUME NEW s, NEW id, Len(s) \in Nat, NEW i \in 1 .. Len(s), ~At(s, id, i)
    PROVE  Remaining(s, id)[i] = <<s[i]>> \o Remaining(s, id)[i + 1]
<1> DEFINE f == Remaining(s, id)
<1>1. i \in 1 .. Len(s) + 2 /\ i <= Len(s) /\ ~(i > Len(s))
  OBVIOUS
<1>2. f[i] = RestAt(f, s, id, i)
  <2>1. Remaining(s, id)
            = [k \in 1 .. Len(s) + 2 |-> RestAt(Remaining(s, id), s, id, k)]
    BY RemainingUnfolds
  <2> HIDE DEF f
  <2> QED
    BY <1>1, <2>1 DEF f
<1> HIDE DEF f
<1>3. f[i] = <<s[i]>> \o f[i + 1]
  BY <1>1, <1>2 DEF RestAt
<1> QED
  BY <1>3 DEF f

(* and nothing is left at the end.                                           *)
LEMMA RemainingEnds ==
    ASSUME NEW s, NEW id, Len(s) \in Nat, NEW i \in 1 .. Len(s) + 2, i > Len(s)
    PROVE  Remaining(s, id)[i] = << >>
<1> DEFINE f == Remaining(s, id)
<1>1. i > Len(s) /\ ~(i <= Len(s)) /\ ~At(s, id, i)
  BY DEF At
<1>2. f[i] = RestAt(f, s, id, i)
  <2>1. Remaining(s, id)
            = [k \in 1 .. Len(s) + 2 |-> RestAt(Remaining(s, id), s, id, k)]
    BY RemainingUnfolds
  <2> HIDE DEF f
  <2> QED
    BY <1>1, <2>1 DEF f
<1> HIDE DEF f
<1>3. f[i] = << >>
  BY <1>1, <1>2 DEF RestAt
<1> QED
  BY <1>3 DEF f

(*****************************************************************************)
(* A scan that stays inside an element depends on nothing around it          *)
(*****************************************************************************)

(* The text s reads e after its first a tokens.                              *)
Reads(s, a, e) ==
    /\ a \in Nat /\ Len(e) \in Nat /\ Len(s) \in Nat /\ a + Len(e) <= Len(s)
    /\ \A i \in 1 .. Len(e) : s[a + i] = e[i]

(* A value that ends inside e ends at the same place of a text that reads e, *)
(* whatever comes after e.                                                   *)
LEMMA ValueEndLocal ==
    ASSUME NEW s, NEW a, NEW e, Reads(s, a, e), NEW i \in 1 .. Len(e) + 2,
           ValueEnd(e)[i] <= Len(e)
    PROVE  ValueEnd(s)[a + i] = a + ValueEnd(e)[i]
<1> DEFINE n == Len(e)
           f == ValueEnd(e)
           g == ValueEnd(s)
           S == {k \in 1 .. n + 2 : f[k] <= n => g[a + k] = a + f[k]}
<1>0. /\ a \in Nat /\ n \in Nat /\ Len(s) \in Nat /\ a + n <= Len(s)
      /\ \A k \in 1 .. n : s[a + k] = e[k]
  BY DEF Reads
<1>1. ASSUME NEW k \in 1 .. n + 2, k > n PROVE k \in S
  BY <1>0, <1>1, ValueEndStep
<1>2. ASSUME NEW k \in 1 .. n + 1, \A j \in k + 1 .. n + 2 : j \in S
      PROVE  k \in S
  <2> SUFFICES ASSUME k <= n, f[k] <= n PROVE g[a + k] = a + f[k]
    <3>1. k > n => k \in S
      BY <1>0, <1>1
    <3> QED
      BY <1>0, <3>1
  <2> DEFINE c == a + k
  <2>1. /\ k \in 1 .. n + 2 /\ c <= Len(s) /\ c \in 1 .. Len(s) + 2
        /\ s[c] = e[k] /\ c + 1 = a + (k + 1) /\ c + 2 = a + (k + 2)
    BY <1>0
  <2>2. k + 1 \in S /\ k + 2 \in S
    BY <1>0, <1>2
  <2> HIDE DEF c
  <2>3. /\ e[k] = Quote => f[k] = k
        /\ e[k] = Backslash => f[k] = f[k + 2]
        /\ e[k] # Quote /\ e[k] # Backslash => f[k] = f[k + 1]
    BY <1>0, <2>1, ValueEndStep
  <2>4. /\ e[k] = Quote => g[c] = c
        /\ e[k] = Backslash => g[c] = g[c + 2]
        /\ e[k] # Quote /\ e[k] # Backslash => g[c] = g[c + 1]
    BY <1>0, <2>1, ValueEndStep
  <2> HIDE DEF f, g
  <2>5. g[c] = a + f[k]
    <3>1. CASE e[k] = Quote
      BY <2>3, <2>4, <3>1 DEF c
    <3>2. CASE e[k] = Backslash
      BY <2>1, <2>2, <2>3, <2>4, <3>2
    <3>3. CASE e[k] # Quote /\ e[k] # Backslash
      BY <2>1, <2>2, <2>3, <2>4, <3>3
    <3> QED
      BY <3>1, <3>2, <3>3
  <2> QED
    BY <2>5 DEF c
<1>3. i \in S
  <2>1. n + 2 \in S
    BY <1>0, <1>1
  <2> HIDE DEF S
  <2> QED
    BY <1>0, <1>2, <2>1, Downward
<1> QED
  BY <1>3

(* An element that ends inside e ends at the same place of such a text.      *)
LEMMA ScanLocal ==
    ASSUME NEW s, NEW a, NEW e, Reads(s, a, e), NEW i \in 1 .. Len(e) + 2,
           SdScanElement(e)[i] <= Len(e) + 1
    PROVE  SdScanElement(s)[a + i] = a + SdScanElement(e)[i]
<1> DEFINE n == Len(e)
           f == SdScanElement(e)
           g == SdScanElement(s)
           S == {k \in 1 .. n + 2 : f[k] <= n + 1 => g[a + k] = a + f[k]}
<1>0. /\ a \in Nat /\ n \in Nat /\ Len(s) \in Nat /\ a + n <= Len(s)
      /\ \A k \in 1 .. n : s[a + k] = e[k]
  BY DEF Reads
<1>1. ASSUME NEW k \in 1 .. n + 2, k > n PROVE f[k] = n + 2
  BY <1>0, <1>1, ScanStep
<1>2. ASSUME NEW k \in 1 .. n + 1, \A j \in k + 1 .. n + 2 : j \in S
      PROVE  k \in S
  <2> SUFFICES ASSUME k <= n, f[k] <= n + 1 PROVE g[a + k] = a + f[k]
    <3>1. k > n => f[k] = n + 2
      BY <1>0, <1>1
    <3>2. ~(n + 2 <= n + 1)
      BY <1>0
    <3> HIDE DEF f, g
    <3> QED
      BY <1>0, <3>1, <3>2
  <2> DEFINE c == a + k
  <2>1. /\ k \in 1 .. n + 2 /\ c <= Len(s) /\ c \in 1 .. Len(s) + 2
        /\ s[c] = e[k] /\ c + 1 = a + (k + 1)
        /\ k + 1 \in k + 1 .. n + 2 /\ k + 1 \in 1 .. Len(e) + 2
    BY <1>0
  <2>2. k + 1 \in S
    BY <1>2, <2>1
  <2> HIDE DEF c
  <2> DEFINE u == ValueEnd(e)[k + 1]
             w == ValueEnd(s)[c + 1]
  <2>3. /\ e[k] = "]" => f[k] = k + 1
        /\ e[k] = Quote => f[k] = f[u + 1]
        /\ e[k] # Quote /\ e[k] # "]" => f[k] = f[k + 1]
    BY <1>0, <2>1, ScanStep
  <2>4. /\ e[k] = "]" => g[c] = c + 1
        /\ e[k] = Quote => g[c] = g[w + 1]
        /\ e[k] # Quote /\ e[k] # "]" => g[c] = g[c + 1]
    BY <1>0, <2>1, ScanStep
  <2>5. u \in Nat /\ u <= n + 1 /\ u >= k
    <3>1. /\ u \in Nat
          /\ k + 1 <= Len(e) => u \in k + 1 .. Len(e) + 1
          /\ k + 1 > Len(e) => u = Len(e) + 1
      BY <1>0, <2>1, ValueEndRange
    <3> HIDE DEF u
    <3> QED
      BY <1>0, <3>1
  <2>6. u <= n => w = a + u
    BY <2>1, ValueEndLocal
  <2>7. ASSUME NEW x, x = n + 2 PROVE f[x] = n + 2
    BY <1>0, <1>1, <2>7
  <2> HIDE DEF f, g, u, w
  <2>8. g[c] = a + f[k]
    <3>1. CASE e[k] = "]"
      BY <1>0, <2>3, <2>4, <3>1 DEF c
    <3>2. CASE e[k] = Quote
      <4>1. u # n + 1
        <5> SUFFICES ASSUME u = n + 1 PROVE FALSE
          OBVIOUS
        <5>1. u + 1 = n + 2
          BY <1>0
        <5>2. f[k] = n + 2
          BY <2>3, <2>7, <3>2, <5>1
        <5> QED
          BY <1>0, <5>2
      <4>2. u <= n /\ u + 1 \in k + 1 .. n + 2
        <5> HIDE DEF n, S
        <5>1. u \in Nat /\ n \in Nat /\ k \in Nat
          BY <1>0, <2>5
        <5> QED
          BY <2>5, <4>1, <5>1
      <4>4. w + 1 = a + (u + 1)
        BY <1>0, <2>5, <2>6, <4>2
      <4>3. u + 1 \in S
        BY <1>2, <4>2
      <4> QED
        BY <2>3, <2>4, <3>2, <4>2, <4>3, <4>4
    <3>3. CASE e[k] # "]" /\ e[k] # Quote
      BY <2>1, <2>2, <2>3, <2>4, <3>3
    <3> QED
      BY <3>1, <3>2, <3>3
  <2> QED
    BY <2>8 DEF c
<1>3. i \in S
  <2>1. n + 2 \in S
    <3>1. n + 2 \in 1 .. n + 2 /\ n + 2 > n /\ ~(n + 2 <= n + 1)
      BY <1>0
    <3>2. f[n + 2] = n + 2
      BY <1>1, <3>1
    <3> HIDE DEF f, g
    <3> QED
      BY <3>1, <3>2
  <2> HIDE DEF S
  <2> QED
    BY <1>0, <1>2, <2>1, Downward
<1> QED
  BY <1>3

(*****************************************************************************)
(* Texts put together from elements                                          *)
(*****************************************************************************)

(* The first i sequences of seqs, one after the other.                       *)
(* One step of Joined                                                        *)
JoinAt(f, seqs, i) == IF i = 0 THEN << >> ELSE f[i - 1] \o seqs[i]

Joined(seqs) ==
    LET joined[i \in 0 .. Len(seqs)] ==
            IF i = 0 THEN << >> ELSE joined[i - 1] \o seqs[i]
    IN  joined

(* Joined unfolds as it is written.                                          *)
LEMMA JoinedUnfolds ==
    ASSUME NEW seqs, Len(seqs) \in Nat
    PROVE  Joined(seqs) =
               [i \in 0 .. Len(seqs) |-> JoinAt(Joined(seqs), seqs, i)]
<1> DEFINE n == Len(seqs)
           Is(f, k) == f = [i \in 0 .. k |-> JoinAt(f, seqs, i)]
           S == {k \in 0 .. n : \E f : Is(f, k)}
<1>1. 0 \in S
  <2> DEFINE f == [i \in 0 .. 0 |-> << >>]
  <2>1. Is(f, 0)
    BY DEF JoinAt
  <2> HIDE DEF f, Is
  <2> QED
    BY <2>1
<1>2. ASSUME NEW k \in 0 .. n - 1, k \in S PROVE k + 1 \in S
  <2>1. PICK f : Is(f, k)
    BY <1>2
  <2> DEFINE g == [i \in 0 .. k + 1 |-> JoinAt(f, seqs, i)]
  <2>2. \A i \in 0 .. k : g[i] = f[i]
    BY <2>1
  <2>3. \A i \in 0 .. k + 1 : JoinAt(f, seqs, i) = JoinAt(g, seqs, i)
    <3> SUFFICES ASSUME NEW i \in 0 .. k + 1
                 PROVE  JoinAt(f, seqs, i) = JoinAt(g, seqs, i)
      OBVIOUS
    <3> HIDE DEF g
    <3>1. i # 0 => f[i - 1] = g[i - 1]
      BY <2>2
    <3> QED
      BY <3>1 DEF JoinAt
  <2>4. Is(g, k + 1)
    BY <2>3
  <2> HIDE DEF g, Is
  <2> QED
    BY <2>4
<1>3. n \in S
  <2>1. n \in 0 .. n /\ 0 \in Nat /\ n \in Nat
    OBVIOUS
  <2> HIDE DEF S, n
  <2>2. \A i \in 0 .. n : i \in S
    BY <1>1, <1>2, <2>1, Upward
  <2> QED
    BY <2>1, <2>2
<1>4. \E f : Is(f, n)
  BY <1>3
<1> QED
  BY <1>4, Zenon DEF Joined, JoinAt

(* The same as two equations                                                 *)
LEMMA JoinedStep ==
    ASSUME NEW seqs, Len(seqs) \in Nat
    PROVE  /\ Joined(seqs)[0] = << >>
           /\ \A i \in 1 .. Len(seqs) :
                  Joined(seqs)[i] = Joined(seqs)[i - 1] \o seqs[i]
<1> DEFINE f == Joined(seqs)
<1>1. \A i \in 0 .. Len(seqs) : f[i] = JoinAt(f, seqs, i)
  <2> HIDE DEF f
  <2> QED
    BY JoinedUnfolds DEF f
<1> HIDE DEF f
<1>2. f[0] = << >>
  BY <1>1 DEF JoinAt
<1>3. ASSUME NEW i \in 1 .. Len(seqs) PROVE f[i] = f[i - 1] \o seqs[i]
  <2>1. i \in 0 .. Len(seqs) /\ i # 0
    OBVIOUS
  <2> QED
    BY <1>1, <2>1 DEF JoinAt
<1> QED
  BY <1>2, <1>3 DEF f

(* What is joined of texts is a text.                                        *)
LEMMA JoinedType ==
    ASSUME NEW T, NEW seqs, Len(seqs) \in Nat,
           \A i \in 1 .. Len(seqs) : seqs[i] \in Seq(T)
    PROVE  \A i \in 0 .. Len(seqs) : Joined(seqs)[i] \in Seq(T)
<1> DEFINE n == Len(seqs)
           f == Joined(seqs)
           S == {k \in 0 .. n : f[k] \in Seq(T)}
<1>1. 0 \in S
  <2>1. f[0] = << >>
    BY JoinedStep
  <2>2. << >> \in Seq(T)
    BY EmptySeq
  <2>3. 0 \in 0 .. n
    OBVIOUS
  <2> HIDE DEF f, n
  <2> QED
    BY <2>1, <2>2, <2>3
<1>2. ASSUME NEW k \in 0 .. n - 1, k \in S PROVE k + 1 \in S
  <2>1. k + 1 \in 1 .. Len(seqs) /\ (k + 1) - 1 = k
    OBVIOUS
  <2>2. f[k + 1] = f[k] \o seqs[k + 1]
    BY <2>1, JoinedStep
  <2>3. f[k] \in Seq(T) /\ seqs[k + 1] \in Seq(T)
    BY <1>2, <2>1
  <2> HIDE DEF f
  <2>4. f[k] \o seqs[k + 1] \in Seq(T)
    BY <2>3, ConcatProperties
  <2>5. k + 1 \in 0 .. n
    OBVIOUS
  <2> HIDE DEF n
  <2> QED
    BY <2>2, <2>4, <2>5
<1>3. \A i \in 0 .. n : i \in S
  <2> HIDE DEF S
  <2> QED
    BY <1>1, <1>2, Upward
<1> QED
  BY <1>3

(* FlattenSeq is what has been joined in the end.                            *)
LEMMA FlattenIsJoined ==
    ASSUME NEW T, NEW seqs \in Seq(Seq(T))
    PROVE  FlattenSeq(seqs) = Joined(seqs)[Len(seqs)]
<1> DEFINE n == Len(seqs)
           j == Joined(seqs)
           Step(f, i) == IF i = 1 THEN seqs[i] ELSE f[i - 1] \o seqs[i]
           Is(f) == f = [i \in 1 .. n |-> Step(f, i)]
           flatten == CHOOSE f : Is(f)
<1>0. n \in Nat /\ \A i \in 1 .. n : seqs[i] \in Seq(T)
  OBVIOUS
<1>1. CASE n = 0
  <2>1. seqs = << >>
    BY <1>1, EmptySeq
  <2>2. j[0] = << >>
    BY <1>0, JoinedStep
  <2>3. FlattenSeq(seqs) = seqs
    BY <1>1 DEF FlattenSeq
  <2> HIDE DEF j
  <2>4. FlattenSeq(seqs) = j[Len(seqs)]
    BY <1>1, <2>1, <2>2, <2>3
  <2> QED
    BY <2>4 DEF j
<1>2. CASE n # 0
  <2>1. \A i \in 1 .. n : j[i] = Step(j, i)
    <3> SUFFICES ASSUME NEW i \in 1 .. n PROVE j[i] = Step(j, i)
      OBVIOUS
    <3>1. j[i] = j[i - 1] \o seqs[i]
      BY <1>0, JoinedStep
    <3>2. CASE i = 1
      <4>1. j[0] = << >> /\ seqs[1] \in Seq(T)
        <5>1. j[0] = << >>
          BY <1>0, JoinedStep
        <5>2. seqs[1] \in Seq(T)
          BY <1>0, <1>2
        <5> QED
          BY <5>1, <5>2
      <4>2. i - 1 = 0
        BY <3>2
      <4> HIDE DEF j
      <4>3. << >> \o seqs[1] = seqs[1]
        BY <4>1, ConcatEmptySeq
      <4> QED
        BY <3>1, <3>2, <4>1, <4>2, <4>3
    <3>3. CASE i # 1
      BY <3>1, <3>3
    <3> QED
      BY <3>2, <3>3
  <2> HIDE DEF j
  <2>2. Is([i \in 1 .. n |-> j[i]])
    <3> DEFINE g == [i \in 1 .. n |-> j[i]]
    <3>1. ASSUME NEW i \in 1 .. n PROVE Step(g, i) = g[i]
      <4>1. i # 1 => g[i - 1] = j[i - 1]
        BY <1>0
      <4>2. g[i] = j[i] /\ j[i] = Step(j, i)
        BY <2>1
      <4> HIDE DEF g
      <4> QED
        BY <4>1, <4>2
    <3>2. g = [i \in 1 .. n |-> g[i]]
      OBVIOUS
    <3> HIDE DEF g, Step
    <3>3. g = [i \in 1 .. n |-> Step(g, i)]
      BY <3>1, <3>2
    <3> QED
      BY <3>3 DEF g
  <2>3. Is(flatten)
    <3> HIDE DEF Is
    <3> QED
      BY <2>2
  <2> DEFINE S == {k \in 1 .. n : flatten[k] = j[k]}
  <2> HIDE DEF flatten
  <2>4. \A i \in 1 .. n : flatten[i] = Step(flatten, i)
    BY <2>3
  <2>5. 1 \in S
    BY <1>0, <1>2, <2>1, <2>4
  <2>6. ASSUME NEW k \in 1 .. n - 1, k \in S PROVE k + 1 \in S
    BY <1>0, <2>1, <2>4, <2>6
  <2>7. n \in S
    <3>1. n \in 1 .. n /\ 1 \in Nat /\ n \in Nat
      BY <1>0, <1>2
    <3> HIDE DEF S, n
    <3>2. \A i \in 1 .. n : i \in S
      BY <2>5, <2>6, <3>1, Upward
    <3> QED
      BY <3>1, <3>2
  <2>8. FlattenSeq(seqs) = flatten[n]
    BY <1>2 DEF FlattenSeq, flatten
  <2> QED
    BY <2>7, <2>8 DEF j
<1> QED
  BY <1>1, <1>2

(* What is appended to a text is read after it ...                           *)
LEMMA ReadsConcat ==
    ASSUME NEW T, NEW s \in Seq(T), NEW e \in Seq(T)
    PROVE  Reads(s \o e, Len(s), e)
<1>1. Len(s) \in Nat /\ Len(e) \in Nat
  OBVIOUS
<1>2. /\ Len(s \o e) = Len(s) + Len(e)
      /\ \A i \in 1 .. Len(s) + Len(e) :
             (s \o e)[i] = IF i <= Len(s) THEN s[i] ELSE e[i - Len(s)]
  BY ConcatProperties
<1>3. ASSUME NEW i \in 1 .. Len(e) PROVE (s \o e)[Len(s) + i] = e[i]
  <2>1. /\ Len(s) + i \in 1 .. Len(s) + Len(e) /\ ~(Len(s) + i <= Len(s))
        /\ (Len(s) + i) - Len(s) = i
    BY <1>1
  <2> QED
    BY <1>2, <2>1
<1> QED
  BY <1>1, <1>2, <1>3 DEF Reads

(* ... and appending more does not change what was read before.              *)
LEMMA ReadsLonger ==
    ASSUME NEW T, NEW s \in Seq(T), NEW t \in Seq(T), NEW a, NEW e,
           Reads(s, a, e)
    PROVE  Reads(s \o t, a, e)
<1>1. Len(s) \in Nat /\ Len(t) \in Nat
  OBVIOUS
<1>2. /\ Len(s \o t) = Len(s) + Len(t)
      /\ \A i \in 1 .. Len(s) + Len(t) :
             (s \o t)[i] = IF i <= Len(s) THEN s[i] ELSE t[i - Len(s)]
  BY ConcatProperties
<1>3. /\ a \in Nat /\ Len(e) \in Nat /\ a + Len(e) <= Len(s)
      /\ \A i \in 1 .. Len(e) : s[a + i] = e[i]
  BY DEF Reads
<1>4. ASSUME NEW i \in 1 .. Len(e) PROVE (s \o t)[a + i] = e[i]
  <2>1. a + i \in 1 .. Len(s) + Len(t) /\ a + i <= Len(s)
    BY <1>1, <1>3
  <2> QED
    BY <1>2, <1>3, <2>1
<1>5. /\ Len(s \o t) \in Nat /\ a + Len(e) <= Len(s \o t)
  BY <1>1, <1>2, <1>3
<1> QED
  BY <1>3, <1>4, <1>5 DEF Reads

(* A text put together from elements reads each of them after those before.  *)
LEMMA JoinedReads ==
    ASSUME NEW T, NEW seqs, Len(seqs) \in Nat,
           \A i \in 1 .. Len(seqs) : seqs[i] \in Seq(T),
           NEW k \in 1 .. Len(seqs)
    PROVE  Reads(Joined(seqs)[Len(seqs)], Len(Joined(seqs)[k - 1]), seqs[k])
<1> DEFINE n == Len(seqs)
           f == Joined(seqs)
           a == Len(f[k - 1])
           S == {j \in k .. n : Reads(f[j], a, seqs[k])}
<1>1. \A i \in 0 .. n : f[i] \in Seq(T)
  BY JoinedType
<1>2. \A i \in 1 .. n : f[i] = f[i - 1] \o seqs[i]
  BY JoinedStep
<1> HIDE DEF f
<1>3. k \in S
  <2>1. f[k - 1] \in Seq(T) /\ seqs[k] \in Seq(T)
    BY <1>1
  <2>2. Reads(f[k - 1] \o seqs[k], a, seqs[k])
    BY <2>1, ReadsConcat
  <2>3. f[k] = f[k - 1] \o seqs[k]
    BY <1>2
  <2>4. k \in k .. n
    OBVIOUS
  <2> QED
    BY <2>2, <2>3, <2>4
<1>4. ASSUME NEW j \in k .. n - 1, j \in S PROVE j + 1 \in S
  <2>1. j + 1 \in 1 .. n /\ j \in 0 .. n /\ (j + 1) - 1 = j /\ j + 1 \in k .. n
    OBVIOUS
  <2>2. f[j] \in Seq(T) /\ seqs[j + 1] \in Seq(T) /\ f[j + 1] = f[j] \o seqs[j + 1]
    BY <1>1, <1>2, <2>1
  <2>3. Reads(f[j], a, seqs[k])
    BY <1>4
  <2>4. Reads(f[j] \o seqs[j + 1], a, seqs[k])
    BY <2>2, <2>3, ReadsLonger
  <2> QED
    BY <2>1, <2>2, <2>4
<1>5. n \in S
  <2>1. n \in k .. n /\ k \in Nat /\ n \in Nat
    OBVIOUS
  <2> HIDE DEF S, n
  <2>2. \A i \in k .. n : i \in S
    BY <1>3, <1>4, <2>1, Upward
  <2> QED
    BY <2>1, <2>2
<1> QED
  BY <1>5 DEF f

(* Stripping takes the whole of e or nothing of it, and no prefix begins at  *)
(* its end.                                                                  *)
Strippable(e, id) ==
    /\ \A i \in 2 .. Len(e) : ~At(e, id, i)
    /\ e # << >> => e[Len(e)] # id[1]
    /\ At(e, id, 1) => SdScanElement(e)[3] = Len(e) + 1

(* What is left of an element that Strippable allows                         *)
LeftOf(e, id) == IF At(e, id, 1) THEN << >> ELSE e

(* Where a text reads such an element, stripping leaves LeftOf it and goes on*)
(* behind it.                                                                *)
LEMMA StripReads ==
    ASSUME NEW T, NEW s \in Seq(T), NEW a, NEW e \in Seq(T), Reads(s, a, e),
           NEW id, Strippable(e, id)
    PROVE  Remaining(s, id)[a + 1]
               = LeftOf(e, id) \o Remaining(s, id)[a + Len(e) + 1]
<1> DEFINE n == Len(e)
           r == Remaining(s, id)
           q == a + n + 1
<1>1. /\ a \in Nat /\ n \in Nat /\ Len(s) \in Nat /\ a + n <= Len(s)
      /\ \A i \in 1 .. n : s[a + i] = e[i]
  BY DEF Reads
<1>2. a + 1 \in 1 .. Len(s) + 1 /\ q \in a + 1 .. Len(s) + 1
      /\ a + 1 \in 1 .. Len(s) + 2 /\ q \in 1 .. Len(s) + 2
  BY <1>1
<1>3. r[q] \in Seq(T)
  BY <1>2, RemainingType
<1>4. CASE At(e, id, 1)
  <2>1. n >= 2 /\ e[1] = id[1] /\ e[2] = id[2]
    BY <1>1, <1>4 DEF At
  <2>2. 1 \in 1 .. n /\ 2 \in 1 .. n /\ a + 1 < Len(s) /\ 3 \in 1 .. Len(e) + 2
        /\ (a + 1) + 2 = a + 3 /\ (a + 1) + 1 = a + 2
        /\ n + 1 <= Len(e) + 1 /\ a + (n + 1) = q
    BY <1>1, <2>1
  <2>3. At(s, id, a + 1)
    BY <1>1, <2>1, <2>2 DEF At
  <2>4. SdScanElement(e)[3] = n + 1
    BY <1>4 DEF Strippable
  <2>5. SdScanElement(s)[a + 3] = a + (n + 1)
    BY <2>2, <2>4, ScanLocal
  <2>6. r[a + 1] = r[SdScanElement(s)[(a + 1) + 2]]
    <3>1. a + 1 \in 1 .. Len(s)
      BY <1>1, <2>2
    <3> QED
      BY <1>1, <2>3, <3>1, RemainingSkips
  <2>7. r[a + 1] = r[q]
    BY <2>2, <2>5, <2>6
  <2>8. << >> \o r[q] = r[q]
    <3> HIDE DEF r, q
    <3> QED
      BY <1>3, ConcatEmptySeq
  <2> QED
    BY <1>4, <2>7, <2>8 DEF LeftOf
<1>5. CASE ~At(e, id, 1)
  <2>1. \A i \in 1 .. n : ~At(e, id, i)
    <3> SUFFICES ASSUME NEW i \in 1 .. n PROVE ~At(e, id, i)
      OBVIOUS
    <3>1. i = 1 \/ i \in 2 .. n
      BY <1>1
    <3> QED
      BY <1>5, <3>1 DEF Strippable
  <2>2. \A i \in a + 1 .. q - 1 : ~At(s, id, i)
    <3> SUFFICES ASSUME NEW i \in a + 1 .. q - 1, At(s, id, i) PROVE FALSE
      OBVIOUS
    <3> DEFINE j == i - a
    <3>1. j \in 1 .. n /\ a + j = i /\ a + (j + 1) = i + 1
      BY <1>1
    <3>2. e[j] = id[1]
      BY <1>1, <3>1 DEF At
    <3> HIDE DEF j
    <3>3. CASE j = n
      <4>1. e # << >>
        BY <1>1, <3>1, EmptySeq
      <4> QED
        BY <3>2, <3>3, <4>1 DEF Strippable
    <3>4. CASE j # n
      <4>1. j + 1 \in 1 .. n /\ j < Len(e)
        BY <1>1, <3>1, <3>4
      <4>2. e[j + 1] = id[2]
        BY <1>1, <3>1, <4>1 DEF At
      <4> QED
        BY <2>1, <3>1, <3>2, <4>1, <4>2 DEF At
    <3> QED
      BY <3>3, <3>4
  <2>3. r[a + 1] = SubSeq(s, a + 1, q - 1) \o r[q]
    BY <1>2, <2>2, CopyRun
  <2>4. SubSeq(s, a + 1, q - 1) = e
    <3>1. q - 1 = a + n /\ a + 1 \in Int /\ q - 1 \in Int
      BY <1>1
    <3>2. \A i \in a + 1 .. q - 1 : s[i] \in T
      BY <1>1
    <3> DEFINE u == SubSeq(s, a + 1, q - 1)
    <3>3. /\ u \in Seq(T)
          /\ Len(u) = IF a + 1 <= q - 1 THEN (q - 1) - (a + 1) + 1 ELSE 0
          /\ \A i \in 1 .. (q - 1) - (a + 1) + 1 : u[i] = s[(a + 1) + i - 1]
      BY <3>1, <3>2, SubSeqProperties
    <3> HIDE DEF u
    <3>4. Len(u) = n
      BY <1>1, <3>1, <3>3
    <3>5. \A i \in 1 .. Len(u) : u[i] = e[i]
      <4> SUFFICES ASSUME NEW i \in 1 .. n PROVE u[i] = e[i]
        BY <3>4
      <4>1. i \in 1 .. (q - 1) - (a + 1) + 1 /\ (a + 1) + i - 1 = a + i
        BY <1>1, <3>1
      <4> QED
        BY <1>1, <3>3, <4>1
    <3>6. u = e
      BY <3>3, <3>4, <3>5, SeqEqual
    <3> QED
      BY <3>6 DEF u
  <2> QED
    BY <1>5, <2>3, <2>4 DEF LeftOf
<1> QED
  BY <1>4, <1>5

(* LeftOf every element of a list                                            *)
StripEach(seqs, id) == [i \in DOMAIN seqs |-> LeftOf(seqs[i], id)]

(* Stripping each of a list of texts leaves a list of as many texts.         *)
LEMMA StripEachType ==
    ASSUME NEW T, NEW seqs \in Seq(Seq(T)), NEW id
    PROVE  /\ StripEach(seqs, id) \in Seq(Seq(T))
           /\ Len(StripEach(seqs, id)) = Len(seqs)
           /\ DOMAIN StripEach(seqs, id) = DOMAIN seqs
           /\ \A i \in 1 .. Len(seqs) :
                  StripEach(seqs, id)[i] = LeftOf(seqs[i], id)
<1> DEFINE t == [i \in 1 .. Len(seqs) |-> LeftOf(seqs[i], id)]
<1>1. Len(seqs) \in Nat /\ DOMAIN seqs = 1 .. Len(seqs)
  BY LenProperties
<1>2. ASSUME NEW i \in 1 .. Len(seqs) PROVE LeftOf(seqs[i], id) \in Seq(T)
  <2>1. seqs[i] \in Seq(T) /\ << >> \in Seq(T)
    BY ElementOfSeq, EmptySeq
  <2> QED
    BY <2>1 DEF LeftOf
<1>3. t \in Seq(Seq(T)) /\ Len(t) = Len(seqs)
  <2>1. t \in [1 .. Len(seqs) -> Seq(T)]
    BY <1>2
  <2> HIDE DEF t
  <2> QED
    BY <1>1, <2>1
<1>4. StripEach(seqs, id) = t
  BY <1>1 DEF StripEach
<1> QED
  BY <1>1, <1>3, <1>4

(* Stripping a text put together from elements strips each of them.          *)
LEMMA StripFlatten ==
    ASSUME NEW T, NEW seqs \in Seq(Seq(T)), NEW id,
           \A i \in 1 .. Len(seqs) : Strippable(seqs[i], id)
    PROVE  HcsStripAllSd(FlattenSeq(seqs), id) = FlattenSeq(StripEach(seqs, id))
<1> DEFINE n == Len(seqs)
           t == StripEach(seqs, id)
           f == Joined(seqs)
           g == Joined(t)
           s == f[n]
           r == Remaining(s, id)
           S == {k \in 0 .. n : r[1] = g[k] \o r[Len(f[k]) + 1]}
<1>1. n \in Nat /\ \A i \in 1 .. n : seqs[i] \in Seq(T)
  <2>1. n \in Nat
    BY LenProperties
  <2> QED
    BY <2>1, ElementOfSeq
<1>2. /\ t \in Seq(Seq(T)) /\ Len(t) = n
      /\ \A i \in 1 .. n : t[i] = LeftOf(seqs[i], id) /\ t[i] \in Seq(T)
  <2>1. /\ t \in Seq(Seq(T)) /\ Len(t) = n
        /\ \A i \in 1 .. n : t[i] = LeftOf(seqs[i], id)
    BY StripEachType
  <2>2. \A i \in 1 .. Len(t) : t[i] \in Seq(T)
    BY <2>1, ElementOfSeq
  <2> HIDE DEF t
  <2> QED
    BY <2>1, <2>2
<1> HIDE DEF t
<1>3. /\ f[0] = << >> /\ \A i \in 1 .. n : f[i] = f[i - 1] \o seqs[i]
      /\ \A i \in 0 .. n : f[i] \in Seq(T)
  <2>1. f[0] = << >> /\ \A i \in 1 .. n : f[i] = f[i - 1] \o seqs[i]
    BY <1>1, JoinedStep
  <2>2. \A i \in 0 .. n : f[i] \in Seq(T)
    BY <1>1, JoinedType
  <2> QED
    BY <2>1, <2>2
<1>4. /\ g[0] = << >> /\ \A i \in 1 .. n : g[i] = g[i - 1] \o t[i]
      /\ \A i \in 0 .. n : g[i] \in Seq(T)
  <2>1. g[0] = << >> /\ \A i \in 1 .. n : g[i] = g[i - 1] \o t[i]
    BY <1>1, <1>2, JoinedStep
  <2>2. \A i \in 0 .. n : g[i] \in Seq(T)
    BY <1>1, <1>2, JoinedType
  <2> QED
    BY <2>1, <2>2
<1>5. ASSUME NEW k \in 1 .. n PROVE Reads(s, Len(f[k - 1]), seqs[k])
  BY <1>1, JoinedReads
<1> HIDE DEF f, g
<1>6. s \in Seq(T)
  BY <1>1, <1>3
<1>7. \A i \in 1 .. Len(s) + 2 : r[i] \in Seq(T)
  BY <1>6, RemainingType
<1>assoc. Regroups(T)
  BY ConcatRegroups
<1>8. 0 \in S
  <2>1. Len(s) \in Nat
    BY <1>6
  <2>2. 1 \in 1 .. Len(s) + 2 /\ 0 \in 0 .. n
    BY <1>1, <2>1
  <2>3. r[1] \in Seq(T)
    BY <1>7, <2>2
  <2> HIDE DEF r
  <2>4. Len(f[0]) + 1 = 1
    BY <1>3
  <2>5. << >> \o r[1] = r[1]
    BY <2>3, ConcatEmptySeq
  <2> HIDE DEF n
  <2> QED
    BY <1>4, <2>2, <2>4, <2>5
<1>9. ASSUME NEW k \in 0 .. n - 1, k \in S PROVE k + 1 \in S
  <2> DEFINE e == seqs[k + 1]
             a == Len(f[k])
  <2>1. k + 1 \in 1 .. n /\ (k + 1) - 1 = k /\ k \in 0 .. n /\ k + 1 \in 0 .. n
    BY <1>1
  <2>2. Reads(s, a, e) /\ e \in Seq(T) /\ Strippable(e, id)
    BY <1>1, <1>5, <2>1
  <2>3. f[k] \in Seq(T) /\ g[k] \in Seq(T) /\ f[k + 1] = f[k] \o e
        /\ g[k + 1] = g[k] \o LeftOf(e, id) /\ LeftOf(e, id) \in Seq(T)
    BY <1>2, <1>3, <1>4, <2>1
  <2>4. Len(f[k + 1]) = a + Len(e) /\ a \in Nat /\ Len(e) \in Nat
    BY <2>2, <2>3, ConcatProperties, LenProperties
  <2> HIDE DEF e, a
  <2>5. r[a + 1] = LeftOf(e, id) \o r[a + Len(e) + 1]
    BY <1>6, <2>2, StripReads
  <2>6. a + Len(e) + 1 \in 1 .. Len(s) + 2
    <3>1. a + Len(e) <= Len(s) /\ Len(s) \in Nat
      BY <2>2 DEF Reads
    <3> QED
      BY <2>4, <3>1
  <2>7. r[1] = g[k] \o r[a + 1]
    BY <1>9 DEF a
  <2> DEFINE u == LeftOf(e, id)
             v == g[k]
             w == r[a + Len(e) + 1]
  <2>8. u \in Seq(T) /\ v \in Seq(T) /\ w \in Seq(T)
    BY <1>7, <2>3, <2>6 DEF e
  <2>9. r[1] = v \o (u \o w) /\ g[k + 1] = v \o u
    BY <2>3, <2>5, <2>7 DEF e
  <2>10. w = r[Len(f[k + 1]) + 1]
    BY <2>4 DEF e, a
  <2> HIDE DEF u, v, w, r
  <2>11. (v \o u) \o w = v \o (u \o w)
    BY <1>assoc, <2>8, Zenon DEF Regroups
  <2>12. r[1] = g[k + 1] \o r[Len(f[k + 1]) + 1]
    BY <2>9, <2>10, <2>11
  <2> QED
    BY <2>1, <2>12
<1>10. n \in S
  <2>1. n \in 0 .. n /\ 0 \in Nat /\ n \in Nat
    BY <1>1
  <2> HIDE DEF S, n
  <2>2. \A i \in 0 .. n : i \in S
    BY <1>8, <1>9, <2>1, Upward
  <2> QED
    BY <2>1, <2>2
<1>11. r[Len(s) + 1] = << >>
  <2>1. Len(s) \in Nat
    BY <1>6
  <2>2. Len(s) + 1 \in 1 .. Len(s) + 2 /\ Len(s) + 1 > Len(s)
    BY <2>1
  <2> QED
    BY <2>1, <2>2, RemainingEnds
<1>12. r[1] = g[n]
  <2>1. r[1] = g[n] \o r[Len(s) + 1]
    BY <1>10
  <2>2. g[n] \in Seq(T)
    BY <1>1, <1>4
  <2> HIDE DEF r
  <2>3. g[n] \o << >> = g[n]
    BY <2>2, ConcatEmptySeq
  <2> QED
    BY <1>11, <2>1, <2>3
<1>13. FlattenSeq(seqs) = s
  BY FlattenIsJoined DEF f
<1>14. FlattenSeq(t) = g[n]
  BY <1>2, FlattenIsJoined DEF g
<1> QED
  BY <1>12, <1>13, <1>14 DEF HcsStripAllSd, t

(*****************************************************************************)
(* A scan looks only ahead                                                   *)
(*****************************************************************************)

(* The text s ends with e, after its first a tokens.                         *)
EndsWith(s, a, e) == Reads(s, a, e) /\ Len(s) = a + Len(e)

(* The end of a value depends only on the text from its beginning on.        *)
LEMMA ValueEndAhead ==
    ASSUME NEW s, NEW a, NEW e, EndsWith(s, a, e), NEW i \in 1 .. Len(e) + 2
    PROVE  ValueEnd(s)[a + i] = a + ValueEnd(e)[i]
<1> DEFINE n == Len(e)
           f == ValueEnd(e)
           g == ValueEnd(s)
           S == {k \in 1 .. n + 2 : g[a + k] = a + f[k]}
<1>0. /\ a \in Nat /\ n \in Nat /\ Len(s) = a + n /\ Len(s) \in Nat
      /\ \A k \in 1 .. n : s[a + k] = e[k]
  BY DEF EndsWith, Reads
<1>1. ASSUME NEW k \in 1 .. n + 2, k > n PROVE g[a + k] = a + f[k]
  <2>1. f[k] = n + 1
    BY <1>0, <1>1, ValueEndStep
  <2>2. a + k \in 1 .. Len(s) + 2 /\ a + k > Len(s)
    BY <1>0, <1>1
  <2>3. g[a + k] = Len(s) + 1
    BY <1>0, <2>2, ValueEndStep
  <2> HIDE DEF f, g
  <2> QED
    BY <1>0, <2>1, <2>3
<1>2. ASSUME NEW k \in 1 .. n + 1, \A j \in k + 1 .. n + 2 : j \in S
      PROVE  k \in S
  <2> SUFFICES ASSUME k <= n PROVE g[a + k] = a + f[k]
    <3> HIDE DEF f, g
    <3> QED
      BY <1>0, <1>1
  <2> DEFINE c == a + k
  <2>1. /\ k \in 1 .. n + 2 /\ c <= Len(s) /\ c \in 1 .. Len(s) + 2
        /\ s[c] = e[k] /\ c + 1 = a + (k + 1) /\ c + 2 = a + (k + 2)
    BY <1>0
  <2>2. g[c + 1] = a + f[k + 1] /\ g[c + 2] = a + f[k + 2]
    <3>1. k + 1 \in S /\ k + 2 \in S
      BY <1>0, <1>2
    <3> HIDE DEF f, g, c
    <3> QED
      BY <2>1, <3>1
  <2> HIDE DEF c
  <2>3. /\ e[k] = Quote => f[k] = k
        /\ e[k] = Backslash => f[k] = f[k + 2]
        /\ e[k] # Quote /\ e[k] # Backslash => f[k] = f[k + 1]
    BY <1>0, <2>1, ValueEndStep
  <2>4. /\ e[k] = Quote => g[c] = c
        /\ e[k] = Backslash => g[c] = g[c + 2]
        /\ e[k] # Quote /\ e[k] # Backslash => g[c] = g[c + 1]
    BY <1>0, <2>1, ValueEndStep
  <2> HIDE DEF f, g
  <2>5. e[k] = Quote => g[c] = a + f[k]
    BY <2>3, <2>4 DEF c
  <2>6. e[k] # Quote => g[c] = a + f[k]
    BY <2>2, <2>3, <2>4
  <2> QED
    BY <2>5, <2>6 DEF c
<1>3. i \in S
  <2>1. n + 2 \in S
    <3>1. n + 2 \in 1 .. n + 2 /\ n + 2 > n
      BY <1>0
    <3> HIDE DEF f, g
    <3> QED
      BY <1>1, <3>1
  <2> HIDE DEF S
  <2> QED
    BY <1>0, <1>2, <2>1, Downward
<1> QED
  BY <1>3

(* So does the end of an element ...                                         *)
LEMMA ScanAhead ==
    ASSUME NEW s, NEW a, NEW e, EndsWith(s, a, e), NEW i \in 1 .. Len(e) + 2
    PROVE  SdScanElement(s)[a + i] = a + SdScanElement(e)[i]
<1> DEFINE n == Len(e)
           f == SdScanElement(e)
           g == SdScanElement(s)
           S == {k \in 1 .. n + 2 : g[a + k] = a + f[k]}
<1>0. /\ a \in Nat /\ n \in Nat /\ Len(s) = a + n /\ Len(s) \in Nat
      /\ \A k \in 1 .. n : s[a + k] = e[k]
  BY DEF EndsWith, Reads
<1>1. ASSUME NEW k \in 1 .. n + 2, k > n PROVE g[a + k] = a + f[k]
  <2>1. f[k] = n + 2
    BY <1>0, <1>1, ScanStep
  <2>2. a + k \in 1 .. Len(s) + 2 /\ a + k > Len(s)
    BY <1>0, <1>1
  <2>3. g[a + k] = Len(s) + 2
    BY <1>0, <2>2, ScanStep
  <2> HIDE DEF f, g
  <2> QED
    BY <1>0, <2>1, <2>3
<1>2. ASSUME NEW k \in 1 .. n + 1, \A j \in k + 1 .. n + 2 : j \in S
      PROVE  k \in S
  <2> SUFFICES ASSUME k <= n PROVE g[a + k] = a + f[k]
    <3> HIDE DEF f, g
    <3> QED
      BY <1>0, <1>1
  <2> DEFINE c == a + k
             u == ValueEnd(e)[k + 1]
             w == ValueEnd(s)[c + 1]
  <2>1. /\ k \in 1 .. n + 2 /\ c <= Len(s) /\ c \in 1 .. Len(s) + 2
        /\ s[c] = e[k] /\ c + 1 = a + (k + 1)
        /\ k + 1 \in k + 1 .. n + 2 /\ k + 1 \in 1 .. Len(e) + 2
    BY <1>0
  <2> HIDE DEF c
  <2>2. w = a + u
    BY <2>1, ValueEndAhead
  <2>3. u + 1 \in k + 1 .. n + 2 /\ u \in Nat
    <3>1. /\ u \in Nat
          /\ k + 1 <= Len(e) => u \in k + 1 .. Len(e) + 1
          /\ k + 1 > Len(e) => u = Len(e) + 1
      BY <1>0, <2>1, ValueEndRange
    <3> HIDE DEF u
    <3> QED
      BY <1>0, <3>1
  <2>4. /\ e[k] = "]" => f[k] = k + 1
        /\ e[k] = Quote => f[k] = f[u + 1]
        /\ e[k] # Quote /\ e[k] # "]" => f[k] = f[k + 1]
    BY <1>0, <2>1, ScanStep
  <2>5. /\ e[k] = "]" => g[c] = c + 1
        /\ e[k] = Quote => g[c] = g[w + 1]
        /\ e[k] # Quote /\ e[k] # "]" => g[c] = g[c + 1]
    BY <1>0, <2>1, ScanStep, ZenonT(60)
  <2> HIDE DEF u, w
  <2>6. w + 1 = a + (u + 1)
    BY <1>0, <2>2, <2>3
  <2>7. g[a + (k + 1)] = a + f[k + 1] /\ g[a + (u + 1)] = a + f[u + 1]
    <3>1. k + 1 \in S /\ u + 1 \in S
      <4> HIDE DEF S
      <4> QED
        BY <1>2, <2>1, <2>3
    <3> HIDE DEF f, g
    <3> QED
      BY <3>1
  <2> HIDE DEF f, g
  <2>8. e[k] = "]" => g[c] = a + f[k]
    BY <1>0, <2>1, <2>4, <2>5
  <2>9. e[k] = Quote => g[c] = a + f[k]
    BY <2>4, <2>5, <2>6, <2>7
  <2>10. e[k] # "]" /\ e[k] # Quote => g[c] = a + f[k]
    BY <2>1, <2>4, <2>5, <2>7
  <2> QED
    BY <2>8, <2>9, <2>10 DEF c
<1>3. i \in S
  <2>1. n + 2 \in S
    <3>1. n + 2 \in 1 .. n + 2 /\ n + 2 > n
      BY <1>0
    <3> HIDE DEF f, g
    <3> QED
      BY <1>1, <3>1
  <2> HIDE DEF S
  <2> QED
    BY <1>0, <1>2, <2>1, Downward
<1> QED
  BY <1>3

(* ... and what stripping leaves from there on.                              *)
LEMMA RemainingAhead ==
    ASSUME NEW s, NEW a, NEW e, EndsWith(s, a, e), NEW id,
           NEW i \in 1 .. Len(e) + 2
    PROVE  Remaining(s, id)[a + i] = Remaining(e, id)[i]
<1> DEFINE n == Len(e)
           f == Remaining(e, id)
           g == Remaining(s, id)
           S == {k \in 1 .. n + 2 : g[a + k] = f[k]}
<1>0. /\ a \in Nat /\ n \in Nat /\ Len(s) = a + n /\ Len(s) \in Nat
      /\ \A k \in 1 .. n : s[a + k] = e[k]
  BY DEF EndsWith, Reads
<1>1. ASSUME NEW k \in 1 .. n + 2, k > n PROVE g[a + k] = f[k]
  <2>1. f[k] = << >>
    BY <1>0, <1>1, RemainingEnds
  <2>2. a + k \in 1 .. Len(s) + 2 /\ a + k > Len(s)
    BY <1>0, <1>1
  <2>3. g[a + k] = << >>
    BY <1>0, <2>2, RemainingEnds
  <2> HIDE DEF f, g
  <2> QED
    BY <2>1, <2>3
<1>2. ASSUME NEW k \in 1 .. n + 1, \A j \in k + 1 .. n + 2 : j \in S
      PROVE  k \in S
  <2> SUFFICES ASSUME k <= n PROVE g[a + k] = f[k]
    <3> HIDE DEF f, g
    <3> QED
      BY <1>0, <1>1
  <2> DEFINE c == a + k
             u == SdScanElement(e)[k + 2]
             w == SdScanElement(s)[c + 2]
  <2>1. /\ k \in 1 .. Len(e) /\ c \in 1 .. Len(s) /\ s[c] = e[k]
        /\ c + 1 = a + (k + 1) /\ c + 2 = a + (k + 2)
        /\ k + 1 \in k + 1 .. n + 2 /\ k + 2 \in 1 .. Len(e) + 2
        /\ k \in Nat \ {0}
    BY <1>0
  <2>2. At(s, id, c) <=> At(e, id, k)
    <3>1. c < Len(s) <=> k < Len(e)
      BY <1>0
    <3>2. k < Len(e) => s[a + (k + 1)] = e[k + 1]
      BY <1>0
    <3> HIDE DEF c
    <3> QED
      BY <2>1, <3>1, <3>2 DEF At
  <2> HIDE DEF c
  <2>3. w = a + u
    BY <2>1, ScanAhead
  <2>4. g[a + (k + 1)] = f[k + 1]
    <3>1. k + 1 \in S
      <4> HIDE DEF S
      <4> QED
        BY <1>2, <2>1
    <3> HIDE DEF f, g
    <3> QED
      BY <3>1
  <2>5. CASE At(e, id, k)
    <3>1. u \in k + 1 .. n + 2
      <4>1. u \in k + 3 .. Len(e) + 2
        BY <1>0, <2>1, <2>5, PrefixScan
      <4> HIDE DEF u
      <4> QED
        BY <1>0, <4>1
    <3>2. f[k] = f[u]
      BY <1>0, <2>1, <2>5, RemainingSkips
    <3>3. g[c] = g[w]
      BY <1>0, <2>1, <2>2, <2>5, RemainingSkips
    <3>4. g[a + u] = f[u]
      <4>1. u \in S
        <5> HIDE DEF S, u
        <5> QED
          BY <1>2, <3>1
      <4> HIDE DEF f, g, u
      <4> QED
        BY <4>1
    <3> HIDE DEF f, g, u, w
    <3> QED
      BY <2>3, <3>2, <3>3, <3>4 DEF c
  <2>6. CASE ~At(e, id, k)
    <3>1. f[k] = <<e[k]>> \o f[k + 1]
      BY <1>0, <2>1, <2>6, RemainingKeeps
    <3>2. g[c] = <<s[c]>> \o g[c + 1]
      <4>1. ~At(s, id, c)
        BY <2>2, <2>6
      <4>2. Len(s) \in Nat
        BY <1>0
      <4>3. c \in 1 .. Len(s)
        BY <2>1
      <4> QED
        BY <4>1, <4>2, <4>3, RemainingKeeps
    <3> HIDE DEF f, g, u, w
    <3> QED
      BY <2>1, <2>4, <3>1, <3>2 DEF c
  <2> QED
    BY <2>5, <2>6
<1>3. i \in S
  <2>1. n + 2 \in S
    <3>1. n + 2 \in 1 .. n + 2 /\ n + 2 > n
      BY <1>0
    <3> HIDE DEF f, g
    <3> QED
      BY <1>1, <3>1
  <2> HIDE DEF S
  <2> QED
    BY <1>0, <1>2, <2>1, Downward
<1> QED
  BY <1>3

(* Stripping an element and any text after it strips each of the two.        *)
LEMMA StripConcat ==
    ASSUME NEW e \in Seq(Token), NEW t \in Seq(Token), NEW id, Strippable(e, id)
    PROVE  HcsStripAllSd(e \o t, id) = LeftOf(e, id) \o HcsStripAllSd(t, id)
<1> DEFINE s == e \o t
<1>1. s \in Seq(Token) /\ Len(s) = Len(e) + Len(t) /\ Len(e) \in Nat /\ Len(t) \in Nat
  BY ConcatProperties, LenProperties
<1>2. Reads(s, 0, e)
  <2>1. Reads(e, 0, e)
    BY <1>1 DEF Reads
  <2> QED
    BY <2>1, ReadsLonger
<1>3. EndsWith(s, Len(e), t)
  BY <1>1, ReadsConcat DEF EndsWith
<1> HIDE DEF s
<1>4. Remaining(s, id)[0 + 1]
          = LeftOf(e, id) \o Remaining(s, id)[0 + Len(e) + 1]
  <2>1. ASSUME NEW a, Reads(s, a, e)
        PROVE  Remaining(s, id)[a + 1]
                   = LeftOf(e, id) \o Remaining(s, id)[a + Len(e) + 1]
    BY <1>1, <2>1, StripReads
  <2> QED
    BY <1>2, <2>1
<1>5. Remaining(s, id)[Len(e) + 1] = Remaining(t, id)[1]
  <2>1. 1 \in 1 .. Len(t) + 2
    BY <1>1
  <2> QED
    BY <1>3, <2>1, RemainingAhead
<1>6. 0 + 1 = 1 /\ 0 + Len(e) + 1 = Len(e) + 1
  BY <1>1
<1> QED
  BY <1>4, <1>5, <1>6 DEF HcsStripAllSd, s

(* An element that is not of this ID is left at its place ...               *)
LEMMA StripKeeps ==
    ASSUME NEW e \in Seq(Token), NEW t \in Seq(Token), NEW id,
           Strippable(e, id), LeftOf(e, id) = e
    PROVE  HcsStripAllSd(e \o t, id) = e \o HcsStripAllSd(t, id)
<1>1. HcsStripAllSd(e \o t, id) = LeftOf(e, id) \o HcsStripAllSd(t, id)
  BY StripConcat, Zenon
<1> QED
  BY <1>1, Zenon

(* ... and one that is of it leaves nothing.                                 *)
LEMMA StripTakes ==
    ASSUME NEW e \in Seq(Token), NEW t \in Seq(Token), NEW id,
           Strippable(e, id), LeftOf(e, id) = << >>
    PROVE  HcsStripAllSd(e \o t, id) = HcsStripAllSd(t, id)
<1>1. HcsStripAllSd(e \o t, id) = LeftOf(e, id) \o HcsStripAllSd(t, id)
  BY StripConcat, Zenon
<1>2. HcsStripAllSd(e \o t, id) = << >> \o HcsStripAllSd(t, id)
  BY <1>1, Zenon
<1>3. HcsStripAllSd(t, id) \in Seq(Token)
  BY StripType
<1> QED
  BY <1>2, <1>3, ConcatEmptySeq

(* Stripping makes no text longer, and one with a prefix of the ID shorter.  *)
LEMMA StripLength ==
    ASSUME NEW T, NEW s \in Seq(T), NEW id
    PROVE  /\ Len(HcsStripAllSd(s, id)) <= Len(s)
           /\ Occurs(s, id) => Len(HcsStripAllSd(s, id)) < Len(s)
<1> DEFINE n == Len(s)
           r == Remaining(s, id)
           From(k) == \E i \in k .. n : At(s, id, i)
           S == {k \in 1 .. n + 2 : k <= n + 1 =>
                    /\ Len(r[k]) <= n + 1 - k
                    /\ From(k) => Len(r[k]) < n + 1 - k}
<1>0. n \in Nat /\ DOMAIN s = 1 .. n
  BY LenProperties
<1>1. \A k \in 1 .. n + 2 : r[k] \in Seq(T) /\ Len(r[k]) \in Nat
  <2>1. \A k \in 1 .. n + 2 : r[k] \in Seq(T)
    BY RemainingType
  <2> HIDE DEF r
  <2> QED
    BY <2>1, LenProperties
<1>2. n + 2 \in S
  BY <1>0
<1>3. ASSUME NEW k \in 1 .. n + 1, \A j \in k + 1 .. n + 2 : j \in S
      PROVE  k \in S
  <2>1. CASE k > n
    <3>1. k \in 1 .. n + 2 /\ k = n + 1 /\ ~From(k)
      BY <1>0, <2>1
    <3>2. r[k] = << >>
      BY <1>0, <2>1, <3>1, RemainingEnds
    <3>3. Len(r[k]) = 0
      BY <3>2
    <3> HIDE DEF r, From
    <3> QED
      BY <1>0, <3>1, <3>3
  <2>2. CASE k <= n /\ At(s, id, k)
    <3> DEFINE u == SdScanElement(s)[k + 2]
    <3>1. u \in k + 3 .. n + 2 /\ k \in 1 .. n /\ k + 1 <= n
      <4>1. k \in Nat \ {0} /\ k \in 1 .. n
        BY <1>0, <2>2
      <4>2. k + 1 <= n
        BY <1>0, <2>2, <4>1 DEF At
      <4> QED
        BY <1>0, <2>2, <4>1, <4>2, PrefixScan
    <3>2. r[k] = r[u]
      BY <1>0, <2>2, <3>1, RemainingSkips
    <3> HIDE DEF u
    <3>3. u \in k + 1 .. n + 2 /\ u \in 1 .. n + 2 /\ u \in S
      <4>1. u \in k + 1 .. n + 2 /\ u \in 1 .. n + 2
        BY <1>0, <3>1
      <4> HIDE DEF S
      <4> QED
        BY <1>3, <4>1
    <3>4. Len(r[u]) < n + 1 - k
      <4>1. CASE u <= n + 1
        <5>1. Len(r[u]) <= n + 1 - u
          BY <3>3, <4>1
        <5> HIDE DEF r
        <5> QED
          BY <1>0, <1>1, <3>1, <3>3, <5>1
      <4>2. CASE u = n + 2
        <5>1. r[u] = << >>
          BY <1>0, <3>3, <4>2, RemainingEnds
        <5>2. Len(r[u]) = 0
          BY <5>1
        <5> HIDE DEF r
        <5> QED
          BY <1>0, <3>1, <5>2
      <4> QED
        BY <1>0, <3>1, <4>1, <4>2
    <3> HIDE DEF r, From
    <3> QED
      BY <1>0, <1>1, <3>1, <3>2, <3>3, <3>4
  <2>3. CASE k <= n /\ ~At(s, id, k)
    <3>1. k \in 1 .. n /\ k + 1 \in k + 1 .. n + 2 /\ k + 1 \in 1 .. n + 2
          /\ k + 1 <= n + 1 /\ k \in 1 .. n + 2
      BY <1>0, <2>3
    <3>2. r[k] = <<s[k]>> \o r[k + 1]
      BY <1>0, <2>3, <3>1, RemainingKeeps
    <3>3. k + 1 \in S
      <4> HIDE DEF S
      <4> QED
        BY <1>3, <3>1
    <3>4. From(k) => From(k + 1)
      <4> SUFFICES ASSUME NEW i \in k .. n, At(s, id, i) PROVE i \in k + 1 .. n
        OBVIOUS
      <4>1. i # k
        BY <2>3
      <4> QED
        BY <1>0, <3>1, <4>1
    <3>5. Len(r[k]) = 1 + Len(r[k + 1])
      <4>1. s[k] \in T /\ r[k + 1] \in Seq(T)
        BY <1>1, <3>1, ElementOfSeq
      <4> HIDE DEF r
      <4>2. <<s[k]>> \in Seq(T) /\ Len(<<s[k]>>) = 1
        BY <4>1
      <4> QED
        BY <3>2, <4>1, <4>2, ConcatProperties
    <3>6. /\ Len(r[k + 1]) <= n + 1 - (k + 1)
          /\ From(k + 1) => Len(r[k + 1]) < n + 1 - (k + 1)
      BY <3>1, <3>3
    <3> HIDE DEF r, From
    <3>7. Len(r[k]) <= n + 1 - k
      BY <1>0, <1>1, <3>1, <3>5, <3>6
    <3>8. From(k) => Len(r[k]) < n + 1 - k
      BY <1>0, <1>1, <3>1, <3>4, <3>5, <3>6
    <3> QED
      BY <3>1, <3>7, <3>8
  <2> QED
    BY <1>0, <2>1, <2>2, <2>3
<1>4. 1 \in S
  <2>1. 1 \in 1 .. n + 2
    BY <1>0
  <2> HIDE DEF S
  <2> QED
    BY <1>0, <1>2, <1>3, <2>1, Downward
<1>5. Len(r[1]) <= n /\ (From(1) => Len(r[1]) < n)
  <2>1. 1 <= n + 1 /\ n + 1 - 1 = n
    BY <1>0
  <2>2. /\ Len(r[1]) <= n + 1 - 1
        /\ From(1) => Len(r[1]) < n + 1 - 1
    BY <1>4, <2>1
  <2> HIDE DEF r, From
  <2> QED
    BY <2>1, <2>2
<1>6. Occurs(s, id) => From(1)
  BY <1>0 DEF Occurs
<1> QED
  BY <1>5, <1>6 DEF HcsStripAllSd

(*****************************************************************************)
(* The elements a signer writes                                              *)
(*****************************************************************************)

(* SdEscapeParam before it is put together                                   *)
Escaped(value) ==
    [i \in DOMAIN value |->
        IF value[i] \in {Backslash, Quote, "]"} THEN <<Backslash, value[i]>>
                                                ELSE <<value[i]>>]

(* An escaped value is a list of texts of the same tokens.                   *)
LEMMA EscapedType ==
    ASSUME NEW value \in Seq(ValueToken)
    PROVE  /\ Escaped(value) \in Seq(Seq(ValueToken))
           /\ Len(Escaped(value)) = Len(value)
           /\ \A i \in 1 .. Len(value) :
                Escaped(value)[i] =
                  IF value[i] \in {Backslash, Quote, "]"}
                  THEN <<Backslash, value[i]>> ELSE <<value[i]>>
<1> DEFINE Esc(i) == IF value[i] \in {Backslash, Quote, "]"}
                    THEN <<Backslash, value[i]>> ELSE <<value[i]>>
           t == [i \in 1 .. Len(value) |-> Esc(i)]
<1>1. Len(value) \in Nat /\ DOMAIN value = 1 .. Len(value)
  BY LenProperties
<1>2. ASSUME NEW i \in 1 .. Len(value) PROVE Esc(i) \in Seq(ValueToken)
  <2>1. value[i] \in ValueToken /\ Backslash \in ValueToken
    BY ElementOfSeq DEF ValueToken
  <2> HIDE DEF ValueToken
  <2>2. <<Backslash, value[i]>> \in Seq(ValueToken) /\ <<value[i]>> \in Seq(ValueToken)
    BY <2>1
  <2> QED
    BY <2>2
<1>3. t \in Seq(Seq(ValueToken)) /\ Len(t) = Len(value)
  <2>1. t \in [1 .. Len(value) -> Seq(ValueToken)]
    BY <1>2
  <2> HIDE DEF t
  <2> QED
    BY <1>1, <2>1
<1>4. Escaped(value) = t
  BY <1>1 DEF Escaped
<1> QED
  BY <1>3, <1>4

(* Two texts around a third, token by token                                  *)
LEMMA HeaderTokens ==
    ASSUME NEW T, NEW u \in T, NEW v \in T, NEW w \in T, NEW x \in T,
           NEW E \in Seq(T)
    PROVE  LET H == <<u, v>> \o <<w>> \o E \o <<w, x>>
           IN  /\ H \in Seq(T) /\ Len(H) = Len(E) + 5
               /\ H[1] = u /\ H[2] = v /\ H[3] = w
               /\ \A i \in 1 .. Len(E) : H[3 + i] = E[i]
               /\ H[Len(E) + 4] = w /\ H[Len(E) + 5] = x
<1> DEFINE m == Len(E)
           A == <<u, v>> \o <<w>>
           B == A \o E
           C == <<w, x>>
           H == B \o C
<1>1. A \in Seq(T) /\ C \in Seq(T) /\ Len(A) = 3 /\ Len(C) = 2
      /\ A[1] = u /\ A[2] = v /\ A[3] = w /\ C[1] = w /\ C[2] = x /\ m \in Nat
  OBVIOUS
<1> HIDE DEF A, C
<1>2. /\ B \in Seq(T) /\ Len(B) = 3 + m
      /\ \A i \in 1 .. 3 + m : B[i] = IF i <= 3 THEN A[i] ELSE E[i - 3]
  <2>1. /\ B \in Seq(T) /\ Len(B) = Len(A) + Len(E)
        /\ \A i \in 1 .. Len(A) + Len(E) :
               B[i] = IF i <= Len(A) THEN A[i] ELSE E[i - Len(A)]
    BY <1>1, ConcatProperties
  <2> HIDE DEF B
  <2> QED
    BY <1>1, <2>1
<1> HIDE DEF B
<1>3. /\ H \in Seq(T) /\ Len(H) = (3 + m) + 2
      /\ \A i \in 1 .. (3 + m) + 2 :
             H[i] = IF i <= 3 + m THEN B[i] ELSE C[i - (3 + m)]
  <2>1. /\ H \in Seq(T) /\ Len(H) = Len(B) + Len(C)
        /\ \A i \in 1 .. Len(B) + Len(C) :
               H[i] = IF i <= Len(B) THEN B[i] ELSE C[i - Len(B)]
    BY <1>1, <1>2, ConcatProperties
  <2> HIDE DEF H
  <2> QED
    BY <1>1, <1>2, <2>1
<1> HIDE DEF H, m
<1>4. Len(H) = m + 5
  BY <1>1, <1>3
<1>5. H[1] = u /\ H[2] = v /\ H[3] = w
  BY <1>1, <1>2, <1>3
<1>6. \A i \in 1 .. m : H[3 + i] = E[i]
  <2> SUFFICES ASSUME NEW i \in 1 .. m PROVE H[3 + i] = E[i]
    OBVIOUS
  <2>1. 3 + i \in 1 .. (3 + m) + 2 /\ 3 + i \in 1 .. 3 + m /\ 3 + i <= 3 + m
        /\ ~(3 + i <= 3) /\ (3 + i) - 3 = i
    BY <1>1
  <2> QED
    BY <1>2, <1>3, <2>1
<1>7. H[m + 4] = w /\ H[m + 5] = x
  <2>1. /\ m + 4 \in 1 .. (3 + m) + 2 /\ ~(m + 4 <= 3 + m) /\ (m + 4) - (3 + m) = 1
        /\ m + 5 \in 1 .. (3 + m) + 2 /\ ~(m + 5 <= 3 + m) /\ (m + 5) - (3 + m) = 2
    BY <1>1
  <2> QED
    BY <1>1, <1>3, <2>1
<1> QED
  BY <1>3, <1>4, <1>5, <1>6, <1>7 DEF H, m, B, A, C

(* The prefixes, and that their second tokens and the others a signer writes *)
(* are different strings ...                                                 *)
LEMMA TokensDiffer ==
    /\ Self[1] = Open /\ Hdr[1] = Open /\ Cert[1] = Open
    /\ Self[2] # Hdr[2] /\ Self[2] # Cert[2] /\ Hdr[2] # Cert[2]
    /\ Open # Self[2] /\ Open # Hdr[2] /\ Open # Cert[2]
    /\ "sd" # Open /\ "]" # Open /\ "cert=" # Open /\ "b64" # Open
    /\ Quote # Open /\ "NL" # Open
<1>1. /\ Self[1] = Open /\ Self[2] = "@32473 " /\ Hdr[1] = Open
      /\ Hdr[2] = "-hdr@32473 " /\ Cert[1] = Open /\ Cert[2] = "-cert@32473 "
  BY DEF Self, Hdr, Cert
<1> QED
  BY <1>1, Zenon DEF Open, Quote

(* ... that they are tokens ...                                              *)
LEMMA TokensTyped ==
    /\ Open \in Token /\ Self[2] \in Token /\ Hdr[2] \in Token
    /\ Cert[2] \in Token /\ "sd" \in Token /\ "]" \in Token /\ "NL" \in Token
    /\ "cert=" \in Token /\ "b64" \in Token /\ Quote \in Token
    /\ ValueToken \cup {Open, Hdr[2]} \subseteq Token
<1>1. /\ Self[2] = "@32473 " /\ Hdr[2] = "-hdr@32473 " /\ Cert[2] = "-cert@32473 "
  BY DEF Self, Hdr, Cert
<1>2. /\ Open \in Token /\ Self[2] \in Token /\ Hdr[2] \in Token
      /\ Cert[2] \in Token /\ "sd" \in Token /\ "]" \in Token /\ "NL" \in Token
      /\ "cert=" \in Token /\ "b64" \in Token /\ Quote \in Token
  BY <1>1, Zenon DEF Token
<1>3. ASSUME NEW v \in ValueToken PROVE v \in Token
  BY Zenon DEF Token, ValueToken
<1> QED
  BY <1>2, <1>3

(* ... and that a header value has none of those that end a prefix.          *)
LEMMA ValueTokens ==
    /\ \A v \in ValueToken : /\ v # Self[2] /\ v # Hdr[2] /\ v # Cert[2]
                             /\ v # "NL" /\ v # "CR"
    /\ Quote \in ValueToken /\ "]" \in ValueToken /\ Open \in ValueToken
<1>1. /\ Self[2] = "@32473 " /\ Hdr[2] = "-hdr@32473 " /\ Cert[2] = "-cert@32473 "
  BY DEF Self, Hdr, Cert
<1>2. ASSUME NEW v \in ValueToken
      PROVE  /\ v # Self[2] /\ v # Hdr[2] /\ v # Cert[2] /\ v # "NL" /\ v # "CR"
  BY <1>1, Zenon DEF ValueToken, Open, Quote, Backslash
<1>3. Quote \in ValueToken /\ "]" \in ValueToken /\ Open \in ValueToken
  BY DEF ValueToken
<1> QED
  BY <1>2, <1>3

(* The header element is whole: the quotes and brackets of its value are     *)
(* escaped, so its scan ends at its own last bracket (hcs_format_sd_hdr).    *)
LEMMA HeaderShape ==
    ASSUME NEW value \in Seq(ValueToken)
    PROVE  LET H == HcsFormatSdHdr(value)
           IN  /\ H \in Seq(ValueToken \cup {Open, Hdr[2]})
               /\ Len(H) >= 5 /\ H[1] = Open /\ H[2] = Hdr[2]
               /\ H[Len(H)] = "]"
               /\ \A i \in 3 .. Len(H) : H[i] \in ValueToken
               /\ SdScanElement(H)[3] = Len(H) + 1
<1> DEFINE H == HcsFormatSdHdr(value)
           esc == Escaped(value)
           f == Joined(esc)
           n == Len(value)
           E == f[n]
           m == Len(E)
           V == ValueToken
           U == V \cup {Open, Hdr[2]}
<1>1. /\ esc \in Seq(Seq(V)) /\ Len(esc) = n /\ n \in Nat
      /\ \A i \in 1 .. n : /\ value[i] \in V /\ esc[i] \in Seq(V)
                           /\ esc[i] = IF value[i] \in {Backslash, Quote, "]"}
                                THEN <<Backslash, value[i]>> ELSE <<value[i]>>
  <2>1. n \in Nat
    BY LenProperties
  <2>2. \A i \in 1 .. n : value[i] \in V
    BY ElementOfSeq
  <2>3. /\ esc \in Seq(Seq(V)) /\ Len(esc) = n
        /\ \A i \in 1 .. n : esc[i] = IF value[i] \in {Backslash, Quote, "]"}
                                THEN <<Backslash, value[i]>> ELSE <<value[i]>>
    BY EscapedType
  <2> HIDE DEF esc, V, n
  <2>4. \A i \in 1 .. n : esc[i] \in Seq(V)
    BY <2>1, <2>3, ElementOfSeq
  <2> QED
    BY <2>1, <2>2, <2>3, <2>4
<1>2. SdEscapeParam(value) = FlattenSeq(esc)
  BY DEF SdEscapeParam, Escaped
<1>3. FlattenSeq(esc) = E
  BY <1>1, FlattenIsJoined
<1>4. H = <<Open, Hdr[2]>> \o <<Quote>> \o E \o <<Quote, "]">>
  <2>1. Hdr = <<Open, Hdr[2]>>
    BY DEF Hdr
  <2> QED
    BY <1>2, <1>3, <2>1 DEF HcsFormatSdHdr
<1> HIDE DEF esc, H, n
<1>5. /\ f[0] = << >> /\ \A i \in 1 .. n : f[i] = f[i - 1] \o esc[i]
      /\ \A i \in 0 .. n : f[i] \in Seq(V)
      /\ \A i \in 1 .. n : Reads(E, Len(f[i - 1]), esc[i])
  <2>1. f[0] = << >> /\ \A i \in 1 .. n : f[i] = f[i - 1] \o esc[i]
    BY <1>1, JoinedStep
  <2>2. \A i \in 0 .. n : f[i] \in Seq(V)
    BY <1>1, JoinedType
  <2>3. \A i \in 1 .. n : Reads(E, Len(f[i - 1]), esc[i])
    BY <1>1, JoinedReads
  <2> HIDE DEF f, V
  <2> QED
    BY <2>1, <2>2, <2>3
<1> HIDE DEF f
<1>6. E \in Seq(V) /\ E \in Seq(U) /\ m \in Nat
  <2>1. E \in Seq(V)
    BY <1>1, <1>5
  <2>2. E \in Seq(U)
    BY <2>1, SeqMonotonic
  <2> QED
    BY <2>1, <2>2, LenProperties
<1>7. /\ H \in Seq(U) /\ Len(H) = m + 5
      /\ H[1] = Open /\ H[2] = Hdr[2] /\ H[3] = Quote
      /\ \A i \in 1 .. m : H[3 + i] = E[i]
      /\ H[m + 4] = Quote /\ H[m + 5] = "]"
  <2>1. Open \in U /\ Hdr[2] \in U /\ Quote \in U /\ "]" \in U
    BY DEF ValueToken
  <2> HIDE DEF U, E
  <2> QED
    BY <1>4, <1>6, <2>1, HeaderTokens, SMTT(60)
<1>8. \A i \in 3 .. Len(H) : H[i] \in V
  <2> SUFFICES ASSUME NEW i \in 3 .. m + 5 PROVE H[i] \in V
    BY <1>7
  <2>1. Quote \in V /\ "]" \in V
    BY DEF ValueToken
  <2>2. CASE i \in 4 .. m + 3
    <3>1. i - 3 \in 1 .. m /\ 3 + (i - 3) = i
      BY <1>6, <2>2
    <3>2. E[i - 3] \in V
      BY <1>6, <3>1, ElementOfSeq
    <3> QED
      BY <1>7, <3>1, <3>2
  <2>3. CASE i = 3 \/ i = m + 4 \/ i = m + 5
    BY <1>7, <2>1, <2>3
  <2>4. i = 3 \/ i \in 4 .. m + 3 \/ i = m + 4 \/ i = m + 5
    BY <1>6
  <2> QED
    BY <2>2, <2>3, <2>4
<1> DEFINE v == ValueEnd(H)
           S == {k \in 0 .. n : v[4] = v[4 + Len(f[k])]}
<1>9. 0 \in S
  <2>1. 4 + Len(f[0]) = 4 /\ 0 \in 0 .. n
    BY <1>1, <1>5
  <2> HIDE DEF v
  <2> QED
    BY <2>1
<1>10. ASSUME NEW k \in 0 .. n - 1, k \in S PROVE k + 1 \in S
  <2> DEFINE a == Len(f[k])
             e == esc[k + 1]
             c == 4 + a
             y == value[k + 1]
  <2>1. k + 1 \in 1 .. n /\ (k + 1) - 1 = k /\ k \in 0 .. n /\ k + 1 \in 0 .. n
    BY <1>1
  <2>2. /\ y \in V /\ e \in Seq(V)
        /\ e = IF y \in {Backslash, Quote, "]"} THEN <<Backslash, y>> ELSE <<y>>
        /\ f[k + 1] = f[k] \o e /\ f[k] \in Seq(V) /\ Reads(E, a, e)
    BY <1>1, <1>5, <2>1
  <2>3. Len(f[k + 1]) = a + Len(e) /\ a \in Nat /\ Len(e) \in Nat
    BY <2>2, ConcatProperties, LenProperties
  <2>4. a + Len(e) <= m /\ \A i \in 1 .. Len(e) : E[a + i] = e[i]
    BY <2>2 DEF Reads
  <2>5. v[4] = v[c]
    BY <1>10
  <2> HIDE DEF e, a, y
  <2>6. (y \in {Backslash, Quote, "]"} => Len(e) = 2 /\ e[1] = Backslash)
        /\ (y \notin {Backslash, Quote, "]"} => Len(e) = 1 /\ e[1] = y)
    BY <2>2
  <2>7. Len(e) >= 1
    BY <2>6
  <2>8. c \in 1 .. Len(H) + 2 /\ c <= Len(H) /\ Len(H) \in Nat /\ H[c] = e[1]
    <3>1. a + 1 \in 1 .. m /\ 3 + (a + 1) = c /\ 1 \in 1 .. Len(e)
      BY <1>6, <2>3, <2>4, <2>7
    <3>2. H[c] = E[a + 1] /\ E[a + 1] = e[1]
      BY <1>7, <2>4, <3>1
    <3>3. Len(H) = m + 5 /\ m \in Nat
      BY <1>6, <1>7
    <3> HIDE DEF c, m, E
    <3> QED
      BY <3>1, <3>2, <3>3
  <2> HIDE DEF c
  <2>9. /\ H[c] = Backslash => v[c] = v[c + 2]
        /\ H[c] # Quote /\ H[c] # Backslash => v[c] = v[c + 1]
    BY <2>8, ValueEndStep
  <2>10. v[c] = v[c + Len(e)]
    BY <2>6, <2>8, <2>9
  <2>11. c + Len(e) = 4 + Len(f[k + 1])
    BY <2>3 DEF c
  <2> HIDE DEF v
  <2> QED
    BY <2>1, <2>5, <2>10, <2>11
<1>11. n \in S
  <2>1. n \in 0 .. n /\ 0 \in Nat /\ n \in Nat
    BY <1>1
  <2> HIDE DEF S
  <2>2. \A i \in 0 .. n : i \in S
    BY <1>9, <1>10, <2>1, Upward
  <2> QED
    BY <2>1, <2>2
<1>12. v[4] = m + 4
  <2>1. v[4] = v[4 + m]
    BY <1>11
  <2>2. m + 4 \in 1 .. Len(H) + 2 /\ m + 4 <= Len(H) /\ Len(H) \in Nat
        /\ 4 + m = m + 4
    BY <1>6, <1>7
  <2>3. v[m + 4] = m + 4
    BY <1>7, <2>2, ValueEndStep
  <2> HIDE DEF v, m
  <2> QED
    BY <2>1, <2>2, <2>3
<1>13. SdScanElement(H)[3] = Len(H) + 1
  <2>1. /\ 3 \in 1 .. Len(H) + 2 /\ 3 <= Len(H) /\ Len(H) \in Nat
        /\ m + 5 \in 1 .. Len(H) + 2 /\ m + 5 <= Len(H)
        /\ (m + 4) + 1 = m + 5 /\ (m + 5) + 1 = Len(H) + 1
    BY <1>6, <1>7
  <2>2. SdScanElement(H)[3] = SdScanElement(H)[v[3 + 1] + 1]
    BY <1>7, <2>1, ScanStep
  <2>3. SdScanElement(H)[m + 5] = (m + 5) + 1
    BY <1>7, <2>1, ScanStep
  <2>4. v[3 + 1] + 1 = m + 5
    BY <1>12, <2>1
  <2> HIDE DEF v, m
  <2> QED
    BY <2>1, <2>2, <2>3, <2>4
<1>14. Len(H) >= 5 /\ H[Len(H)] = "]"
  BY <1>6, <1>7
<1> QED
  BY <1>7, <1>8, <1>13, <1>14 DEF H

(* The element with the chain hash, and the certificate element if it was    *)
(* added                                                                     *)
OurElement == Self \o <<"sd", "]">>

CertElement(certified) == IF certified THEN HcsFormatSdCert ELSE << >>

(* What a signer strips                                                      *)
Ours == {Self, Hdr}

(* Nothing is taken from an empty text.                                      *)
LEMMA EmptyStrips ==
    ASSUME NEW id
    PROVE  Strippable(<< >>, id) /\ LeftOf(<< >>, id) = << >>
<1>1. Len(<< >>) = 0
  OBVIOUS
<1>2. ~At(<< >>, id, 1) /\ \A i \in 2 .. 0 : FALSE
  BY <1>1 DEF At
<1> QED
  BY <1>1, <1>2 DEF Strippable, LeftOf

(* The certificate element, token by token                                   *)
LEMMA CertTokens ==
    LET e == HcsFormatSdCert
    IN  /\ e \in Seq(Token) /\ Len(e) = 7
        /\ e[1] = Open /\ e[2] = Cert[2] /\ e[3] = "cert=" /\ e[4] = Quote
        /\ e[5] = "b64" /\ e[6] = Quote /\ e[7] = "]"
<1>1. \A a, b, c, d, f, g \in Token :
          LET e == <<a, b>> \o <<c, d, f, d, g>>
          IN  /\ e \in Seq(Token) /\ Len(e) = 7 /\ e[1] = a /\ e[2] = b
              /\ e[3] = c /\ e[4] = d /\ e[5] = f /\ e[6] = d /\ e[7] = g
  OBVIOUS
<1>2. Cert = <<Open, Cert[2]>>
  BY DEF Cert
<1>3. HcsFormatSdCert = <<Open, Cert[2]>> \o <<"cert=", Quote, "b64", Quote, "]">>
  BY <1>2 DEF HcsFormatSdCert
<1> QED
  BY <1>1, <1>3, TokensTyped

(* Neither pass takes the certificate element.                               *)
LEMMA CertStrips ==
    ASSUME NEW certified \in BOOLEAN, NEW id \in Ours
    PROVE  /\ CertElement(certified) \in Seq(Token)
           /\ Strippable(CertElement(certified), id)
           /\ LeftOf(CertElement(certified), id) = CertElement(certified)
<1> DEFINE e == HcsFormatSdCert
<1>1. /\ e \in Seq(Token) /\ Len(e) = 7
      /\ e[1] = Open /\ e[2] = Cert[2] /\ e[3] = "cert=" /\ e[4] = Quote
      /\ e[5] = "b64" /\ e[6] = Quote /\ e[7] = "]"
  BY CertTokens
<1> HIDE DEF e
<1>2. id[1] = Open /\ id[2] # Cert[2]
  BY TokensDiffer DEF Ours
<1>3. ~At(e, id, 1)
  <2>1. 1 + 1 = 2
    OBVIOUS
  <2> QED
    BY <1>1, <1>2, <2>1 DEF At
<1>4. ASSUME NEW i \in 2 .. Len(e) PROVE ~At(e, id, i)
  <2>1. i = 2 \/ i = 3 \/ i = 4 \/ i = 5 \/ i = 6 \/ i = 7
    BY <1>1
  <2>2. e[i] # Open
    BY <1>1, <2>1, TokensDiffer
  <2> QED
    BY <1>2, <2>2 DEF At
<1>5. e[Len(e)] # id[1]
  BY <1>1, <1>2, TokensDiffer
<1>6. Strippable(e, id) /\ LeftOf(e, id) = e
  BY <1>3, <1>4, <1>5 DEF Strippable, LeftOf
<1>7. << >> \in Seq(Token)
  BY EmptySeq
<1> QED
  BY <1>1, <1>6, <1>7, EmptyStrips DEF CertElement, e

(* The chain element is whole.                                               *)
LEMMA OurElementStrips ==
    /\ OurElement \in Seq(Token) /\ Len(OurElement) = 4
    /\ OurElement[1] = Open /\ OurElement[2] = Self[2]
    /\ OurElement[3] = "sd" /\ OurElement[4] = "]"
    /\ Strippable(OurElement, Self) /\ LeftOf(OurElement, Self) = << >>
<1> DEFINE e == OurElement
<1>1. /\ e \in Seq(Token) /\ Len(e) = 4 /\ e[1] = Open /\ e[2] = Self[2]
      /\ e[3] = "sd" /\ e[4] = "]" /\ e # << >>
  <2>1. \A a, b, c, d \in Token :
            LET w == <<a, b>> \o <<c, d>>
            IN  /\ w \in Seq(Token) /\ Len(w) = 4 /\ w[1] = a /\ w[2] = b
                /\ w[3] = c /\ w[4] = d /\ w # << >>
    OBVIOUS
  <2>2. Self = <<Open, Self[2]>>
    BY DEF Self
  <2>3. e = <<Open, Self[2]>> \o <<"sd", "]">>
    BY <2>2 DEF OurElement
  <2> QED
    BY <2>1, <2>3, TokensTyped
<1> HIDE DEF e
<1>2. SdScanElement(e)[3] = SdScanElement(e)[3 + 1]
  <2>1. 3 \in 1 .. Len(e) + 2 /\ 3 <= Len(e) /\ Len(e) \in Nat
        /\ e[3] # Quote /\ e[3] # "]"
    BY <1>1 DEF Quote
  <2> QED
    BY <2>1, ScanStep
<1>3. SdScanElement(e)[4] = 4 + 1
  <2>1. 4 \in 1 .. Len(e) + 2 /\ 4 <= Len(e) /\ Len(e) \in Nat /\ e[4] = "]"
    BY <1>1
  <2> QED
    BY <2>1, ScanStep
<1>4. SdScanElement(e)[3] = Len(e) + 1
  BY <1>1, <1>2, <1>3
<1>5. \A i \in 2 .. Len(e) : ~At(e, Self, i)
  <2> SUFFICES ASSUME NEW i \in 2 .. Len(e) PROVE e[i] # Self[1]
    BY DEF At
  <2>1. i = 2 \/ i = 3 \/ i = 4
    BY <1>1
  <2> QED
    BY <1>1, <2>1, TokensDiffer
<1>6. e[Len(e)] # Self[1]
  BY <1>1, TokensDiffer
<1>7. Strippable(e, Self)
  BY <1>4, <1>5, <1>6 DEF Strippable
<1>8. LeftOf(e, Self) = << >>
  <2>1. At(e, Self, 1)
    <3>1. 1 < Len(e) /\ 1 + 1 = 2
      BY <1>1
    <3> QED
      BY <1>1, <3>1, TokensDiffer DEF At
  <2> QED
    BY <2>1 DEF LeftOf
<1> QED
  BY <1>1, <1>7, <1>8 DEF e

(* The pass for our element keeps the header element, the pass for header    *)
(* elements takes it.                                                        *)
LEMMA HeaderStrips ==
    ASSUME NEW value \in Seq(ValueToken)
    PROVE  LET H == HcsFormatSdHdr(value)
           IN  /\ H \in Seq(Token) /\ Strippable(H, Self) /\ LeftOf(H, Self) = H
               /\ Strippable(H, Hdr) /\ LeftOf(H, Hdr) = << >>
<1> DEFINE H == HcsFormatSdHdr(value)
           U == ValueToken \cup {Open, Hdr[2]}
<1>1. /\ H \in Seq(U) /\ Len(H) >= 5 /\ H[1] = Open /\ H[2] = Hdr[2]
      /\ H[Len(H)] = "]" /\ \A i \in 3 .. Len(H) : H[i] \in ValueToken
      /\ SdScanElement(H)[3] = Len(H) + 1
  BY HeaderShape
<1> HIDE DEF H
<1>2. Len(H) \in Nat
  BY <1>1, LenProperties
<1>3. H \in Seq(Token)
  <2>1. U \subseteq Token
    BY TokensTyped
  <2> HIDE DEF U
  <2> QED
    BY <1>1, <2>1, SeqMonotonic
<1>4. ASSUME NEW id \in Ours, NEW i \in 2 .. Len(H) PROVE ~At(H, id, i)
  <2> SUFFICES ASSUME i < Len(H), H[i + 1] = id[2] PROVE FALSE
    BY DEF At
  <2>1. i + 1 \in 3 .. Len(H)
    BY <1>2
  <2>2. H[i + 1] \in ValueToken
    BY <1>1, <2>1
  <2>3. id[2] \notin ValueToken
    BY ValueTokens DEF Ours
  <2> QED
    BY <2>2, <2>3
<1>5. ASSUME NEW id \in Ours PROVE H[Len(H)] # id[1]
  BY <1>1, TokensDiffer DEF Ours
<1>6. At(H, Hdr, 1) /\ ~At(H, Self, 1)
  <2>1. 1 < Len(H) /\ 1 + 1 = 2
    BY <1>1, <1>2
  <2> QED
    BY <1>1, <2>1, TokensDiffer DEF At
<1>7. Self \in Ours /\ Hdr \in Ours
  BY DEF Ours
<1>8. Strippable(H, Self) /\ LeftOf(H, Self) = H
  BY <1>4, <1>5, <1>6, <1>7 DEF Strippable, LeftOf
<1>9. Strippable(H, Hdr) /\ LeftOf(H, Hdr) = << >>
  BY <1>1, <1>4, <1>5, <1>6, <1>7 DEF Strippable, LeftOf
<1> QED
  BY <1>3, <1>8, <1>9 DEF H

(* What doAction keeps of a text is a text, and no longer one.               *)
LEMMA KeptType ==
    ASSUME NEW T, NEW K \in Seq(T)
    PROVE  StripClientSD(K) \in Seq(T) /\ Len(StripClientSD(K)) <= Len(K)
<1> DEFINE k == HcsStripAllSd(K, Self)
<1>1. k \in Seq(T) /\ Len(k) <= Len(K)
  BY StripType, StripLength
<1> HIDE DEF k
<1>2. HcsStripAllSd(k, Hdr) \in Seq(T) /\ Len(HcsStripAllSd(k, Hdr)) <= Len(k)
  BY <1>1, StripType, StripLength
<1>3. Len(K) \in Nat /\ Len(k) \in Nat /\ Len(HcsStripAllSd(k, Hdr)) \in Nat
  BY <1>1, <1>2, LenProperties
<1> QED
  BY <1>1, <1>2, <1>3 DEF StripClientSD, k

(* It is the same text exactly if no prefix of ours is in it.                *)
LEMMA KeptWhole ==
    ASSUME NEW T, NEW K \in Seq(T)
    PROVE  StripClientSD(K) = K <=> ~HoldsOurs(K)
<1> DEFINE k == HcsStripAllSd(K, Self)
<1>1. k \in Seq(T) /\ Len(k) <= Len(K) /\ (Occurs(K, Self) => Len(k) < Len(K))
  BY StripType, StripLength
<1>2. ~Occurs(K, Self) => k = K
  BY StripNothing
<1> HIDE DEF k
<1> DEFINE m == HcsStripAllSd(k, Hdr)
<1>3. m \in Seq(T) /\ Len(m) <= Len(k) /\ (Occurs(k, Hdr) => Len(m) < Len(k))
  BY <1>1, StripType, StripLength
<1>4. ~Occurs(k, Hdr) => m = k
  BY <1>1, StripNothing
<1> HIDE DEF m
<1>5. Len(K) \in Nat /\ Len(k) \in Nat /\ Len(m) \in Nat
  BY <1>1, <1>3, LenProperties
<1>6. m = K <=> ~HoldsOurs(K)
  <2>1. CASE Occurs(K, Self)
    <3>1. Len(m) # Len(K)
      BY <1>1, <1>3, <1>5, <2>1
    <3> QED
      BY <2>1, <3>1 DEF HoldsOurs
  <2>2. CASE ~Occurs(K, Self) /\ Occurs(K, Hdr)
    <3>1. Len(m) # Len(K)
      BY <1>2, <1>3, <1>5, <2>2
    <3> QED
      BY <2>2, <3>1 DEF HoldsOurs
  <2>3. CASE ~Occurs(K, Self) /\ ~Occurs(K, Hdr)
    BY <1>2, <1>4, <2>3 DEF HoldsOurs
  <2> QED
    BY <2>1, <2>2, <2>3
<1> QED
  BY <1>6 DEF StripClientSD, m, k

(* An element that both passes leave is left, whatever comes after it.       *)
LEMMA KeptConcat ==
    ASSUME NEW certified \in BOOLEAN, NEW K \in Seq(Token)
    PROVE  StripClientSD(CertElement(certified) \o K)
               = CertElement(certified) \o StripClientSD(K)
<1> DEFINE C == CertElement(certified)
           k == HcsStripAllSd(K, Self)
<1>1. Self \in Ours /\ Hdr \in Ours
  BY DEF Ours
<1>2. /\ C \in Seq(Token) /\ Strippable(C, Self) /\ LeftOf(C, Self) = C
      /\ Strippable(C, Hdr) /\ LeftOf(C, Hdr) = C
  BY <1>1, CertStrips
<1> HIDE DEF C
<1>3. HcsStripAllSd(C \o K, Self) = C \o k
  BY <1>2, StripKeeps, ZenonT(60) DEF k
<1>4. k \in Seq(Token)
  BY StripType
<1> HIDE DEF k
<1>5. HcsStripAllSd(C \o k, Hdr) = C \o HcsStripAllSd(k, Hdr)
  BY <1>2, <1>4, StripKeeps, ZenonT(60)
<1> QED
  BY <1>3, <1>5 DEF StripClientSD, C, k

(* What a second signer keeps of the structured data the first one wrote     *)
LEMMA StripSigned ==
    ASSUME NEW value \in Seq(ValueToken), NEW certified \in BOOLEAN,
           NEW K \in Seq(Token)
    PROVE  StripClientSD(OurElement \o CertElement(certified)
                             \o HcsFormatSdHdr(value) \o K)
               = CertElement(certified) \o StripClientSD(K)
<1> DEFINE P == OurElement
           C == CertElement(certified)
           H == HcsFormatSdHdr(value)
           k == HcsStripAllSd(K, Self)
           m == HcsStripAllSd(k, Hdr)
<1>1. /\ P \in Seq(Token) /\ Strippable(P, Self) /\ LeftOf(P, Self) = << >>
      /\ H \in Seq(Token) /\ Strippable(H, Self) /\ LeftOf(H, Self) = H
      /\ Strippable(H, Hdr) /\ LeftOf(H, Hdr) = << >>
  BY OurElementStrips, HeaderStrips
<1>2. Self \in Ours /\ Hdr \in Ours
  BY DEF Ours
<1>3. /\ C \in Seq(Token) /\ Strippable(C, Self) /\ LeftOf(C, Self) = C
      /\ Strippable(C, Hdr) /\ LeftOf(C, Hdr) = C
  BY <1>2, CertStrips
<1> HIDE DEF P, C, H
<1>4. k \in Seq(Token)
  BY StripType
<1> HIDE DEF k, m
<1>seqs. /\ P \in Seq(Token) /\ C \in Seq(Token) /\ H \in Seq(Token)
         /\ K \in Seq(Token) /\ k \in Seq(Token)
  BY <1>1, <1>3, <1>4
<1>type. \A x, y \in Seq(Token) : x \o y \in Seq(Token)
  BY ConcatProperties
<1>assoc. Regroups(Token)
  BY ConcatRegroups
<1>6. P \o C \o H \o K = P \o (C \o (H \o K))
  <2>1. P \o C \in Seq(Token) /\ H \o K \in Seq(Token)
    BY <1>seqs, <1>type, Zenon
  <2>2. ((P \o C) \o H) \o K = (P \o C) \o (H \o K)
    BY <1>1, <1>assoc, <2>1, Zenon DEF Regroups
  <2>3. (P \o C) \o (H \o K) = P \o (C \o (H \o K))
    BY <1>1, <1>3, <1>assoc, <2>1, Zenon DEF Regroups
  <2> QED
    BY <2>2, <2>3
<1>7. HcsStripAllSd(P \o (C \o (H \o K)), Self) = C \o (H \o k)
  <2>1. H \o K \in Seq(Token) /\ C \o (H \o K) \in Seq(Token)
    BY <1>seqs, <1>type, Zenon
  <2>2. HcsStripAllSd(H \o K, Self) = H \o k
    BY <1>1, StripKeeps, ZenonT(60) DEF k
  <2>3. HcsStripAllSd(C \o (H \o K), Self) = C \o HcsStripAllSd(H \o K, Self)
    BY <1>3, <2>1, StripKeeps, ZenonT(60)
  <2>4. HcsStripAllSd(P \o (C \o (H \o K)), Self)
            = HcsStripAllSd(C \o (H \o K), Self)
    BY <1>1, <2>1, StripTakes, ZenonT(60)
  <2> QED
    BY <2>2, <2>3, <2>4, Zenon
<1>8. HcsStripAllSd(C \o (H \o k), Hdr) = C \o m
  <2>1. H \o k \in Seq(Token)
    BY <1>seqs, <1>type, Zenon
  <2>2. HcsStripAllSd(H \o k, Hdr) = m
    BY <1>1, <1>4, StripTakes, ZenonT(60) DEF m
  <2>3. HcsStripAllSd(C \o (H \o k), Hdr) = C \o HcsStripAllSd(H \o k, Hdr)
    BY <1>3, <2>1, StripKeeps, ZenonT(60)
  <2> QED
    BY <2>2, <2>3, Zenon
<1> QED
  BY <1>6, <1>7, <1>8 DEF StripClientSD, P, C, H, k, m

(* No text is a certificate element and then what a signer keeps of itself:  *)
(* a part of it would be one as well, and shorter.                           *)
LEMMA CertNotKept ==
    ASSUME NEW K \in Seq(Token)
    PROVE  HcsFormatSdCert \o StripClientSD(K) # K
<1> DEFINE C == HcsFormatSdCert
           Bad == {t \in Seq(Token) : C \o StripClientSD(t) = t}
           N == {i \in Nat : \E t \in Bad : i = Len(t)}
<1> SUFFICES ASSUME K \in Bad PROVE FALSE
  OBVIOUS
<1>1. C \in Seq(Token) /\ Len(C) = 7
  BY CertTokens
<1>2. ASSUME NEW t \in Bad PROVE \E u \in Bad : Len(u) < Len(t)
  <2> DEFINE u == StripClientSD(t)
  <2>1. t \in Seq(Token) /\ C \o u = t
    OBVIOUS
  <2>2. u \in Seq(Token)
    BY <2>1, KeptType
  <2>3. StripClientSD(C \o u) = C \o StripClientSD(u)
    <3>1. CertElement(TRUE) = C
      BY DEF CertElement
    <3> HIDE DEF C, u
    <3>2. StripClientSD(CertElement(TRUE) \o u) = CertElement(TRUE) \o StripClientSD(u)
      BY <2>2, KeptConcat
    <3> QED
      BY <3>1, <3>2
  <2>4. C \o StripClientSD(u) = u
    BY <2>1, <2>3
  <2>5. Len(t) = 7 + Len(u) /\ Len(u) \in Nat
    <3> HIDE DEF C, u
    <3>1. Len(C \o u) = Len(C) + Len(u)
      BY <1>1, <2>2, ConcatProperties
    <3> QED
      BY <1>1, <2>1, <2>2, <3>1, LenProperties
  <2> HIDE DEF C, u
  <2>6. u \in Bad
    BY <2>2, <2>4, Zenon
  <2>7. Len(u) < Len(t)
    BY <2>5
  <2> QED
    BY <2>6, <2>7, Zenon
<1> HIDE DEF C
<1>3. \A t \in Bad : Len(t) \in Nat
  BY LenProperties
<1> HIDE DEF Bad
<1>4. N \subseteq Nat /\ Len(K) \in N
  BY <1>3
<1>5. PICK n \in N : \A j \in N : n <= j
  <2> HIDE DEF N
  <2> QED
    BY <1>4, LeastExists
<1>6. PICK t \in Bad : n = Len(t)
  BY <1>5
<1>7. PICK u \in Bad : Len(u) < Len(t)
  BY <1>2
<1>8. Len(u) \in N /\ Len(u) \in Nat /\ n \in Nat
  BY <1>3, <1>4, <1>7
<1>9. n <= Len(u)
  <2> HIDE DEF N
  <2> QED
    BY <1>5, <1>8
<1> QED
  BY <1>6, <1>7, <1>8, <1>9

(*****************************************************************************)
(* What a signer does to a message                                           *)
(*****************************************************************************)

(* The middle of three texts                                                 *)
LEMMA MiddlePart ==
    ASSUME NEW T, NEW a \in Seq(T), NEW b \in Seq(T), NEW c \in Seq(T)
    PROVE  /\ a \o b \o c \in Seq(T)
           /\ Len(a \o b \o c) = Len(a) + Len(b) + Len(c)
           /\ SubSeq(a \o b \o c, Len(a) + 1, Len(a \o b \o c) - Len(c)) = b
<1> DEFINE ab == a \o b
           s == ab \o c
           m == Len(a) + 1
           n == Len(s) - Len(c)
           u == SubSeq(s, m, n)
<1>1. Len(a) \in Nat /\ Len(b) \in Nat /\ Len(c) \in Nat
  BY LenProperties
<1>2. /\ ab \in Seq(T) /\ Len(ab) = Len(a) + Len(b)
      /\ \A i \in 1 .. Len(a) + Len(b) :
             ab[i] = IF i <= Len(a) THEN a[i] ELSE b[i - Len(a)]
  BY ConcatProperties
<1> HIDE DEF ab
<1>3. /\ s \in Seq(T) /\ Len(s) = Len(ab) + Len(c)
      /\ \A i \in 1 .. Len(ab) + Len(c) :
             s[i] = IF i <= Len(ab) THEN ab[i] ELSE c[i - Len(ab)]
  <2>1. ab \in Seq(T)
    BY <1>2
  <2> QED
    BY <2>1, ConcatProperties
<1> HIDE DEF s
<1>4. m \in Int /\ n \in Int /\ n = Len(a) + Len(b)
      /\ \A i \in m .. n : i \in 1 .. Len(s)
  BY <1>1, <1>2, <1>3
<1>5. \A i \in m .. n : s[i] \in T
  BY <1>3, <1>4, ElementOfSeq
<1> HIDE DEF n
<1>6. /\ u \in Seq(T) /\ Len(u) = IF m <= n THEN n - m + 1 ELSE 0
      /\ \A i \in 1 .. n - m + 1 : u[i] = s[m + i - 1]
  BY <1>4, <1>5, SubSeqProperties
<1> HIDE DEF u
<1>7. Len(u) = Len(b)
  BY <1>1, <1>4, <1>6
<1>8. ASSUME NEW i \in 1 .. Len(b) PROVE u[i] = b[i]
  <2>1. /\ i \in 1 .. n - m + 1 /\ m + i - 1 = Len(a) + i
        /\ Len(a) + i \in 1 .. Len(a) + Len(b) /\ ~(Len(a) + i <= Len(a))
        /\ (Len(a) + i) - Len(a) = i
    BY <1>1, <1>4
  <2>2. /\ Len(a) + i \in 1 .. Len(ab) + Len(c) /\ Len(a) + i <= Len(ab)
    BY <1>1, <1>2, <2>1
  <2>3. s[Len(a) + i] = ab[Len(a) + i] /\ ab[Len(a) + i] = b[i]
    BY <1>2, <1>3, <2>1, <2>2
  <2> QED
    BY <1>6, <2>1, <2>3
<1>9. u = b
  BY <1>6, <1>7, <1>8, SeqEqual
<1>10. Len(s) = Len(a) + Len(b) + Len(c)
  BY <1>1, <1>2, <1>3
<1> QED
  BY <1>3, <1>9, <1>10 DEF u, m, n, s, ab

(* The host of a message is a header value, its MSG a text, and its elements *)
(* are lists of texts.                                                       *)
LEMMA HostIsValue ==
    TextTypeOK => /\ host \in Seq(ValueToken) /\ msg \in Seq(Token)
                  /\ elements \in Seq(Seq(Token))
BY TextAssumption DEF TextTypeOK

(* What a signer writes of a message it is given                             *)
LEMMA DoActionShape ==
    ASSUME TextTypeOK, DoAction
    PROVE  LET K == StripClientSD(sd)
               H == HcsFormatSdHdr(host)
           IN  /\ K \in Seq(Token) /\ H \in Seq(Token)
               /\ embedded' \in BOOLEAN /\ Kept' = K
               /\ payload' = H \o K \o msg
               /\ sd' = OurElement \o CertElement(embedded') \o H \o K
               /\ line' = sd' \o msg \o <<"NL">>
<1> DEFINE K == StripClientSD(sd)
           H == HcsFormatSdHdr(host)
<1>1. host \in Seq(ValueToken) /\ msg \in Seq(Token) /\ sd \in Seq(Token)
  BY HostIsValue DEF TextTypeOK
<1>2. K \in Seq(Token)
  BY <1>1, KeptType
<1>3. H \in Seq(Token)
  BY <1>1, HeaderStrips
<1>4. host' = host /\ msg' = msg
  BY DEF DoAction
<1>5. payload' = H \o K \o msg
  BY DEF DoAction, Payload
<1>6. /\ embedded' \in BOOLEAN
      /\ sd' = OurElement \o CertElement(embedded') \o H \o K
      /\ line' = sd' \o msg \o <<"NL">>
  BY DEF DoAction, NewSD, OurElement, CertElement
<1>7. Kept' = SubSeq(payload', Len(H) + 1, Len(payload') - Len(msg))
  BY <1>4 DEF Kept
<1> HIDE DEF K, H
<1>8. Kept' = K
  BY <1>1, <1>2, <1>3, <1>5, <1>7, MiddlePart
<1> QED
  BY <1>2, <1>3, <1>5, <1>6, <1>8 DEF K, H

(* A scan that ends, ends after a bracket.                                   *)
LEMMA ScanEndsAtBracket ==
    ASSUME NEW s, Len(s) \in Nat, NEW i \in 1 .. Len(s) + 2,
           SdScanElement(s)[i] = Len(s) + 1
    PROVE  Len(s) >= 1 /\ s[Len(s)] = "]"
<1> DEFINE n == Len(s)
           e == SdScanElement(s)
           S == {k \in 1 .. n + 2 : e[k] = n + 1 => n >= 1 /\ s[n] = "]"}
<1>1. n + 2 \in S
  <2>1. n + 2 \in 1 .. n + 2 /\ n + 2 > n
    OBVIOUS
  <2>2. e[n + 2] = n + 2
    BY <2>1, ScanStep
  <2> HIDE DEF e
  <2> QED
    BY <2>1, <2>2
<1>2. ASSUME NEW k \in 1 .. n + 1, \A j \in k + 1 .. n + 2 : j \in S
      PROVE  k \in S
  <2>0. k \in 1 .. n + 2
    OBVIOUS
  <2>1. CASE k > n
    <3>1. e[k] = n + 2
      BY <2>0, <2>1, ScanStep
    <3> HIDE DEF e
    <3> QED
      BY <2>0, <3>1
  <2>2. CASE k <= n /\ s[k] = "]"
    <3>1. e[k] = k + 1
      BY <2>0, <2>2, ScanStep
    <3> HIDE DEF e
    <3> QED
      BY <2>0, <2>2, <3>1
  <2>3. CASE k <= n /\ s[k] = Quote
    <3> DEFINE q == ValueEnd(s)[k + 1] + 1
    <3>1. q \in k + 1 .. n + 2
      <4>1. k + 1 \in 1 .. Len(s) + 2
        BY <2>3
      <4> QED
        BY <2>3, <4>1, ValueEndRange, SMTT(60)
    <3>2. q \in S
      BY <1>2, <3>1
    <3>3. e[k] = e[q]
      BY <2>0, <2>3, ScanStep
    <3> HIDE DEF e, q
    <3> QED
      BY <2>0, <3>2, <3>3
  <2>4. CASE k <= n /\ s[k] # Quote /\ s[k] # "]"
    <3>1. k + 1 \in S
      BY <1>2, <2>4
    <3>2. e[k] = e[k + 1]
      BY <2>0, <2>4, ScanStep
    <3> HIDE DEF e
    <3> QED
      BY <2>0, <3>1, <3>2
  <2> QED
    BY <2>1, <2>2, <2>3, <2>4
<1>3. i \in S
  <2> HIDE DEF S
  <2> QED
    BY <1>1, <1>2, Downward
<1> QED
  BY <1>3

(* An element that ends and quotes no prefix of ours is taken as a whole or  *)
(* not at all.                                                               *)
LEMMA WholeStrips ==
    ASSUME NEW e \in Seq(Token), Whole(e), ~QuotesOurs(e), NEW id \in Ours
    PROVE  Strippable(e, id)
<1>1. Len(e) \in Nat
  BY LenProperties
<1>2. e # << >> /\ SdScanElement(e)[2] = Len(e) + 1
  BY DEF Whole
<1>3. Len(e) >= 1 /\ e[Len(e)] = "]"
  <2>1. Len(e) # 0
    BY <1>2, EmptySeq
  <2>2. 2 \in 1 .. Len(e) + 2
    BY <1>1, <2>1
  <2> QED
    BY <1>1, <1>2, <2>2, ScanEndsAtBracket
<1>4. id[1] = Open /\ id[2] # Quote /\ id[2] # "]"
  <2>1. CASE id = Self
    BY <2>1, TokensDiffer, ValueTokens
  <2>2. CASE id = Hdr
    BY <2>2, TokensDiffer, ValueTokens
  <2> QED
    BY <2>1, <2>2 DEF Ours
<1>5. \A i \in 2 .. Len(e) : ~At(e, id, i)
  BY Zenon DEF QuotesOurs, Ours
<1>6. e[Len(e)] # id[1]
  BY <1>3, <1>4, TokensDiffer
<1>7. ASSUME At(e, id, 1) PROVE SdScanElement(e)[3] = Len(e) + 1
  <2>1. 1 < Len(e) /\ e[2] = id[2]
    <3>1. 1 < Len(e) /\ e[1 + 1] = id[2]
      BY <1>7 DEF At
    <3> QED
      BY <3>1
  <2>2. 2 \in 1 .. Len(e) + 2 /\ 2 <= Len(e) /\ 2 + 1 = 3
    BY <1>1, <2>1
  <2>3. e[2] # Quote /\ e[2] # "]"
    BY <1>4, <2>1
  <2>4. SdScanElement(e)[2] = SdScanElement(e)[2 + 1]
    BY <1>1, <2>2, <2>3, ScanStep
  <2> QED
    BY <1>2, <2>2, <2>4
<1> QED
  BY <1>5, <1>6, <1>7, Zenon DEF Strippable

(* What is kept of a list of elements, element by element                    *)
KeptOf(q) ==
    [i \in DOMAIN q |->
        IF At(q[i], Self, 1) \/ At(q[i], Hdr, 1) THEN << >> ELSE q[i]]

(* Two passes over such elements take ours and leave the others.             *)
LEMMA TwoPasses ==
    ASSUME NEW q \in Seq(Seq(Token)),
           \A i \in DOMAIN q : Whole(q[i]) /\ ~QuotesOurs(q[i])
    PROVE  StripClientSD(FlattenSeq(q)) = FlattenSeq(KeptOf(q))
<1> DEFINE t == StripEach(q, Self)
           u == StripEach(t, Hdr)
           z == KeptOf(q)
<1>1. DOMAIN q = 1 .. Len(q) /\ Len(q) \in Nat
  BY LenProperties
<1>2. /\ t \in Seq(Seq(Token)) /\ Len(t) = Len(q) /\ DOMAIN t = DOMAIN q
      /\ \A i \in 1 .. Len(q) : t[i] = LeftOf(q[i], Self)
  BY StripEachType
<1> HIDE DEF t
<1>3. /\ u \in Seq(Seq(Token)) /\ Len(u) = Len(q) /\ DOMAIN u = DOMAIN q
      /\ \A i \in 1 .. Len(q) : u[i] = LeftOf(t[i], Hdr)
  <2>1. /\ u \in Seq(Seq(Token)) /\ Len(u) = Len(t) /\ DOMAIN u = DOMAIN t
        /\ \A i \in 1 .. Len(t) : u[i] = LeftOf(t[i], Hdr)
    BY <1>2, StripEachType
  <2> HIDE DEF u
  <2> QED
    BY <1>2, <2>1
<1> HIDE DEF u
<1>4. ASSUME NEW i \in 1 .. Len(q)
      PROVE  Strippable(q[i], Self) /\ Strippable(q[i], Hdr)
  <2>1. q[i] \in Seq(Token) /\ Whole(q[i]) /\ ~QuotesOurs(q[i])
    BY <1>1, ElementOfSeq
  <2>2. Self \in Ours /\ Hdr \in Ours
    BY DEF Ours
  <2> QED
    BY <2>1, <2>2, WholeStrips
<1>5. \A i \in 1 .. Len(t) : Strippable(t[i], Hdr)
  BY <1>2, <1>4, EmptyStrips DEF LeftOf
<1>6. HcsStripAllSd(FlattenSeq(q), Self) = FlattenSeq(t)
  BY <1>4, StripFlatten DEF t
<1>7. HcsStripAllSd(FlattenSeq(t), Hdr) = FlattenSeq(u)
  BY <1>2, <1>5, StripFlatten DEF u
<1>8. u = z
  <2>1. ASSUME NEW i \in 1 .. Len(q) PROVE u[i] = z[i]
    <3>1. u[i] = LeftOf(LeftOf(q[i], Self), Hdr)
      BY <1>2, <1>3
    <3>2. z[i] = IF At(q[i], Self, 1) \/ At(q[i], Hdr, 1) THEN << >> ELSE q[i]
      BY <1>1 DEF KeptOf
    <3> DEFINE e == q[i]
    <3> HIDE DEF e, z
    <3>3. LeftOf(LeftOf(e, Self), Hdr)
              = IF At(e, Self, 1) \/ At(e, Hdr, 1) THEN << >> ELSE e
      <4>1. CASE At(e, Self, 1)
        BY <4>1, EmptyStrips DEF LeftOf
      <4>2. CASE ~At(e, Self, 1)
        BY <4>2 DEF LeftOf
      <4> QED
        BY <4>1, <4>2
    <3> QED
      BY <3>1, <3>2, <3>3 DEF e
  <2>2. u = [i \in 1 .. Len(q) |-> u[i]]
    BY <1>1, <1>3
  <2>3. z = [i \in 1 .. Len(q) |-> z[i]]
    BY <1>1 DEF KeptOf
  <2> HIDE DEF z
  <2> QED
    BY <2>1, <2>2, <2>3
<1> QED
  BY <1>6, <1>7, <1>8 DEF StripClientSD

(* In what they leave of them no prefix of ours is left.                     *)
LEMMA TwoPassesSuffice ==
    ASSUME NEW q \in Seq(Seq(Token)),
           \A i \in DOMAIN q : Whole(q[i]) /\ ~QuotesOurs(q[i])
    PROVE  ~HoldsOurs(StripClientSD(FlattenSeq(q)))
<1> DEFINE z == KeptOf(q)
<1>1. DOMAIN q = 1 .. Len(q) /\ Len(q) \in Nat
  BY LenProperties
<1>2. ASSUME NEW i \in 1 .. Len(q)
      PROVE  /\ z[i] \in Seq(Token)
             /\ \A id \in Ours : Strippable(z[i], id) /\ LeftOf(z[i], id) = z[i]
  <2>1. q[i] \in Seq(Token) /\ Whole(q[i]) /\ ~QuotesOurs(q[i])
    BY <1>1, ElementOfSeq
  <2>2. z[i] = IF At(q[i], Self, 1) \/ At(q[i], Hdr, 1) THEN << >> ELSE q[i]
    BY <1>1 DEF KeptOf
  <2> HIDE DEF z
  <2>3. CASE At(q[i], Self, 1) \/ At(q[i], Hdr, 1)
    BY <2>2, <2>3, EmptyStrips, EmptySeq
  <2>4. CASE ~At(q[i], Self, 1) /\ ~At(q[i], Hdr, 1)
    <3>1. \A id \in Ours : Strippable(q[i], id)
      BY <2>1, WholeStrips
    <3>2. \A id \in Ours : LeftOf(q[i], id) = q[i]
      BY <2>4 DEF LeftOf, Ours
    <3> QED
      BY <2>1, <2>2, <2>4, <3>1, <3>2
  <2> QED
    BY <2>3, <2>4
<1>3. z \in Seq(Seq(Token)) /\ Len(z) = Len(q) /\ DOMAIN z = 1 .. Len(q)
  <2>1. z = [i \in 1 .. Len(q) |-> z[i]]
    BY <1>1 DEF KeptOf
  <2> HIDE DEF z
  <2>2. z \in [1 .. Len(q) -> Seq(Token)]
    BY <1>2, <2>1
  <2>3. z \in Seq(Seq(Token)) /\ Len(z) = Len(q)
    <3>1. ASSUME NEW m \in Nat, NEW f \in [1 .. m -> Seq(Token)]
          PROVE  f \in Seq(Seq(Token)) /\ Len(f) = m
      OBVIOUS
    <3> QED
      BY <1>1, <2>2, <3>1, Zenon
  <2>4. DOMAIN z = 1 .. Len(q)
    BY <2>2
  <2> QED
    BY <2>3, <2>4
<1> HIDE DEF z
<1>4. ASSUME NEW id \in Ours
      PROVE  HcsStripAllSd(FlattenSeq(z), id) = FlattenSeq(z)
  <2>1. StripEach(z, id) = z
    <3>1. \A i \in DOMAIN z : LeftOf(z[i], id) = z[i]
      BY <1>2, <1>3
    <3>2. z = [i \in DOMAIN z |-> z[i]]
      BY <1>3
    <3> QED
      BY <3>1, <3>2 DEF StripEach
  <2>2. HcsStripAllSd(FlattenSeq(z), id) = FlattenSeq(StripEach(z, id))
    BY <1>2, <1>3, StripFlatten
  <2> QED
    BY <2>1, <2>2
<1>5. Self \in Ours /\ Hdr \in Ours
  BY DEF Ours
<1>6. StripClientSD(FlattenSeq(z)) = FlattenSeq(z)
  BY <1>4, <1>5 DEF StripClientSD
<1>7. FlattenSeq(z) \in Seq(Token)
  <2>1. FlattenSeq(z) = Joined(z)[Len(z)]
    BY <1>3, FlattenIsJoined
  <2>2. Len(z) \in Nat /\ \A i \in 1 .. Len(z) : z[i] \in Seq(Token)
    BY <1>1, <1>2, <1>3
  <2>3. Len(z) \in 0 .. Len(z)
    BY <2>2
  <2> QED
    BY <2>1, <2>2, <2>3, JoinedType
<1>8. ~HoldsOurs(FlattenSeq(z))
  BY <1>6, <1>7, KeptWhole
<1> QED
  BY <1>8, TwoPasses DEF z

(* TextTypeOK holds of every message a client sends ...                      *)
LEMMA TextTypeInit ==
    TextInit => TextTypeOK
<1> SUFFICES ASSUME TextInit PROVE TextTypeOK
  OBVIOUS
<1>1. elements \in Seq(Seq(Token)) /\ MaxHops \in Nat
  BY TextAssumption DEF TextInit
<1>2. sd \in Seq(Token)
  <2>1. sd = Joined(elements)[Len(elements)]
    BY <1>1, FlattenIsJoined DEF TextInit
  <2>2. Len(elements) \in Nat /\ \A i \in 1 .. Len(elements) : elements[i] \in Seq(Token)
    BY <1>1, LenProperties, ElementOfSeq
  <2>3. Len(elements) \in 0 .. Len(elements)
    BY <2>2
  <2> QED
    BY <2>1, <2>2, <2>3, JoinedType
<1>3. << >> \in Seq(Token)
  BY EmptySeq
<1>4. hops \in 0 .. MaxHops /\ ~(hops > 0)
  BY <1>1 DEF TextInit
<1>5. payload \in Seq(Token) /\ line \in Seq(Token) /\ embedded \in BOOLEAN
      /\ host \in Hosts /\ elements \in ClientSDs /\ msg \in Texts
  BY <1>3 DEF TextInit
<1> QED
  BY <1>2, <1>4, <1>5 DEF TextTypeOK

(* ... and every signer keeps it.                                            *)
LEMMA TextTypeStep ==
    ASSUME TextTypeOK, [TextNext]_textVars PROVE TextTypeOK'
<1>1. CASE DoAction
  <2> DEFINE K == StripClientSD(sd)
             H == HcsFormatSdHdr(host)
             C == CertElement(embedded')
  <2>1. /\ K \in Seq(Token) /\ H \in Seq(Token) /\ embedded' \in BOOLEAN
        /\ payload' = H \o K \o msg
        /\ sd' = OurElement \o C \o H \o K
        /\ line' = sd' \o msg \o <<"NL">>
    BY <1>1, DoActionShape
  <2>2. msg \in Seq(Token) /\ hops \in 0 .. MaxHops /\ MaxHops \in Nat
    BY HostIsValue, TextAssumption DEF TextTypeOK
  <2>3. /\ C \in Seq(Token) /\ OurElement \in Seq(Token) /\ Len(OurElement) = 4
        /\ OurElement[1] = Open /\ OurElement[2] = Self[2]
    <3>1. Self \in Ours
      BY DEF Ours
    <3> QED
      BY <2>1, <3>1, CertStrips, OurElementStrips
  <2>4. <<"NL">> \in Seq(Token)
    <3>1. "NL" \in Token
      BY TokensTyped
    <3> HIDE DEF Token
    <3> QED
      BY <3>1
  <2> HIDE DEF K, H, C
  <2> DEFINE D == OurElement \o C
             G == D \o H
             R == G \o K
             L == R \o msg
             M == L \o <<"NL">>
             Ahead(a) == Len(a) >= 4 /\ a[1] = Open /\ a[2] = Self[2]
  <2>6. D \in Seq(Token) /\ Ahead(D)
    <3>1. /\ D \in Seq(Token) /\ Len(D) = Len(OurElement) + Len(C)
          /\ \A i \in 1 .. Len(OurElement) + Len(C) :
                 D[i] = IF i <= Len(OurElement) THEN OurElement[i]
                                                ELSE C[i - Len(OurElement)]
      BY <2>3, ConcatProperties
    <3>2. Len(C) \in Nat
      BY <2>3, LenProperties
    <3> HIDE DEF D
    <3> QED
      BY <2>3, <3>1, <3>2
  <2>7. ASSUME NEW a \in Seq(Token), NEW b \in Seq(Token), Ahead(a)
        PROVE  a \o b \in Seq(Token) /\ Ahead(a \o b)
    <3> DEFINE ab == a \o b
    <3>1. /\ ab \in Seq(Token) /\ Len(ab) = Len(a) + Len(b)
          /\ \A i \in 1 .. Len(a) + Len(b) :
                 ab[i] = IF i <= Len(a) THEN a[i] ELSE b[i - Len(a)]
      BY ConcatProperties
    <3>2. Len(a) \in Nat /\ Len(b) \in Nat
      BY LenProperties
    <3> HIDE DEF ab
    <3>3. ab \in Seq(Token) /\ Ahead(ab)
      BY <2>7, <3>1, <3>2
    <3> QED
      BY <3>3 DEF ab
  <2> HIDE DEF D, Ahead
  <2>8. G \in Seq(Token) /\ Ahead(G)
    BY <2>1, <2>6, <2>7
  <2> HIDE DEF G
  <2>9. R \in Seq(Token) /\ Ahead(R)
    BY <2>1, <2>8, <2>7
  <2> HIDE DEF R
  <2>10. L \in Seq(Token) /\ Ahead(L)
    BY <2>2, <2>9, <2>7
  <2> HIDE DEF L
  <2>11. M \in Seq(Token) /\ Ahead(M)
    BY <2>4, <2>10, <2>7
  <2>12. sd' = R /\ line' = M
    BY <2>1 DEF R, G, D, L, M
  <2>13. payload' \in Seq(Token)
    BY <2>1, <2>2, MiddlePart
  <2>14. hops' \in 0 .. MaxHops /\ host' = host /\ elements' = elements /\ msg' = msg
    BY <1>1, <2>2 DEF DoAction
  <2>15. At(M, Self, 1)
    <3>1. Len(M) >= 4 /\ M[1] = Open /\ M[2] = Self[2] /\ 1 + 1 = 2
      BY <2>11 DEF Ahead
    <3>2. 1 < Len(M) /\ M[1 + 1] = Self[2]
      BY <2>11, <3>1, LenProperties
    <3> QED
      BY <3>1, <3>2, TokensDiffer DEF At
  <2> HIDE DEF M, R
  <2>16. (hops > 0 => At(line, Self, 1))'
    BY <2>12, <2>15
  <2> QED
    BY <2>1, <2>9, <2>11, <2>12, <2>13, <2>14, <2>16 DEF TextTypeOK
<1>2. CASE Suspend
  BY <1>2 DEF Suspend, textVars, TextTypeOK
<1>3. CASE UNCHANGED textVars
  BY <1>3 DEF textVars, TextTypeOK
<1> QED
  BY <1>1, <1>2, <1>3 DEF TextNext

(* Every signer establishes TextInv.                                         *)
LEMMA TextInvStep ==
    ASSUME TextTypeOK, TextInv, [TextNext]_textVars PROVE TextInv'
<1>1. CASE DoAction
  <2> DEFINE Good(q) == \A i \in DOMAIN q : Whole(q[i]) /\ ~QuotesOurs(q[i])
  <2>1. /\ hops \in Nat /\ hops' = hops + 1 /\ host' = host /\ msg' = msg
        /\ elements' = elements
    BY <1>1 DEF DoAction, TextTypeOK
  <2>2. hops' > 0 /\ hops' # 0
    BY <2>1
  <2>3. /\ Kept' = StripClientSD(sd) /\ Kept' \in Seq(Token)
        /\ payload' = HcsFormatSdHdr(host) \o Kept' \o msg
        /\ sd' = OurElement \o CertElement(embedded')
                     \o HcsFormatSdHdr(host) \o Kept'
        /\ line' = sd' \o msg \o <<"NL">>
    BY <1>1, DoActionShape
  <2>4. ASSUME Good(elements) PROVE ~HoldsOurs(Kept')
    <3>1. CASE hops = 0
      <4>1. elements \in Seq(Seq(Token)) /\ sd = FlattenSeq(elements)
        BY <3>1, HostIsValue DEF TextInv
      <4>2. ~HoldsOurs(StripClientSD(FlattenSeq(elements)))
        BY <2>4, <4>1, TwoPassesSuffice
      <4> QED
        BY <2>3, <4>1, <4>2
    <3>2. CASE hops > 0
      <4> DEFINE C == CertElement(embedded)
                 K == Kept
      <4>1. host \in Seq(ValueToken) /\ embedded \in BOOLEAN
        BY HostIsValue DEF TextTypeOK
      <4>2. /\ K \in Seq(Token) /\ sd = OurElement \o C \o HcsFormatSdHdr(host) \o K
        BY <3>2 DEF TextInv, OurElement, CertElement
      <4>3. ~HoldsOurs(K)
        BY <2>4, <3>2 DEF TextInv
      <4> HIDE DEF K, C
      <4>4. StripClientSD(K) = K
        BY <4>2, <4>3, KeptWhole
      <4>5. StripClientSD(sd) = C \o K
        <5>1. StripClientSD(sd) = C \o StripClientSD(K)
          BY <4>1, <4>2, StripSigned DEF C
        <5> QED
          BY <4>4, <5>1
      <4>6. StripClientSD(C \o K) = C \o K
        <5>1. StripClientSD(C \o K) = C \o StripClientSD(K)
          BY <4>1, <4>2, KeptConcat DEF C
        <5> QED
          BY <4>4, <5>1
      <4>7. Kept' = C \o K
        BY <2>3, <4>5
      <4>8. StripClientSD(Kept') = Kept'
        BY <4>6, <4>7
      <4> QED
        BY <2>3, <4>8, KeptWhole
    <3> QED
      BY <2>1, <3>1, <3>2
  <2>5. (hops = 0 => sd = FlattenSeq(elements))'
    BY <2>2
  <2>6. Good(elements)' => ~HoldsOurs(Kept')
    BY <2>1, <2>4
  <2> HIDE DEF Good
  <2>7. (hops > 0 =>
          /\ Kept \in Seq(Token)
          /\ payload = HcsFormatSdHdr(host) \o Kept \o msg
          /\ sd = OurElement \o CertElement(embedded) \o HcsFormatSdHdr(host) \o Kept
          /\ line = sd \o msg \o <<"NL">>
          /\ Good(elements) => ~HoldsOurs(Kept))'
    BY <2>1, <2>3, <2>6
  <2> QED
    BY <2>5, <2>7 DEF TextInv, OurElement, CertElement, Good
<1>2. CASE UNCHANGED textVars
  BY <1>2 DEF textVars, TextInv, Kept
<1> QED
  BY <1>1, <1>2 DEF TextNext, Suspend

(* The text variables hold texts, and a signed line begins with our element  *)
(* (doAction 602-692).                                                       *)
THEOREM TextTypeInvariant == TextSpec => []TextTypeOK
<1>1. TextInit => TextTypeOK
  BY TextTypeInit
<1>2. TextTypeOK /\ [TextNext]_textVars => TextTypeOK'
  BY TextTypeStep
<1> QED
  BY <1>1, <1>2, PTL DEF TextSpec

(* A signed message is our elements and what the signer kept, the payload it *)
(* hashed ends with the same text, and of well-formed elements it kept none  *)
(* a signer would strip, however many signers the message passed             *)
(* (doAction 602-692, hcs_strip_all_sd).                                     *)
THEOREM SignedMessageShape == TextSpec => []TextInv
<1>1. TextInit => TextInv
  BY DEF TextInit, TextInv
<1>2. TextTypeOK /\ TextInv /\ [TextNext]_textVars => TextInv'
  BY TextInvStep
<1>3. TextSpec => []TextTypeOK
  BY TextTypeInvariant
<1> QED
  BY <1>1, <1>2, <1>3, PTL DEF TextSpec

(* A signer that is given a signed message hashes the same payload, unless   *)
(* the certificate element of the signer before it is in the way or a prefix *)
(* of ours is in what that signer kept.                                      *)
LEMMA ResigningStep ==
    ASSUME TextTypeOK, TextInv, [TextNext]_textVars, hops > 0, hops' > hops
    PROVE  payload' = payload <=> ~embedded /\ ~HoldsOurs(Kept)
<1> DEFINE H == HcsFormatSdHdr(host)
           C == CertElement(embedded)
           K == Kept
           k == StripClientSD(K)
           L == C \o k
<1>1. DoAction
  <2>1. hops' # hops
    BY DEF TextTypeOK
  <2> QED
    BY <2>1 DEF TextNext, Suspend, textVars
<1>2. host \in Seq(ValueToken) /\ msg \in Seq(Token) /\ embedded \in BOOLEAN
  BY HostIsValue DEF TextTypeOK
<1>3. /\ K \in Seq(Token) /\ payload = H \o K \o msg
      /\ sd = OurElement \o C \o H \o K
  BY DEF TextInv, OurElement, CertElement
<1>4. payload' = H \o StripClientSD(sd) \o msg
  BY <1>1 DEF DoAction, Payload
<1> HIDE DEF K
<1>5. StripClientSD(sd) = L
  BY <1>2, <1>3, StripSigned
<1>6. H \in Seq(Token) /\ C \in Seq(Token) /\ k \in Seq(Token) /\ L \in Seq(Token)
  <2>1. H \in Seq(Token)
    BY <1>2, HeaderStrips
  <2>2. Self \in Ours
    BY DEF Ours
  <2>3. C \in Seq(Token) /\ k \in Seq(Token)
    BY <1>2, <1>3, <2>2, CertStrips, KeptType
  <2> HIDE DEF C, k, H
  <2> QED
    BY <2>1, <2>3, ConcatProperties
<1>7. payload' = payload <=> L = K
  <2> HIDE DEF H, L
  <2>1. payload' = H \o L \o msg
    BY <1>4, <1>5
  <2>2. SubSeq(payload', Len(H) + 1, Len(payload') - Len(msg)) = L
    BY <1>2, <1>6, <2>1, MiddlePart
  <2>3. SubSeq(payload, Len(H) + 1, Len(payload) - Len(msg)) = K
    BY <1>2, <1>3, <1>6, MiddlePart
  <2>4. ASSUME payload' = payload PROVE L = K
    BY <2>2, <2>3, <2>4
  <2>5. ASSUME L = K PROVE payload' = payload
    BY <1>3, <2>1, <2>5
  <2> QED
    BY <2>4, <2>5
<1>8. CASE ~embedded
  <2>1. C = << >>
    BY <1>8 DEF CertElement
  <2> HIDE DEF C, k
  <2>2. L = k
    BY <1>6, <2>1, ConcatEmptySeq
  <2>3. k = K <=> ~HoldsOurs(K)
    BY <1>3, KeptWhole DEF k
  <2> QED
    BY <1>7, <1>8, <2>2, <2>3 DEF K
<1>9. CASE embedded
  <2>1. C = HcsFormatSdCert
    BY <1>9 DEF CertElement
  <2>2. L # K
    BY <1>3, <2>1, CertNotKept
  <2> QED
    BY <1>7, <1>9, <2>2
<1> QED
  BY <1>8, <1>9

(* For every message and any number of relays: signing a signed line again   *)
(* hashes the same bytes exactly if no certificate was added and no prefix   *)
(* of ours is in what the first signer kept (doAction 613-692).              *)
THEOREM RelaySignsTheSameBytes == TextSpec => ResigningIsStable
<1>1. /\ TextTypeOK /\ TextInv /\ [TextNext]_textVars
      => [hops > 0 /\ hops' > hops =>
            (payload' = payload <=> ~embedded /\ ~HoldsOurs(Kept))]_textVars
  BY ResigningStep
<1>2. TextSpec => []TextTypeOK
  BY TextTypeInvariant
<1>3. TextSpec => []TextInv
  BY SignedMessageShape
<1> QED
  BY <1>1, <1>2, <1>3, PTL DEF TextSpec, ResigningIsStable

(* StripsOnlyOurs follows: a client's structured data are its elements.      *)
LEMMA StripsOnlyOursNow ==
    ASSUME TextTypeOK, TextInv PROVE StripsOnlyOurs
<1> SUFFICES ASSUME hops = 0,
                    \A i \in DOMAIN elements :
                        Whole(elements[i]) /\ ~QuotesOurs(elements[i])
             PROVE  StripClientSD(sd) = FlattenSeq(KeptOf(elements))
  BY DEF StripsOnlyOurs, KeptOf
<1>1. elements \in Seq(Seq(Token)) /\ sd = FlattenSeq(elements)
  BY HostIsValue DEF TextInv
<1> QED
  BY <1>1, TwoPasses

(* For every list of elements a client sends, if each has its end and none   *)
(* quotes a prefix of ours: the signer takes all of ours and nothing else    *)
(* (hcs_strip_all_sd, called at doAction 613).                               *)
THEOREM SignerStripsOnlyOurs == TextSpec => []StripsOnlyOurs
<1>1. TextTypeOK /\ TextInv => StripsOnlyOurs
  BY StripsOnlyOursNow
<1>2. TextSpec => []TextTypeOK
  BY TextTypeInvariant
<1>3. TextSpec => []TextInv
  BY SignedMessageShape
<1> QED
  BY <1>1, <1>2, <1>3, PTL

(*****************************************************************************)
(* What the verifier reads                                                   *)
(*****************************************************************************)

(* Nothing a signer writes ends a line.                                      *)
LEMMA WrittenTokens ==
    \A v \in {Open, Self[2], Hdr[2], Cert[2], "sd", "]", "cert=", Quote, "b64"} :
        v # "NL" /\ v # "CR"
<1>1. /\ Self[2] = "@32473 " /\ Hdr[2] = "-hdr@32473 " /\ Cert[2] = "-cert@32473 "
  BY DEF Self, Hdr, Cert
<1> QED
  BY <1>1, Zenon DEF Open, Quote

(* The position strstr finds is that of the first prefix, or none.           *)
LEMMA FirstProperties ==
    ASSUME NEW s \in Seq(Token), NEW id
    PROVE  /\ ~Occurs(s, id) => First(s, id) = 0
           /\ Occurs(s, id) =>
                  /\ First(s, id) \in 1 .. Len(s)
                  /\ \A i \in 1 .. Len(s) : At(s, id, i) => First(s, id) <= i
<1> DEFINE I == {i \in DOMAIN s : At(s, id, i)}
<1>1. First(s, id) = IF I = {} THEN 0 ELSE CHOOSE x \in I : \A y \in I : x <= y
  BY DEF First
<1>2. DOMAIN s = 1 .. Len(s) /\ Len(s) \in Nat
  BY LenProperties
<1>3. Occurs(s, id) <=> I # {}
  BY Zenon DEF Occurs
<1>4. CASE I = {}
  BY <1>1, <1>3, <1>4
<1>5. CASE I # {}
  <2>1. I \subseteq Nat /\ I \subseteq 1 .. Len(s)
    BY <1>2
  <2>2. \E x \in I : \A y \in I : x <= y
    <3> HIDE DEF I
    <3> QED
      BY <1>5, <2>1, LeastExists
  <2>3. First(s, id) \in I /\ \A y \in I : First(s, id) <= y
    <3> HIDE DEF I
    <3> QED
      BY <1>1, <1>5, <2>2
  <2>4. \A i \in 1 .. Len(s) : At(s, id, i) => i \in I
    BY <1>2
  <2> QED
    BY <1>3, <1>5, <2>1, <2>3, <2>4
<1> QED
  BY <1>4, <1>5

(* The part of a text from position m on                                     *)
LEMMA Suffix ==
    ASSUME NEW T, NEW s \in Seq(T), NEW m \in 1 .. Len(s) + 1
    PROVE  /\ SubSeq(s, m, Len(s)) \in Seq(T)
           /\ Len(SubSeq(s, m, Len(s))) = Len(s) - m + 1
           /\ \A i \in 1 .. Len(s) - m + 1 : SubSeq(s, m, Len(s))[i] = s[m + i - 1]
           /\ SubSeq(s, 1, 0) \o SubSeq(s, m, Len(s)) = SubSeq(s, m, Len(s))
<1> DEFINE u == SubSeq(s, m, Len(s))
<1>1. Len(s) \in Nat /\ m \in Int /\ Len(s) \in Int
  BY LenProperties
<1>2. \A i \in m .. Len(s) : s[i] \in T
  BY <1>1, ElementOfSeq
<1>3. /\ u \in Seq(T)
      /\ Len(u) = IF m <= Len(s) THEN Len(s) - m + 1 ELSE 0
      /\ \A i \in 1 .. Len(s) - m + 1 : u[i] = s[m + i - 1]
  BY <1>1, <1>2, SubSeqProperties
<1> HIDE DEF u
<1>4. Len(u) = Len(s) - m + 1
  BY <1>1, <1>3
<1>5. SubSeq(s, 1, 0) = << >>
  BY SubSeqEmpty
<1>6. << >> \o u = u
  BY <1>3, ConcatEmptySeq
<1> QED
  BY <1>3, <1>4, <1>5, <1>6 DEF u

(* The verifier cuts our element out of a line that begins with it.          *)
LEMMA StripOwn ==
    ASSUME NEW s \in Seq(Token), Len(s) >= 4,
           s[1] = Open, s[2] = Self[2], s[3] = "sd", s[4] = "]"
    PROVE  HcsStripSdFromLine(s) =
               IF Len(s) - 4 >= MsgBufLen THEN Malformed
               ELSE [rc |-> 0, msg |-> SubSeq(s, 5, Len(s))]
<1> DEFINE n == Len(s)
           u == SubSeq(s, 5, n)
<1>1. n \in Nat /\ DOMAIN s = 1 .. Len(s)
  BY LenProperties
<1>2. First(s, Self) = 1
  <2>1. At(s, Self, 1)
    <3>1. 1 < Len(s) /\ 1 + 1 = 2
      BY <1>1
    <3> QED
      BY <3>1, TokensDiffer DEF At
  <2>2. 1 \in 1 .. Len(s)
    BY <1>1
  <2>3. Occurs(s, Self)
    BY <1>1, <2>1, <2>2, Zenon DEF Occurs
  <2>4. First(s, Self) \in 1 .. Len(s) /\ First(s, Self) <= 1
    BY <2>1, <2>2, <2>3, FirstProperties
  <2> QED
    BY <1>1, <2>4
<1>3. SdScanElement(s)[1 + 2] = 5
  <2>1. 3 \in 1 .. Len(s) + 2 /\ 3 <= Len(s) /\ s[3] # Quote /\ s[3] # "]"
    BY <1>1 DEF Quote
  <2>2. SdScanElement(s)[3] = SdScanElement(s)[3 + 1]
    BY <1>1, <2>1, ScanStep
  <2>3. 4 \in 1 .. Len(s) + 2 /\ 4 <= Len(s)
    BY <1>1
  <2>4. SdScanElement(s)[4] = 4 + 1
    BY <1>1, <2>3, ScanStep
  <2> QED
    BY <2>2, <2>4
<1>4. SubSeq(s, 1, 1 - 1) \o SubSeq(s, 5, n) = u /\ Len(u) = n - 4
  <2>1. 5 \in 1 .. Len(s) + 1
    BY <1>1
  <2>2. /\ SubSeq(s, 1, 0) \o SubSeq(s, 5, Len(s)) = SubSeq(s, 5, Len(s))
        /\ Len(SubSeq(s, 5, Len(s))) = Len(s) - 5 + 1
    BY <2>1, Suffix
  <2> QED
    BY <1>1, <2>2
<1>5. ~(5 > n + 1)
  BY <1>1
<1> QED
  BY <1>2, <1>3, <1>4, <1>5 DEF HcsStripSdFromLine

(* It takes our certificate element from the front of what is left ...       *)
LEMMA ExtractOwn ==
    ASSUME NEW x \in Seq(Token), Len(x) >= 7,
           \A i \in 1 .. 7 : x[i] = HcsFormatSdCert[i]
    PROVE  HcsExtractAndStripCertSd(x) = [rc |-> 1, msg |-> SubSeq(x, 8, Len(x))]
<1> DEFINE n == Len(x)
<1>1. n \in Nat /\ DOMAIN x = 1 .. Len(x)
  BY LenProperties
<1>2. /\ x[1] = Open /\ x[2] = Cert[2] /\ x[3] = "cert=" /\ x[4] = Quote
      /\ x[5] = "b64" /\ x[6] = Quote /\ x[7] = "]"
  BY CertTokens
<1>3. First(x, Cert) = 1
  <2>1. At(x, Cert, 1)
    <3>1. 1 < Len(x) /\ 1 + 1 = 2
      BY <1>1
    <3> QED
      BY <1>2, <3>1, TokensDiffer DEF At
  <2>2. 1 \in 1 .. Len(x)
    BY <1>1
  <2>3. Occurs(x, Cert)
    BY <1>1, <2>1, <2>2, Zenon DEF Occurs
  <2>4. First(x, Cert) \in 1 .. Len(x) /\ First(x, Cert) <= 1
    BY <2>1, <2>2, <2>3, FirstProperties
  <2> QED
    BY <1>1, <2>4
<1>4. ValueEnd(x)[1 + 4] = 6
  <2>1. 5 \in 1 .. Len(x) + 2 /\ 5 <= Len(x) /\ x[5] # Quote /\ x[5] # Backslash
    BY <1>1, <1>2 DEF Quote, Backslash
  <2>2. ValueEnd(x)[5] = ValueEnd(x)[5 + 1]
    BY <1>1, <2>1, ValueEndStep
  <2>3. 6 \in 1 .. Len(x) + 2 /\ 6 <= Len(x)
    BY <1>1
  <2>4. ValueEnd(x)[6] = 6
    BY <1>1, <1>2, <2>3, ValueEndStep
  <2> QED
    BY <2>2, <2>4
<1>5. /\ 1 + 3 < Len(x) /\ x[1 + 2] = "cert=" /\ x[1 + 3] = Quote
      /\ 6 < Len(x) /\ x[6 + 1] = "]"
      /\ \A j \in 1 + 4 .. 6 - 1 : x[j] = "b64"
  <2>1. \A j \in 1 + 4 .. 6 - 1 : j = 5
    OBVIOUS
  <2> QED
    BY <1>1, <1>2, <2>1
<1>6. SubSeq(x, 1, 1 - 1) \o SubSeq(x, 6 + 2, Len(x)) = SubSeq(x, 8, Len(x))
  <2>1. 8 \in 1 .. Len(x) + 1
    BY <1>1
  <2>2. SubSeq(x, 1, 0) \o SubSeq(x, 8, Len(x)) = SubSeq(x, 8, Len(x))
    BY <2>1, Suffix
  <2> QED
    BY <2>2
<1> DEFINE k == First(x, Cert)
           end == ValueEnd(x)[k + 4]
           complete == /\ k + 3 < Len(x) /\ x[k + 2] = "cert=" /\ x[k + 3] = Quote
                       /\ end < Len(x) /\ x[end + 1] = "]"
                       /\ \A j \in k + 4 .. end - 1 : x[j] = "b64"
           rest == SubSeq(x, 1, k - 1) \o SubSeq(x, end + 2, Len(x))
<1>7. k = 1 /\ end = 6
  BY <1>3, <1>4
<1>8. HcsExtractAndStripCertSd(x) =
          IF k = 0 THEN [rc |-> 0, msg |-> x]
          ELSE IF ~complete THEN Malformed ELSE [rc |-> 1, msg |-> rest]
  BY DEF HcsExtractAndStripCertSd
<1> HIDE DEF k, end
<1>9. complete /\ rest = SubSeq(x, 8, Len(x)) /\ k # 0
  <2>1. complete
    BY <1>5, <1>7
  <2>2. rest = SubSeq(x, 8, Len(x))
    BY <1>6, <1>7
  <2> QED
    BY <1>7, <2>1, <2>2
<1> HIDE DEF complete, rest
<1> QED
  BY <1>8, <1>9

(* ... and anything it takes from another place makes the text shorter.      *)
LEMMA ExtractOther ==
    ASSUME NEW x \in Seq(Token)
    PROVE  /\ ~Occurs(x, Cert) =>
                  HcsExtractAndStripCertSd(x) = [rc |-> 0, msg |-> x]
           /\ Occurs(x, Cert) =>
                  \/ HcsExtractAndStripCertSd(x) = Malformed
                  \/ /\ HcsExtractAndStripCertSd(x).rc = 1
                     /\ Len(HcsExtractAndStripCertSd(x).msg) < Len(x)
<1>1. Len(x) \in Nat
  BY LenProperties
<1>2. CASE ~Occurs(x, Cert)
  <2>1. First(x, Cert) = 0
    BY <1>1, <1>2, FirstProperties
  <2> QED
    BY <1>2, <2>1 DEF HcsExtractAndStripCertSd
<1>3. CASE Occurs(x, Cert)
  <2> DEFINE k == First(x, Cert)
             end == ValueEnd(x)[k + 4]
             complete == /\ k + 3 < Len(x) /\ x[k + 2] = "cert=" /\ x[k + 3] = Quote
                         /\ end < Len(x) /\ x[end + 1] = "]"
                         /\ \A j \in k + 4 .. end - 1 : x[j] = "b64"
             rest == SubSeq(x, 1, k - 1) \o SubSeq(x, end + 2, Len(x))
  <2>1. k \in 1 .. Len(x)
    BY <1>1, <1>3, FirstProperties
  <2>2. HcsExtractAndStripCertSd(x) =
            IF ~complete THEN Malformed ELSE [rc |-> 1, msg |-> rest]
    <3>1. ~(k = 0)
      BY <1>1, <2>1
    <3> QED
      BY <3>1 DEF HcsExtractAndStripCertSd
  <2>3. ASSUME complete PROVE Len(rest) < Len(x)
    <3>1. k + 3 < Len(x) /\ end < Len(x)
      BY <2>3
    <3> HIDE DEF complete, k
    <3>2. k + 4 \in 1 .. Len(x) + 2 /\ k + 4 <= Len(x)
      BY <1>1, <2>1, <3>1
    <3>3. end \in k + 4 .. Len(x) + 1
      BY <1>1, <3>2, ValueEndRange
    <3> HIDE DEF end
    <3>4. end \in Nat /\ end >= k + 4 /\ k \in Nat /\ k >= 1
      BY <1>1, <2>1, <3>2, <3>3
    <3> DEFINE a == SubSeq(x, 1, k - 1)
               b == SubSeq(x, end + 2, Len(x))
    <3>5. a \in Seq(Token) /\ Len(a) <= k - 1 /\ Len(a) \in Nat
      <4>1. \A i \in 1 .. k - 1 : x[i] \in Token
        BY <1>1, <2>1, ElementOfSeq
      <4>2. 1 \in Int /\ k - 1 \in Int
        BY <3>4
      <4>3. a \in Seq(Token) /\ Len(a) = IF 1 <= k - 1 THEN k - 1 - 1 + 1 ELSE 0
        BY <4>1, <4>2, SubSeqProperties
      <4> HIDE DEF a
      <4> QED
        BY <3>4, <4>3
    <3>6. b \in Seq(Token) /\ Len(b) = Len(x) - (end + 2) + 1
      <4>1. end + 2 \in 1 .. Len(x) + 1
        BY <1>1, <3>1, <3>4
      <4> QED
        BY <4>1, Suffix
    <3> HIDE DEF a, b
    <3>7. Len(a \o b) = Len(a) + Len(b)
      BY <3>5, <3>6, ConcatProperties
    <3>8. Len(a) + Len(b) < Len(x)
      BY <1>1, <3>1, <3>4, <3>5, <3>6
    <3> QED
      BY <3>7, <3>8 DEF a, b
  <2> HIDE DEF complete, rest
  <2> QED
    BY <1>3, <2>2, <2>3
<1> QED
  BY <1>2, <1>3

(* getline ends a line before the first newline, and trailing carriage       *)
(* returns go; what has none of both at the front stays.                     *)
LEMMA ReadLineShape ==
    ASSUME NEW D \in Seq(Token), NEW h \in 1 .. Len(D),
           \A i \in 1 .. h : D[i] # "NL" /\ D[i] # "CR"
    PROVE  \E r \in h .. Len(D) :
               /\ ReadLine(D \o <<"NL">>) = SubSeq(D, 1, r)
               /\ r = Len(D) <=> /\ \A i \in 1 .. Len(D) : D[i] # "NL"
                                 /\ D[Len(D)] # "CR"
<1> DEFINE n == Len(D)
           s == D \o <<"NL">>
           ends == {i \in 1 .. n + 1 : s[i] = "NL"}
           e == CHOOSE i \in ends : \A j \in ends : i <= j
           cut == e - 1
           last == {i \in 1 .. cut : s[i] # "CR"}
           r == CHOOSE i \in last : \A j \in last : j <= i
<1>1. n \in Nat /\ n >= 1
  BY LenProperties
<1>2. /\ s \in Seq(Token) /\ Len(s) = n + 1 /\ DOMAIN s = 1 .. n + 1
      /\ \A i \in 1 .. n : s[i] = D[i]
      /\ s[n + 1] = "NL"
  <2> DEFINE t == <<"NL">>
  <2>1. t \in Seq(Token) /\ Len(t) = 1 /\ t[1] = "NL"
    <3>1. "NL" \in Token
      BY TokensTyped
    <3> HIDE DEF Token
    <3> QED
      BY <3>1
  <2> HIDE DEF t
  <2>2. /\ D \o t \in Seq(Token) /\ Len(D \o t) = Len(D) + Len(t)
        /\ \A i \in 1 .. Len(D) + Len(t) :
               (D \o t)[i] = IF i <= Len(D) THEN D[i] ELSE t[i - Len(D)]
    BY <2>1, ConcatProperties
  <2> DEFINE w == D \o t
  <2>3. /\ w \in Seq(Token) /\ Len(w) = n + 1
        /\ \A i \in 1 .. n + 1 : w[i] = IF i <= n THEN D[i] ELSE t[i - n]
    BY <2>1, <2>2
  <2> HIDE DEF w, n
  <2>4. /\ \A i \in 1 .. n : w[i] = D[i]
        /\ w[n + 1] = "NL"
    <3>1. n + 1 \in 1 .. n + 1 /\ ~(n + 1 <= n) /\ (n + 1) - n = 1
      BY <1>1
    <3> QED
      BY <1>1, <2>1, <2>3, <3>1
  <2>5. DOMAIN w = 1 .. n + 1
    BY <2>3, LenProperties
  <2> QED
    BY <2>3, <2>4, <2>5 DEF w, t
<1> HIDE DEF s
<1>3. ends \subseteq Nat /\ n + 1 \in ends /\ ends # {}
  BY <1>1, <1>2
<1>4. e \in ends /\ \A j \in ends : e <= j
  <2>1. \E i \in ends : \A j \in ends : i <= j
    <3> HIDE DEF ends
    <3> QED
      BY <1>3, LeastExists
  <2> HIDE DEF ends
  <2> QED
    BY <2>1
<1> HIDE DEF e
<1>5. e \in h + 1 .. n + 1
  <2>1. e \in 1 .. n + 1 /\ s[e] = "NL"
    BY <1>4
  <2>2. e <= h => FALSE
    BY <1>1, <1>2, <2>1
  <2> QED
    BY <1>1, <2>1, <2>2
<1>6. cut \in h .. n /\ cut \in Nat
  BY <1>1, <1>5
<1>7. e = n + 1 <=> \A i \in 1 .. n : D[i] # "NL"
  <2>1. ASSUME e = n + 1, NEW i \in 1 .. n PROVE D[i] # "NL"
    <3>1. i \notin ends
      BY <1>1, <1>4, <2>1
    <3> QED
      BY <1>1, <1>2, <3>1
  <2>2. ASSUME \A i \in 1 .. n : D[i] # "NL" PROVE e = n + 1
    BY <1>1, <1>2, <1>4, <2>2
  <2> QED
    BY <2>1, <2>2
<1> HIDE DEF cut
<1>8. last \subseteq 1 .. cut /\ h \in last /\ last # {}
  <2>1. h \in 1 .. cut /\ s[h] = D[h] /\ D[h] # "CR"
    BY <1>1, <1>2, <1>6
  <2> QED
    BY <2>1
<1>9. r \in last /\ \A j \in last : j <= r
  <2>1. \E i \in last : \A j \in last : j <= i
    <3> HIDE DEF last
    <3> QED
      BY <1>6, <1>8, GreatestExists
  <2> HIDE DEF last
  <2> QED
    BY <2>1
<1> HIDE DEF r
<1>10. r \in h .. cut /\ s[r] # "CR"
  BY <1>6, <1>8, <1>9
<1>11. ReadLine(s) = SubSeq(s, 1, r)
  <2> DEFINE E == {i \in DOMAIN s : s[i] = "NL"}
             c == IF E = {} THEN Len(s)
                  ELSE (CHOOSE i \in E : \A j \in E : i <= j) - 1
             lst == {i \in 1 .. c : s[i] # "CR"}
  <2>1. ReadLine(s) =
          IF lst = {} THEN << >>
          ELSE SubSeq(s, 1, CHOOSE i \in lst : \A j \in lst : j <= i)
    BY DEF ReadLine
  <2>2. E = ends
    BY <1>2
  <2>3. c = cut
    <3>1. cut = (CHOOSE i \in ends : \A j \in ends : i <= j) - 1
      BY DEF cut, e
    <3> HIDE DEF E, ends
    <3> QED
      BY <1>3, <2>2, <3>1
  <2> HIDE DEF c
  <2>4. ReadLine(s) = IF last = {} THEN << >> ELSE SubSeq(s, 1, r)
    BY <2>1, <2>3 DEF r
  <2> QED
    BY <1>8, <2>4
<1>12. SubSeq(s, 1, r) = SubSeq(D, 1, r)
  <2>1. r \in 1 .. n /\ 1 \in 1 .. n
    BY <1>1, <1>6, <1>10
  <2>2. <<"NL">> \in Seq(Token)
    <3>1. "NL" \in Token
      BY TokensTyped
    <3> HIDE DEF Token
    <3> QED
      BY <3>1
  <2> QED
    BY <2>1, <2>2, SubSeqOfConcat1 DEF s
<1>13. r = n <=> cut = n /\ D[n] # "CR"
  <2>1. ASSUME r = n PROVE cut = n /\ D[n] # "CR"
    BY <1>1, <1>2, <1>6, <1>10, <2>1
  <2>2. ASSUME cut = n, D[n] # "CR" PROVE r = n
    <3>1. n \in last
      BY <1>1, <1>2, <2>2
    <3> QED
      BY <1>6, <1>9, <1>10, <2>2, <3>1
  <2> QED
    BY <2>1, <2>2
<1>14. cut = n <=> e = n + 1
  BY <1>1, <1>5 DEF cut
<1>15. r \in h .. n
  BY <1>6, <1>10
<1> QED
  BY <1>7, <1>11, <1>12, <1>13, <1>14, <1>15 DEF s

(* Two texts, position by position                                           *)
LEMMA TwoParts ==
    ASSUME NEW T, NEW a \in Seq(T), NEW b \in Seq(T)
    PROVE  /\ a \o b \in Seq(T) /\ Len(a \o b) = Len(a) + Len(b)
           /\ \A i \in 1 .. Len(a) : (a \o b)[i] = a[i]
           /\ \A i \in 1 .. Len(b) : (a \o b)[Len(a) + i] = b[i]
<1>1. Len(a) \in Nat /\ Len(b) \in Nat
  BY LenProperties
<1> DEFINE s == a \o b
<1>2. /\ s \in Seq(T) /\ Len(s) = Len(a) + Len(b)
      /\ \A i \in 1 .. Len(a) + Len(b) :
             s[i] = IF i <= Len(a) THEN a[i] ELSE b[i - Len(a)]
  BY ConcatProperties
<1> HIDE DEF s
<1>3. \A i \in 1 .. Len(a) : s[i] = a[i]
  BY <1>1, <1>2
<1>4. ASSUME NEW i \in 1 .. Len(b) PROVE s[Len(a) + i] = b[i]
  <2>1. /\ Len(a) + i \in 1 .. Len(a) + Len(b) /\ ~(Len(a) + i <= Len(a))
        /\ (Len(a) + i) - Len(a) = i
    BY <1>1
  <2> QED
    BY <1>2, <2>1
<1> QED
  BY <1>2, <1>3, <1>4 DEF s

(* A signed line: our element, perhaps our certificate, and the payload      *)
LEMMA SignedLine ==
    ASSUME TextTypeOK, TextInv, hops > 0
    PROVE  LET C == CertElement(embedded)
               H == HcsFormatSdHdr(host)
               D == sd \o msg
           IN  /\ C \in Seq(Token) /\ payload \in Seq(Token) /\ D \in Seq(Token)
               /\ D = OurElement \o (C \o payload)
               /\ line = D \o <<"NL">>
               /\ Len(D) = Len(sd) + Len(msg)
               /\ Len(H) \in 5 .. Len(payload)
               /\ \A i \in 1 .. Len(H) : payload[i] \in ValueToken \cup {Open, Hdr[2]}
<1> DEFINE P == OurElement
           C == CertElement(embedded)
           H == HcsFormatSdHdr(host)
           K == Kept
           U == ValueToken \cup {Open, Hdr[2]}
<1>1. /\ host \in Seq(ValueToken) /\ msg \in Seq(Token) /\ embedded \in BOOLEAN
      /\ sd \in Seq(Token) /\ payload \in Seq(Token)
  BY HostIsValue DEF TextTypeOK
<1>2. /\ K \in Seq(Token) /\ payload = H \o K \o msg
      /\ sd = P \o C \o H \o K /\ line = sd \o msg \o <<"NL">>
  BY DEF TextInv, OurElement, CertElement
<1> HIDE DEF K
<1>3. P \in Seq(Token) /\ H \in Seq(Token)
  BY <1>1, OurElementStrips, HeaderStrips
<1>4. C \in Seq(Token) /\ K \in Seq(Token)
  <2>1. Self \in Ours
    BY DEF Ours
  <2> QED
    BY <1>1, <1>2, <2>1, CertStrips
<1>5. H \in Seq(U) /\ Len(H) >= 5 /\ Len(H) \in Nat
  <2>1. H \in Seq(U) /\ Len(H) >= 5
    BY <1>1, HeaderShape
  <2> HIDE DEF H
  <2> QED
    BY <2>1, LenProperties
<1> HIDE DEF P, C, H, U
<1>assoc. Regroups(Token)
  BY ConcatRegroups
<1>type. \A x, y \in Seq(Token) : x \o y \in Seq(Token)
  BY ConcatProperties
<1>6. sd \o msg = P \o (C \o payload)
  <2> DEFINE X == P \o C
             Y == H \o K
  <2>1. X \in Seq(Token) /\ Y \in Seq(Token) /\ C \in Seq(Token)
        /\ P \in Seq(Token) /\ msg \in Seq(Token)
    BY <1>1, <1>3, <1>4, <1>type
  <2>2. sd = X \o Y
    <3>1. sd = (X \o H) \o K
      BY <1>2
    <3>2. X \in Seq(Token) /\ H \in Seq(Token) /\ K \in Seq(Token)
      BY <1>3, <1>4, <2>1
    <3> HIDE DEF X, Y
    <3>3. (X \o H) \o K = X \o (H \o K)
      BY <1>assoc, <3>2, Zenon DEF Regroups
    <3> QED
      BY <3>1, <3>3 DEF Y
  <2>3. payload = Y \o msg
    BY <1>2
  <2> HIDE DEF X, Y
  <2>4. (X \o Y) \o msg = X \o (Y \o msg)
    <3>1. X \in Seq(Token) /\ Y \in Seq(Token) /\ msg \in Seq(Token)
      BY <2>1
    <3> QED
      BY <1>assoc, <3>1, Zenon DEF Regroups
  <2>5. (P \o C) \o payload = P \o (C \o payload)
    <3>1. P \in Seq(Token) /\ C \in Seq(Token) /\ payload \in Seq(Token)
      BY <1>1, <2>1
    <3> QED
      BY <1>assoc, <3>1, Zenon DEF Regroups
  <2> QED
    BY <2>2, <2>3, <2>4, <2>5 DEF X
<1>7. sd \o msg \in Seq(Token) /\ Len(sd \o msg) = Len(sd) + Len(msg)
  BY <1>1, TwoParts
<1>8. Len(H) <= Len(payload) /\ Len(payload) \in Nat
      /\ \A i \in 1 .. Len(H) : payload[i] = H[i]
  <2> DEFINE Y == H \o K
  <2>1. /\ Y \in Seq(Token) /\ Len(Y) = Len(H) + Len(K)
        /\ \A i \in 1 .. Len(H) : Y[i] = H[i]
    BY <1>3, <1>4, TwoParts
  <2>2. payload = Y \o msg
    BY <1>2
  <2> HIDE DEF Y
  <2>3. /\ Len(payload) = Len(Y) + Len(msg)
        /\ \A i \in 1 .. Len(Y) : payload[i] = Y[i]
    BY <1>1, <2>1, <2>2, TwoParts
  <2>4. Len(K) \in Nat /\ Len(msg) \in Nat
    BY <1>1, <1>4, LenProperties
  <2> QED
    BY <1>5, <2>1, <2>3, <2>4
<1>9. Len(H) \in 5 .. Len(payload)
  BY <1>5, <1>8
<1>10. \A i \in 1 .. Len(H) : payload[i] \in U
  BY <1>5, <1>8, ElementOfSeq
<1>11. line = (sd \o msg) \o <<"NL">>
  BY <1>2
<1> QED
  BY <1>1, <1>4, <1>6, <1>7, <1>9, <1>10, <1>11 DEF P, C, H, U

(* What the verifier makes of a signed line: the part of the payload up to   *)
(* where getline ends it, if that fits and no other certificate is in it     *)
LEMMA ReadsBackNow ==
    ASSUME TextTypeOK, TextInv PROVE ReadsBackExactly
<1> SUFFICES ASSUME hops > 0
             PROVE  ProcessLine(ReadLine(line)) = [clean |-> TRUE, payload |-> payload]
                        <=> Transparent
  BY DEF ReadsBackExactly
<1> DEFINE P == OurElement
           C == CertElement(embedded)
           H == HcsFormatSdHdr(host)
           D == sd \o msg
           W == payload
           c == Len(C)
           h == 4 + c + Len(H)
<1>1. /\ C \in Seq(Token) /\ W \in Seq(Token) /\ D \in Seq(Token)
      /\ D = P \o (C \o W) /\ line = D \o <<"NL">> /\ Len(D) = Len(sd) + Len(msg)
      /\ Len(H) \in 5 .. Len(W)
      /\ \A i \in 1 .. Len(H) : W[i] \in ValueToken \cup {Open, Hdr[2]}
  BY SignedLine
<1>2. /\ embedded \in BOOLEAN /\ MsgBufLen \in Nat
  BY TextAssumption DEF TextTypeOK
<1>3. /\ embedded => c = 7 /\ \A i \in 1 .. 7 : C[i] = HcsFormatSdCert[i]
      /\ ~embedded => c = 0
  BY CertTokens DEF CertElement
<1>4. \A i \in 1 .. c : C[i] # "NL" /\ C[i] # "CR"
  <2> SUFFICES ASSUME NEW i \in 1 .. c PROVE C[i] # "NL" /\ C[i] # "CR"
    OBVIOUS
  <2>1. embedded /\ i \in 1 .. 7
    <3>1. c = 7 \/ c = 0
      BY <1>2, <1>3
    <3>2. c # 0
      OBVIOUS
    <3> HIDE DEF C, c
    <3> QED
      BY <1>2, <1>3, <3>1, <3>2
  <2>2. i = 1 \/ i = 2 \/ i = 3 \/ i = 4 \/ i = 5 \/ i = 6 \/ i = 7
    BY <2>1
  <2>3. C[i] = HcsFormatSdCert[i]
    BY <1>3, <2>1
  <2>4. HcsFormatSdCert[i] \in {Open, Cert[2], "cert=", Quote, "b64", "]"}
    BY <2>2, CertTokens
  <2> HIDE DEF C
  <2> QED
    BY <2>3, <2>4, WrittenTokens
<1>5. /\ P \in Seq(Token) /\ Len(P) = 4
      /\ P[1] = Open /\ P[2] = Self[2] /\ P[3] = "sd" /\ P[4] = "]"
  BY OurElementStrips
<1> HIDE DEF P, C, H, D
<1>6. /\ Len(W) \in Nat /\ c \in Nat /\ (c = 0 \/ c = 7)
      /\ Len(H) \in Nat /\ Len(H) <= Len(W) /\ Len(W) >= 5
  <2>1. Len(W) \in Nat /\ c \in Nat
    BY <1>1, LenProperties
  <2>2. c = 0 \/ c = 7
    BY <1>2, <1>3
  <2> HIDE DEF c
  <2> QED
    BY <1>1, <2>1, <2>2
<1>7. /\ Len(D) = 4 + c + Len(W)
      /\ D[1] = Open /\ D[2] = Self[2] /\ D[3] = "sd" /\ D[4] = "]"
      /\ \A i \in 1 .. c : D[4 + i] = C[i]
      /\ \A i \in 1 .. Len(W) : D[4 + c + i] = W[i]
  <2> DEFINE Q == C \o W
  <2>1. /\ Q \in Seq(Token) /\ Len(Q) = c + Len(W)
        /\ \A i \in 1 .. c : Q[i] = C[i]
        /\ \A i \in 1 .. Len(W) : Q[c + i] = W[i]
    BY <1>1, TwoParts
  <2>2. D = P \o Q
    BY <1>1
  <2> HIDE DEF Q
  <2>3. /\ Len(P \o Q) = Len(P) + Len(Q)
        /\ \A i \in 1 .. Len(P) : (P \o Q)[i] = P[i]
        /\ \A i \in 1 .. Len(Q) : (P \o Q)[Len(P) + i] = Q[i]
    <3>1. P \in Seq(Token) /\ Q \in Seq(Token)
      BY <1>5, <2>1
    <3> QED
      BY <3>1, TwoParts
  <2>4. /\ Len(D) = 4 + Len(Q)
        /\ \A i \in 1 .. 4 : D[i] = P[i]
        /\ \A i \in 1 .. Len(Q) : D[4 + i] = Q[i]
    BY <1>5, <2>2, <2>3
  <2>5. D[1] = Open /\ D[2] = Self[2] /\ D[3] = "sd" /\ D[4] = "]"
    BY <1>5, <2>4
  <2>6. ASSUME NEW i \in 1 .. c PROVE D[4 + i] = C[i]
    <3>1. i \in 1 .. Len(Q)
      BY <1>6, <2>1
    <3> QED
      BY <2>1, <2>4, <3>1
  <2>7. ASSUME NEW i \in 1 .. Len(W) PROVE D[4 + c + i] = W[i]
    <3>1. c + i \in 1 .. Len(Q) /\ 4 + (c + i) = 4 + c + i
      BY <1>6, <2>1
    <3>2. D[4 + (c + i)] = Q[c + i]
      BY <2>4, <3>1
    <3> QED
      BY <2>1, <3>1, <3>2
  <2>8. Len(D) = 4 + c + Len(W)
    BY <1>6, <2>1, <2>4
  <2> QED
    BY <2>5, <2>6, <2>7, <2>8
<1>8. \A i \in 1 .. Len(D) : \/ i \in 1 .. 4
                             \/ \E j \in 1 .. c : i = 4 + j
                             \/ \E j \in 1 .. Len(W) : i = 4 + c + j
  <2> SUFFICES ASSUME NEW i \in 1 .. Len(D), ~(i \in 1 .. 4),
                      ~(\E j \in 1 .. c : i = 4 + j)
               PROVE  \E j \in 1 .. Len(W) : i = 4 + c + j
    OBVIOUS
  <2>1. ~(i - 4 \in 1 .. c) /\ i \in Nat
    BY <1>6, <1>7
  <2>2. i - 4 - c \in 1 .. Len(W) /\ i = 4 + c + (i - 4 - c)
    BY <1>6, <1>7, <2>1
  <2> QED
    BY <2>2
<1>9. \A i \in 1 .. 4 + c : D[i] # "NL" /\ D[i] # "CR"
  <2> SUFFICES ASSUME NEW i \in 1 .. 4 + c PROVE D[i] # "NL" /\ D[i] # "CR"
    OBVIOUS
  <2>1. CASE i \in 1 .. 4
    <3>1. i = 1 \/ i = 2 \/ i = 3 \/ i = 4
      BY <2>1
    <3> QED
      BY <1>7, <3>1, WrittenTokens
  <2>2. CASE ~(i \in 1 .. 4)
    <3>1. i - 4 \in 1 .. c /\ 4 + (i - 4) = i
      BY <1>6, <2>2
    <3> QED
      BY <1>4, <1>7, <3>1
  <2> QED
    BY <2>1, <2>2
<1>10. \A i \in 1 .. h : D[i] # "NL" /\ D[i] # "CR"
  <2> SUFFICES ASSUME NEW i \in 1 .. h, ~(i \in 1 .. 4 + c)
               PROVE  D[i] # "NL" /\ D[i] # "CR"
    BY <1>9
  <2>1. i - 4 - c \in 1 .. Len(H) /\ i - 4 - c \in 1 .. Len(W)
        /\ 4 + c + (i - 4 - c) = i
    BY <1>6
  <2>2. D[i] \in ValueToken \cup {Open, Hdr[2]}
    BY <1>1, <1>7, <2>1
  <2> QED
    BY <2>2, ValueTokens, WrittenTokens
<1>11. h \in 1 .. Len(D) /\ h \in Nat /\ Len(D) \in Nat
  BY <1>6, <1>7
<1> HIDE DEF h
<1>12. PICK r \in h .. Len(D) :
           /\ ReadLine(D \o <<"NL">>) = SubSeq(D, 1, r)
           /\ r = Len(D) <=> /\ \A i \in 1 .. Len(D) : D[i] # "NL"
                             /\ D[Len(D)] # "CR"
  BY <1>1, <1>10, <1>11, ReadLineShape
<1>13. r = Len(D) <=> ~Holds(W, "NL") /\ W[Len(W)] # "CR"
  <2>1. DOMAIN W = 1 .. Len(W)
    BY <1>1, LenProperties
  <2>2. D[Len(D)] = W[Len(W)]
    BY <1>6, <1>7
  <2>3. (\A i \in 1 .. Len(D) : D[i] # "NL") <=> \A i \in 1 .. Len(W) : W[i] # "NL"
    <3>1. ASSUME \A i \in 1 .. Len(D) : D[i] # "NL", NEW j \in 1 .. Len(W)
          PROVE  W[j] # "NL"
      <4>1. 4 + c + j \in 1 .. Len(D)
        BY <1>6, <1>7
      <4> QED
        BY <1>7, <3>1, <4>1
    <3>2. ASSUME \A j \in 1 .. Len(W) : W[j] # "NL", NEW i \in 1 .. Len(D)
          PROVE  D[i] # "NL"
      <4>1. CASE i \in 1 .. 4 + c
        BY <1>9, <4>1
      <4>2. CASE ~(i \in 1 .. 4 + c)
        <5>1. i - 4 - c \in 1 .. Len(W) /\ 4 + c + (i - 4 - c) = i
          BY <1>6, <1>7, <4>2
        <5> QED
          BY <1>7, <3>2, <5>1
      <4> QED
        BY <4>1, <4>2
    <3> QED
      BY <3>1, <3>2
  <2> QED
    BY <1>12, <2>1, <2>2, <2>3 DEF Holds
<1> DEFINE s == SubSeq(D, 1, r)
           x == SubSeq(s, 5, Len(s))
<1>14. /\ s \in Seq(Token) /\ Len(s) = r /\ \A i \in 1 .. r : s[i] = D[i]
       /\ r \in Nat /\ r >= 8 + c /\ r <= Len(D)
  <2>1. r \in Nat /\ r >= 8 + c /\ r <= Len(D)
    BY <1>1, <1>6, <1>11 DEF h
  <2>2. \A i \in 1 .. r : D[i] \in Token
    BY <1>1, <1>11, <2>1, ElementOfSeq, SMTT(60)
  <2>3. 1 \in Int /\ r \in Int
    BY <2>1
  <2>4. /\ s \in Seq(Token) /\ Len(s) = IF 1 <= r THEN r - 1 + 1 ELSE 0
        /\ \A i \in 1 .. r - 1 + 1 : s[i] = D[1 + i - 1]
    BY <2>2, <2>3, SubSeqProperties
  <2> HIDE DEF s
  <2>5. Len(s) = r /\ \A i \in 1 .. r : s[i] = D[i]
    BY <1>6, <2>1, <2>4
  <2> QED
    BY <2>1, <2>4, <2>5
<1> HIDE DEF s
<1>15. HcsStripSdFromLine(s) = IF r - 4 >= MsgBufLen THEN Malformed
                               ELSE [rc |-> 0, msg |-> x]
  <2>1. Len(s) >= 4 /\ s[1] = Open /\ s[2] = Self[2] /\ s[3] = "sd" /\ s[4] = "]"
    BY <1>6, <1>7, <1>14
  <2>2. HcsStripSdFromLine(s) = IF Len(s) - 4 >= MsgBufLen THEN Malformed
                                ELSE [rc |-> 0, msg |-> SubSeq(s, 5, Len(s))]
    BY <1>14, <2>1, StripOwn
  <2> QED
    BY <1>14, <2>2
<1>16. /\ x \in Seq(Token) /\ Len(x) = r - 4
       /\ \A i \in 1 .. r - 4 : x[i] = D[4 + i]
  <2>1. 5 \in 1 .. Len(s) + 1
    BY <1>6, <1>14
  <2>2. /\ x \in Seq(Token) /\ Len(x) = Len(s) - 5 + 1
        /\ \A i \in 1 .. Len(s) - 5 + 1 : x[i] = s[5 + i - 1]
    BY <1>14, <2>1, Suffix
  <2> HIDE DEF x
  <2>3. Len(x) = r - 4
    BY <1>14, <2>2
  <2>4. ASSUME NEW i \in 1 .. r - 4 PROVE x[i] = D[4 + i]
    <3>1. i \in 1 .. Len(s) - 5 + 1 /\ 5 + i - 1 = 4 + i /\ 4 + i \in 1 .. r
      BY <1>14
    <3> QED
      BY <1>14, <2>2, <3>1
  <2> QED
    BY <2>2, <2>3, <2>4
<1> HIDE DEF x
<1>17. ReadLine(line) = s
  BY <1>1, <1>12 DEF s
<1>18. Transparent <=> /\ r = Len(D) /\ r - 4 < MsgBufLen
                       /\ embedded \/ ~Occurs(W, Cert)
  <2>1. Len(D) = Len(sd) + Len(msg)
    BY <1>1
  <2> QED
    BY <1>13, <2>1 DEF Transparent
<1>19. CASE r - 4 >= MsgBufLen
  <2>1. HcsStripSdFromLine(s) = Malformed
    BY <1>15, <1>19
  <2>2. ProcessLine(s).clean = FALSE
    BY <2>1 DEF ProcessLine, Malformed
  <2>3. ~(r - 4 < MsgBufLen)
    BY <1>2, <1>14, <1>19
  <2>4. ProcessLine(s) # [clean |-> TRUE, payload |-> W]
    BY <2>2
  <2> QED
    BY <1>17, <1>18, <2>3, <2>4
<1>20. CASE ~(r - 4 >= MsgBufLen)
  <2>1. HcsStripSdFromLine(s) = [rc |-> 0, msg |-> x]
    BY <1>15, <1>20
  <2> DEFINE z == HcsExtractAndStripCertSd(x)
  <2>2. ProcessLine(s) = IF z.rc = -1 THEN [clean |-> FALSE, payload |-> x]
                         ELSE [clean |-> TRUE, payload |-> z.msg]
    BY <2>1 DEF ProcessLine
  <2> HIDE DEF z
  <2>rec. ASSUME NEW a, NEW b
          PROVE  [clean |-> TRUE, payload |-> a] = [clean |-> TRUE, payload |-> b]
                     <=> a = b
    <3> DEFINE u == [clean |-> TRUE, payload |-> a]
               v == [clean |-> TRUE, payload |-> b]
    <3>1. u.payload = a /\ v.payload = b
      OBVIOUS
    <3>2. u = v => a = b
      <4> HIDE DEF u, v
      <4> QED
        BY <3>1
    <3>3. a = b => u = v
      OBVIOUS
    <3> QED
      BY <3>2, <3>3
  <2>3. r - 4 < MsgBufLen
    BY <1>2, <1>14, <1>20
  <2>4. ASSUME NEW y \in Seq(Token), Len(y) = r - 4 - c,
               \A i \in 1 .. r - 4 - c : y[i] = D[4 + c + i]
        PROVE  y = W <=> r = Len(D)
    <3>1. ASSUME y = W PROVE r = Len(D)
      BY <1>6, <1>7, <1>14, <2>4, <3>1
    <3>2. ASSUME r = Len(D) PROVE y = W
      <4>1. Len(y) = Len(W) /\ r - 4 - c = Len(W)
        BY <1>6, <1>7, <2>4, <3>2
      <4>2. \A i \in 1 .. Len(y) : y[i] = W[i]
        BY <1>7, <2>4, <4>1
      <4> QED
        BY <1>1, <2>4, <4>1, <4>2, SeqEqual
    <3> QED
      BY <3>1, <3>2
  <2>5. CASE embedded
    <3> DEFINE y == SubSeq(x, 8, Len(x))
    <3>1. c = 7 /\ \A i \in 1 .. 7 : C[i] = HcsFormatSdCert[i]
      BY <1>3, <2>5 DEF C
    <3>2. Len(x) >= 7 /\ 8 \in 1 .. Len(x) + 1
      BY <1>14, <1>16, <3>1
    <3>3. \A i \in 1 .. 7 : x[i] = HcsFormatSdCert[i]
      BY <1>7, <1>14, <1>16, <3>1, SMTT(60)
    <3>4. z = [rc |-> 1, msg |-> y]
      BY <1>16, <3>2, <3>3, ExtractOwn DEF z
    <3>5. /\ y \in Seq(Token) /\ Len(y) = Len(x) - 8 + 1
          /\ \A i \in 1 .. Len(x) - 8 + 1 : y[i] = x[8 + i - 1]
      BY <1>16, <3>2, Suffix
    <3> HIDE DEF y
    <3>6. Len(y) = r - 4 - c
      BY <1>14, <1>16, <3>1, <3>5
    <3>7. ASSUME NEW i \in 1 .. r - 4 - c PROVE y[i] = D[4 + c + i]
      <4>1. /\ i \in 1 .. Len(x) - 8 + 1 /\ 8 + i - 1 = 7 + i
            /\ 7 + i \in 1 .. r - 4 /\ 4 + (7 + i) = 4 + c + i
        BY <1>14, <1>16, <3>1
      <4>2. y[i] = x[7 + i] /\ x[7 + i] = D[4 + (7 + i)]
        BY <1>16, <3>5, <4>1
      <4> QED
        BY <4>1, <4>2
    <3>8. y = W <=> r = Len(D)
      BY <2>4, <3>5, <3>6, <3>7
    <3>9. ProcessLine(s) = [clean |-> TRUE, payload |-> y]
      BY <2>2, <3>4
    <3>10. ProcessLine(s) = [clean |-> TRUE, payload |-> W] <=> y = W
      BY <2>rec, <3>9
    <3> QED
      BY <1>17, <1>18, <2>3, <2>5, <3>8, <3>10
  <2>6. CASE ~embedded
    <3>1. c = 0
      BY <1>3, <2>6 DEF C
    <3>2. Len(x) = r - 4 - c /\ \A i \in 1 .. r - 4 - c : x[i] = D[4 + c + i]
      BY <1>14, <1>16, <3>1
    <3>3. x = W <=> r = Len(D)
      BY <1>16, <2>4, <3>2
    <3>4. Len(x) <= Len(W) /\ Len(x) \in Nat
          /\ \A i \in 1 .. Len(x) : x[i] = W[i] /\ i \in 1 .. Len(W)
      BY <1>6, <1>7, <1>14, <1>16, <3>1
    <3>5. DOMAIN W = 1 .. Len(W)
      BY <1>1, LenProperties
    <3>6. CASE ~Occurs(x, Cert)
      <4>1. z = [rc |-> 0, msg |-> x]
        BY <1>16, <3>6, ExtractOther DEF z
      <4>2. ProcessLine(s) = [clean |-> TRUE, payload |-> x]
        BY <2>2, <4>1
      <4>3. ProcessLine(s) = [clean |-> TRUE, payload |-> W] <=> x = W
        BY <2>rec, <4>2
      <4>4. x = W => ~Occurs(W, Cert)
        BY <3>6
      <4> QED
        BY <1>17, <1>18, <2>3, <2>6, <3>3, <4>3, <4>4
    <3>7. CASE Occurs(x, Cert)
      <4>1. Occurs(W, Cert)
        <5>1. DOMAIN x = 1 .. Len(x)
          BY <1>16, LenProperties
        <5>2. PICK i \in 1 .. Len(x) : At(x, Cert, i)
          BY <3>7, <5>1, Zenon DEF Occurs
        <5>3. i < Len(x) /\ x[i] = Cert[1] /\ x[i + 1] = Cert[2]
          BY <5>2 DEF At
        <5>4. i + 1 \in 1 .. Len(x) /\ i < Len(W)
          BY <1>6, <3>4, <5>3
        <5>5. W[i] = Cert[1] /\ W[i + 1] = Cert[2] /\ i \in 1 .. Len(W)
          BY <3>4, <5>3, <5>4
        <5>6. At(W, Cert, i)
          BY <5>4, <5>5 DEF At
        <5> QED
          BY <3>5, <5>5, <5>6, Zenon DEF Occurs
      <4>2. z = Malformed \/ (z.rc = 1 /\ Len(z.msg) < Len(x))
        BY <1>16, <3>7, ExtractOther DEF z
      <4>3. ProcessLine(s) # [clean |-> TRUE, payload |-> W]
        <5>1. CASE z = Malformed
          <6>1. ProcessLine(s).clean = FALSE
            BY <2>2, <5>1 DEF Malformed
          <6> QED
            BY <6>1
        <5>2. CASE z.rc = 1 /\ Len(z.msg) < Len(x)
          <6>1. ProcessLine(s).payload = z.msg
            BY <2>2, <5>2
          <6>2. Len(z.msg) # Len(W)
            BY <1>6, <3>4, <5>2
          <6> QED
            BY <6>1, <6>2
        <5> QED
          BY <4>2, <5>1, <5>2
      <4> QED
        BY <1>17, <1>18, <2>6, <4>1, <4>3
    <3> QED
      BY <3>6, <3>7
  <2> QED
    BY <1>2, <2>5, <2>6
<1> QED
  BY <1>19, <1>20

(* For every message, any number of relays and every buffer length: the      *)
(* verifier reads back what was signed exactly if the line is Transparent    *)
(* (verifier.c, hcs_strip_sd_from_line, hcs_extract_and_strip_cert_sd).      *)
THEOREM VerifierReadsBack == TextSpec => []ReadsBackExactly
<1>1. TextTypeOK /\ TextInv => ReadsBackExactly
  BY ReadsBackNow
<1>2. TextSpec => []TextTypeOK
  BY TextTypeInvariant
<1>3. TextSpec => []TextInv
  BY SignedMessageShape
<1> QED
  BY <1>1, <1>2, <1>3, PTL
=============================================================================

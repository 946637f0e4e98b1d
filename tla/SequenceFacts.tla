---------------------------- MODULE SequenceFacts ----------------------------
(***************************************************************************)
(* What the proofs need of loops.  A loop of the code is a fold or a       *)
(* recursive function over a sequence; here is why such a definition has a *)
(* value, and what the value is one element further on.  Induction is over *)
(* a set of numbers, so that nothing below takes an operator.              *)
(***************************************************************************)
EXTENDS Subsequence, Integers, SequencesExt, SequenceTheorems, WellFoundedInduction,
        TLAPS

-----------------------------------------------------------------------------
(* Induction. *)

\* A set of numbers has a least one.
LEMMA LeastNumber ==
  ASSUME NEW T, T \subseteq Nat, T # {}
  PROVE  \E x \in T : \A y \in T : x <= y
<1> DEFINE R == {ss \in Nat \X Nat : ss[1] < ss[2]}
<1>1. IsWellFoundedOn(R, Nat)
  BY NatLessThanWellFounded, Zenon DEF OpToRel
<1> HIDE DEF R
<1>2. PICK x \in T : \A y \in T : ~(<<y, x>> \in R)
  BY <1>1, WFMin, Zenon
<1>3. ASSUME NEW y \in T PROVE x <= y
  <2>1. x \in Nat /\ y \in Nat /\ <<y, x>> \notin R
    BY <1>2
  <2>2. ~(y < x)
    BY <2>1 DEF R
  <2> QED
    BY <2>1, <2>2
<1> QED
  BY <1>3

(* A set that holds 0 and, with a number, the next one holds every number. *)
LEMMA SetInduction ==
  ASSUME NEW S, 0 \in S, \A n \in Nat : n \in S => n + 1 \in S
  PROVE  Nat \subseteq S
<1> DEFINE T == Nat \ S
<1> SUFFICES ASSUME T # {} PROVE FALSE
  OBVIOUS
<1>1. PICK x \in T : \A y \in T : x <= y
  BY LeastNumber
<1>2. x \in Nat \ {0} /\ x - 1 \in Nat
  BY <1>1
<1>3. x - 1 \notin T
  BY <1>1, <1>2
<1>4. (x - 1) + 1 \in S
  BY <1>2, <1>3
<1> QED
  BY <1>1, <1>2, <1>4

(* Every number up to a bound: the form a walk through a sequence needs. *)
LEMMA PrefixInduction ==
  ASSUME NEW n \in Nat, NEW S, 0 \in S, \A k \in 0..(n - 1) : k \in S => k + 1 \in S
  PROVE  0..n \subseteq S
<1> DEFINE T == {k \in Nat : k <= n => k \in S}
<1>1. 0 \in T
  OBVIOUS
<1>2. ASSUME NEW k \in Nat, k \in T PROVE k + 1 \in T
  BY <1>2
<1> HIDE DEF T
<1>3. Nat \subseteq T
  BY <1>1, <1>2, SetInduction
<1> QED
  BY <1>3 DEF T

-----------------------------------------------------------------------------
(* Recursive definitions. *)

(* A function that each step of a loop gives its next value. *)
IsLoop(h, n, D, base, step) ==
  /\ h \in [0..n -> D]
  /\ h[0] = base
  /\ \A k \in 1..n : h[k] = step[<<h[k - 1], k>>]

\* A loop has a value at each place.
LEMMA Iteration ==
  ASSUME NEW n \in Nat, NEW D, NEW base \in D, NEW step \in [D \X (1..n) -> D]
  PROVE  \E h : IsLoop(h, n, D, base, step)
<1> DEFINE Runs(k, h) == h[0] = base /\ \A i \in 1..k : h[i] = step[<<h[i - 1], i>>]
           S == {k \in 0..n : \E h \in [0..k -> D] : Runs(k, h)}
<1>1. 0 \in S
  <2> DEFINE h == [i \in 0..0 |-> base]
  <2>1. h \in [0..0 -> D] /\ Runs(0, h)
    OBVIOUS
  <2>2. \E g \in [0..0 -> D] : Runs(0, g)
    BY <2>1
  <2> HIDE DEF Runs
  <2> QED
    BY <2>2
<1>2. ASSUME NEW k \in 0..(n - 1), k \in S PROVE k + 1 \in S
  <2>1. PICK h \in [0..k -> D] : Runs(k, h)
    BY <1>2
  <2> DEFINE g == [i \in 0..(k + 1) |-> IF i = k + 1 THEN step[<<h[k], k + 1>>] ELSE h[i]]
  <2>2. k + 1 \in 1..n /\ k \in 0..k /\ <<h[k], k + 1>> \in D \X (1..n)
    OBVIOUS
  <2>3. g \in [0..(k + 1) -> D]
    BY <2>2
  <2>4. g[0] = base
    BY <2>1
  <2>5. ASSUME NEW i \in 1..(k + 1) PROVE g[i] = step[<<g[i - 1], i>>]
    <3>1. CASE i = k + 1
      <4>1. i - 1 = k /\ k # k + 1 /\ k \in 0..(k + 1) /\ i \in 0..(k + 1)
        BY <3>1
      <4>2. g[i - 1] = h[k] /\ g[i] = step[<<h[k], k + 1>>]
        BY <3>1, <4>1
      <4> QED
        BY <3>1, <4>2
    <3>2. CASE i # k + 1
      <4>1. i \in 1..k /\ i - 1 # k + 1 /\ i \in 0..(k + 1) /\ i - 1 \in 0..(k + 1)
        BY <3>2
      <4>2. g[i] = h[i] /\ g[i - 1] = h[i - 1]
        BY <3>2, <4>1
      <4> QED
        BY <2>1, <4>1, <4>2
    <3> QED
      BY <3>1, <3>2
  <2> HIDE DEF g
  <2>6. \E f \in [0..(k + 1) -> D] : Runs(k + 1, f)
    BY <2>3, <2>4, <2>5
  <2> HIDE DEF Runs
  <2> QED
    BY <2>2, <2>6
<1> HIDE DEF S
<1>3. n \in S
  BY <1>1, <1>2, PrefixInduction
<1>4. PICK h \in [0..n -> D] : Runs(n, h)
  BY <1>3 DEF S
<1>5. IsLoop(h, n, D, base, step)
  BY <1>4 DEF IsLoop
<1> QED
  BY <1>5

(* The last of some places. *)
LEMMA LastExists ==
  ASSUME NEW n \in Nat, NEW s \in SUBSET (0..n), s # {}
  PROVE  Max(s) \in s /\ \A y \in s : y <= Max(s)
<1> DEFINE S == {k \in 0..n : \A t \in SUBSET (0..k) : t # {} => \E x \in t : \A y \in t : y <= x}
<1>1. 0 \in S
  <2>1. ASSUME NEW t \in SUBSET (0..0), t # {}
        PROVE  \E x \in t : \A y \in t : y <= x
    <3>1. PICK x \in t : TRUE
      BY <2>1
    <3>2. \A y \in t : y = 0
      OBVIOUS
    <3>3. x = 0 /\ \A y \in t : y <= x
      BY <3>2
    <3> QED
      BY <3>3
  <2>2. 0 \in 0..n
    OBVIOUS
  <2> QED
    BY <2>1, <2>2, Zenon
<1>2. ASSUME NEW k \in 0..(n - 1), k \in S PROVE k + 1 \in S
  <2> SUFFICES ASSUME NEW t \in SUBSET (0..(k + 1)), t # {}
               PROVE  \E x \in t : \A y \in t : y <= x
    OBVIOUS
  <2>1. CASE k + 1 \in t
    BY <2>1
  <2>2. CASE k + 1 \notin t
    <3>1. t \in SUBSET (0..k)
      BY <2>2
    <3> QED
      BY <1>2, <3>1
  <2> QED
    BY <2>1, <2>2
<1> HIDE DEF S
<1>3. n \in S
  BY <1>1, <1>2, PrefixInduction
<1>4. PICK x \in s : \A y \in s : y <= x
  BY <1>3 DEF S
<1>5. \A y \in s : x >= y
  BY <1>4
<1> QED
  BY <1>5 DEF Max

\* The last place is the only one that no other exceeds.
LEMMA LastIs ==
  ASSUME NEW n \in Nat, NEW s \in SUBSET (0..n), NEW x \in s, \A y \in s : y <= x
  PROVE  Max(s) = x
<1> DEFINE m == Max(s)
<1>1. m \in s /\ \A y \in s : y <= m
  BY LastExists
<1> HIDE DEF m
<1>2. m \in 0..n /\ x \in 0..n /\ m <= x /\ x <= m
  BY <1>1
<1>3. m = x
  BY <1>2
<1> QED
  BY <1>3 DEF m

(* The function that FoldLeft is defined by exists: one value for each set of places, *)
(* the value without the last of them and a step more.                                *)
IsFoldMap(g, n, D, base, step) ==
  /\ g \in [SUBSET (1..n) -> D]
  /\ \A s \in SUBSET (1..n) :
       g[s] = IF s = {} THEN base ELSE step[<<g[s \ {Max(s)}], Max(s)>>]

LEMMA FoldMap ==
  ASSUME NEW n \in Nat, NEW D, NEW base \in D, NEW step \in [D \X (1..n) -> D]
  PROVE  \E g : IsFoldMap(g, n, D, base, step)
<1> DEFINE Eq(k, g) ==
             \A s \in SUBSET (1..k) :
               g[s] = IF s = {} THEN base ELSE step[<<g[s \ {Max(s)}], Max(s)>>]
           S == {k \in 0..n : \E g \in [SUBSET (1..k) -> D] : Eq(k, g)}
<1>1. 0 \in S
  <2> DEFINE g == [s \in SUBSET (1..0) |-> base]
  <2>1. g \in [SUBSET (1..0) -> D]
    OBVIOUS
  <2>2. Eq(0, g)
    OBVIOUS
  <2> HIDE DEF g, Eq
  <2>3. 0 \in 0..n /\ \E f \in [SUBSET (1..0) -> D] : Eq(0, f)
    BY <2>1, <2>2
  <2> QED
    BY <2>3, Zenon
<1>2. ASSUME NEW k \in 0..(n - 1), k \in S PROVE k + 1 \in S
  <2>1. PICK g \in [SUBSET (1..k) -> D] : Eq(k, g)
    BY <1>2
  <2> DEFINE h == [s \in SUBSET (1..(k + 1)) |->
                     IF k + 1 \in s THEN step[<<g[s \ {k + 1}], k + 1>>] ELSE g[s]]
  <2>2. ASSUME NEW s \in SUBSET (1..(k + 1)), k + 1 \in s
        PROVE  /\ s \ {k + 1} \in SUBSET (1..k)
               /\ Max(s) = k + 1
               /\ h[s] = step[<<g[s \ {k + 1}], k + 1>>]
               /\ h[s \ {k + 1}] = g[s \ {k + 1}]
    <3>1. s \in SUBSET (0..(k + 1)) /\ k + 1 \in Nat /\ \A y \in s : y <= k + 1
      OBVIOUS
    <3>3. Max(s) = k + 1
      BY <2>2, <3>1, LastIs
    <3> QED
      BY <2>2, <3>3
  <2>3. ASSUME NEW s \in SUBSET (1..(k + 1)), k + 1 \notin s
        PROVE  s \in SUBSET (1..k) /\ h[s] = g[s]
    BY <2>3
  <2>4. h \in [SUBSET (1..(k + 1)) -> D]
    <3> SUFFICES ASSUME NEW s \in SUBSET (1..(k + 1)) PROVE h[s] \in D
      OBVIOUS
    <3>1. CASE k + 1 \in s
      BY <2>2, <3>1
    <3>2. CASE k + 1 \notin s
      BY <2>3, <3>2
    <3> QED
      BY <3>1, <3>2
  <2>5. Eq(k + 1, h)
    <3> SUFFICES ASSUME NEW s \in SUBSET (1..(k + 1))
                 PROVE  h[s] = IF s = {} THEN base ELSE step[<<h[s \ {Max(s)}], Max(s)>>]
      OBVIOUS
    <3>1. CASE k + 1 \in s
      BY <2>2, <3>1
    <3>2. CASE k + 1 \notin s
      <4>1. s \in SUBSET (1..k) /\ h[s] = g[s]
        BY <2>3, <3>2
      <4>2. CASE s = {}
        BY <2>1, <4>1, <4>2
      <4>3. CASE s # {}
        <5>1. h[s] = step[<<g[s \ {Max(s)}], Max(s)>>]
          BY <2>1, <4>1, <4>3
        <5>2. s \ {Max(s)} \in SUBSET (1..(k + 1)) /\ k + 1 \notin s \ {Max(s)}
          BY <3>2
        <5>3. h[s \ {Max(s)}] = g[s \ {Max(s)}]
          BY <2>3, <5>2
        <5> QED
          BY <5>1, <5>3, <4>3
      <4> QED
        BY <4>2, <4>3
    <3> QED
      BY <3>1, <3>2
  <2> HIDE DEF h, Eq
  <2> QED
    BY <2>4, <2>5
<1> HIDE DEF S
<1>3. n \in S
  BY <1>1, <1>2, PrefixInduction
<1>4. PICK g \in [SUBSET (1..n) -> D] : Eq(n, g)
  BY <1>3 DEF S
<1>5. IsFoldMap(g, n, D, base, step)
  BY <1>4 DEF IsFoldMap
<1> QED
  BY <1>5

\* The last of the first places, and what is left without it.
LEMMA UpTo ==
  ASSUME NEW n \in Nat, NEW k \in 0..(n - 1)
  PROVE  /\ 1..(k + 1) \in SUBSET (1..n) /\ 1..(k + 1) # {}
         /\ Max(1..(k + 1)) = k + 1 /\ (1..(k + 1)) \ {k + 1} = 1..k
<1> DEFINE s == 1..(k + 1)
<1>1. k \in Nat /\ k + 1 <= n
  OBVIOUS
<1>2. s \in SUBSET (0..n) /\ s \in SUBSET (1..n)
  BY <1>1
<1>3. k + 1 \in s /\ \A y \in s : y <= k + 1
  BY <1>1
<1>4. s \ {k + 1} = 1..k
  BY <1>1
<1> HIDE DEF s
<1>5. Max(s) = k + 1
  BY <1>2, <1>3, LastIs
<1> QED
  BY <1>2, <1>3, <1>4, <1>5 DEF s

LEMMA LastOf ==
  ASSUME NEW n \in Nat, NEW s \in SUBSET (1..n), s # {}
  PROVE  Max(s) \in 1..n
<1>1. s \in SUBSET (0..n)
  OBVIOUS
<1>2. Max(s) \in s
  BY <1>1, LastExists
<1> QED
  BY <1>2

\* A function defined like FoldLeft's goes through a sequence from its first element on.
LEMMA FoldLoops ==
  ASSUME NEW n \in Nat, NEW D, NEW base \in D, NEW step \in [D \X (1..n) -> D], NEW f,
         f[{}] = base,
         \A s \in SUBSET (1..n) : s # {} /\ f[s \ {Max(s)}] \in D
                                    => f[s] = step[<<f[s \ {Max(s)}], Max(s)>>]
  PROVE  IsLoop([k \in 0..n |-> f[1..k]], n, D, base, step)
<1> DEFINE h == [k \in 0..n |-> f[1..k]]
           S == {k \in 0..n : \A i \in 0..k : h[i] \in D}
<1>1. h[0] = base
  <2>1. 1..0 = {} /\ 0 \in 0..n
    OBVIOUS
  <2> QED
    BY <2>1
<1>2. ASSUME NEW k \in 0..(n - 1), h[k] \in D
      PROVE  h[k + 1] = step[<<h[k], k + 1>>]
  <2>1. k \in 0..n /\ k + 1 \in 0..n
    OBVIOUS
  <2>2. h[k] = f[1..k] /\ h[k + 1] = f[1..(k + 1)]
    BY <2>1
  <2> DEFINE s == 1..(k + 1)
  <2>3. /\ s \in SUBSET (1..n) /\ s # {}
        /\ Max(s) = k + 1 /\ s \ {k + 1} = 1..k
    BY UpTo
  <2> HIDE DEF s
  <2>4. f[s] = step[<<f[1..k], k + 1>>]
    BY <1>2, <2>2, <2>3
  <2> QED
    BY <2>2, <2>4 DEF s
<1> HIDE DEF h
<1>3. 0 \in S
  BY <1>1
<1>4. ASSUME NEW k \in 0..(n - 1), k \in S PROVE k + 1 \in S
  <2>1. h[k] \in D /\ k + 1 \in 1..n /\ k + 1 \in 0..n
    BY <1>4
  <2>2. h[k + 1] \in D
    BY <1>2, <2>1
  <2>3. \A i \in 0..(k + 1) : i \in 0..k \/ i = k + 1
    OBVIOUS
  <2> QED
    BY <1>4, <2>1, <2>2, <2>3
<1> HIDE DEF S
<1>5. 0..n \subseteq S
  BY <1>3, <1>4, PrefixInduction
<1>6. \A k \in 0..n : h[k] \in D
  <2>1. n \in S
    BY <1>5
  <2> QED
    BY <2>1 DEF S
<1>7. ASSUME NEW k \in 1..n PROVE h[k] = step[<<h[k - 1], k>>]
  <2>1. k - 1 \in 0..(n - 1) /\ k - 1 \in 0..n /\ (k - 1) + 1 = k
    OBVIOUS
  <2> QED
    BY <1>2, <1>6, <2>1
<1>8. h \in [0..n -> D]
  BY <1>6 DEF h
<1> QED
  BY <1>1, <1>7, <1>8 DEF IsLoop, h

\* Two loops of the same step go through the same values.
LEMMA LoopsAgree ==
  ASSUME NEW n \in Nat, NEW m \in Nat, n <= m, NEW D, NEW base, NEW s1, NEW s2, NEW h, NEW g,
         IsLoop(h, n, D, base, s1), IsLoop(g, m, D, base, s2),
         \A d \in D, i \in 1..n : s1[<<d, i>>] = s2[<<d, i>>]
  PROVE  h[n] = g[n]
<1> DEFINE In == {k \in 0..n : h[k] = g[k]}
<1>1. 0 \in In
  BY DEF IsLoop
<1>2. ASSUME NEW k \in 0..(n - 1), k \in In PROVE k + 1 \in In
  <2>1. k + 1 \in 1..n /\ k + 1 \in 1..m /\ k + 1 \in 0..n /\ k \in 0..n /\ (k + 1) - 1 = k
    OBVIOUS
  <2>2. h[k + 1] = s1[<<h[k], k + 1>>] /\ h[k] \in D
    BY <2>1 DEF IsLoop
  <2>3. g[k + 1] = s2[<<g[k], k + 1>>]
    BY <2>1 DEF IsLoop
  <2> QED
    BY <1>2, <2>1, <2>2, <2>3
<1> HIDE DEF In
<1>3. 0..n \subseteq In
  BY <1>1, <1>2, PrefixInduction
<1> QED
  BY <1>3 DEF In


(* Sequences that grow at their end. *)
LEMMA AppendInduction ==
  ASSUME NEW S, NEW T, <<>> \in T,
         \A s \in Seq(S), e \in S : s \in T => Append(s, e) \in T
  PROVE  Seq(S) \subseteq T
<1> DEFINE N == {n \in Nat : \A s \in Seq(S) : Len(s) = n => s \in T}
<1>1. 0 \in N
  <2>1. \A s \in Seq(S) : Len(s) = 0 => s = <<>>
    OBVIOUS
  <2> QED
    BY <2>1
<1>2. ASSUME NEW n \in Nat, n \in N PROVE n + 1 \in N
  <2> SUFFICES ASSUME NEW s \in Seq(S), Len(s) = n + 1 PROVE s \in T
    OBVIOUS
  <2>1. s # <<>>
    OBVIOUS
  <2>2. PICK r \in Seq(S), e \in S : s = Append(r, e)
    BY <2>1, SequenceEmptyOrAppend
  <2>3. Len(r) = n
    BY <2>2
  <2> QED
    BY <1>2, <2>2, <2>3
<1> HIDE DEF N
<1>3. Nat \subseteq N
  BY <1>1, <1>2, SetInduction
<1> QED
  BY <1>3 DEF N

(* A sequence is its front and its rest. *)
LEMMA SplitAt ==
  ASSUME NEW S, NEW t \in Seq(S), NEW cut \in 0..Len(t)
  PROVE  /\ SubSeq(t, 1, cut) \in Seq(S) /\ SubSeq(t, cut + 1, Len(t)) \in Seq(S)
         /\ t = SubSeq(t, 1, cut) \o SubSeq(t, cut + 1, Len(t))
<1>1. SubSeq(t, 1, cut) \o SubSeq(t, cut + 1, Len(t)) = SubSeq(t, 1, Len(t))
  <2>1. 1 \in 1..(Len(t) + 1) /\ cut \in (1 - 1)..Len(t) /\ Len(t) \in cut..Len(t)
    OBVIOUS
  <2> QED
    BY <2>1, ConcatAdjacentSubSeq, Zenon
<1>2. SubSeq(t, 1, Len(t)) = t
  BY SubSeqFull
<1>3. SubSeq(t, 1, cut) \in Seq(S) /\ SubSeq(t, cut + 1, Len(t)) \in Seq(S)
  BY SubSeqProperties
<1> QED
  BY <1>1, <1>2, <1>3

-----------------------------------------------------------------------------
(* Sequences of sequences, end to end. *)

(* Any function that FlattenSeq may be defined by runs through the sequences. *)
LEMMA FlattenRuns ==
  ASSUME NEW S, NEW ss \in Seq(Seq(S)), ss # <<>>
  PROVE  \E f \in [1..Len(ss) -> Seq(S)] :
           /\ FlattenSeq(ss) = f[Len(ss)]
           /\ \A i \in 1..Len(ss) : f[i] = IF i = 1 THEN ss[i] ELSE f[i - 1] \o ss[i]
<1> DEFINE n == Len(ss)
           step == [p \in Seq(S) \X (1..n) |-> p[1] \o ss[p[2]]]
<1>1. n \in Nat /\ n # 0 /\ \A i \in 1..n : ss[i] \in Seq(S)
  OBVIOUS
<1>2. step \in [Seq(S) \X (1..n) -> Seq(S)] /\ <<>> \in Seq(S)
  BY <1>1
<1> HIDE DEF n
<1>3. PICK h : IsLoop(h, n, Seq(S), <<>>, step)
  <2> HIDE DEF step
  <2> QED
    BY <1>1, <1>2, Iteration
<1> USE <1>3 DEF IsLoop
<1> DEFINE Eq(f) == f = [i \in 1..n |-> IF i = 1 THEN ss[i] ELSE f[i - 1] \o ss[i]]
           hh == [i \in 1..n |-> h[i]]
           ff == CHOOSE f : Eq(f)
<1>4. ASSUME NEW i \in 1..n PROVE h[i] = h[i - 1] \o ss[i]
  <2>1. h[i - 1] \in Seq(S) /\ <<h[i - 1], i>> \in Seq(S) \X (1..n)
    <3>1. i - 1 \in 0..n
      BY <1>1
    <3> QED
      BY <3>1
  <2>2. step[<<h[i - 1], i>>] = h[i - 1] \o ss[i]
    <3> DEFINE p == h[i - 1]
    <3> HIDE DEF p
    <3>1. p \in Seq(S)
      BY <2>1 DEF p
    <3>2. step[<<p, i>>] = p \o ss[i]
      BY <3>1
    <3> QED
      BY <3>2 DEF p
  <2> QED
    BY <2>2
<1>5. \A i \in 1..n : hh[i] = IF i = 1 THEN ss[i] ELSE hh[i - 1] \o ss[i]
  <2> TAKE i \in 1..n
  <2>1. CASE i = 1
    <3>1. h[1] = h[0] \o ss[1]
      <4>1. 1 \in 1..n /\ 1 - 1 = 0
        BY <1>1
      <4>2. h[1] = h[1 - 1] \o ss[1]
        BY <1>4, <4>1
      <4> QED
        BY <4>1, <4>2
    <3>2. h[1] = ss[1]
      BY <1>1, <2>1, <3>1
    <3> QED
      BY <1>1, <2>1, <3>2
  <2>2. CASE i # 1
    <3>1. i \in 1..n /\ i - 1 \in 1..n
      BY <1>1, <2>2
    <3>2. hh[i] = h[i] /\ hh[i - 1] = h[i - 1]
      BY <3>1
    <3> QED
      BY <1>4, <2>2, <3>2
  <2> QED
    BY <2>1, <2>2
<1>6. Eq(hh)
  BY <1>5
<1> HIDE DEF hh
<1>7. Eq(ff)
  <2> HIDE DEF Eq
  <2> QED
    BY <1>6
<1>8. FlattenSeq(ss) = ff[n]
  BY <1>1 DEF FlattenSeq, n
<1> HIDE DEF ff
<1>9. \A i \in 1..n : ff[i] = IF i = 1 THEN ss[i] ELSE ff[i - 1] \o ss[i]
  BY <1>7
<1>10. \A i \in 1..n : ff[i] \in Seq(S)
  <2> DEFINE T == {k \in 0..n : k # 0 => ff[k] \in Seq(S)}
  <2>1. 0 \in T
    BY <1>1
  <2>2. ASSUME NEW k \in 0..(n - 1), k \in T PROVE k + 1 \in T
    <3>1. k + 1 \in 1..n /\ (k + 1) - 1 = k
      BY <1>1
    <3>2. ff[k + 1] = IF k + 1 = 1 THEN ss[k + 1] ELSE ff[k] \o ss[k + 1]
      BY <1>9, <3>1
    <3>3. ff[k + 1] \in Seq(S)
      <4>1. CASE k = 0
        BY <1>1, <3>1, <3>2, <4>1
      <4>2. CASE k # 0
        <5>1. ff[k] \in Seq(S) /\ ss[k + 1] \in Seq(S) /\ k + 1 # 1
          BY <1>1, <2>2, <3>1, <4>2
        <5> QED
          BY <3>2, <5>1
      <4> QED
        BY <4>1, <4>2
    <3> QED
      BY <1>1, <3>1, <3>3
  <2> HIDE DEF T
  <2>3. 0..n \subseteq T
    BY <1>1, <2>1, <2>2, PrefixInduction
  <2> QED
    BY <1>1, <2>3 DEF T
<1>11. ff \in [1..n -> Seq(S)]
  BY <1>7, <1>10
<1> QED
  BY <1>8, <1>9, <1>11 DEF n

LEMMA FlattenNone == FlattenSeq(<<>>) = <<>>
BY DEF FlattenSeq

\* The elements of sequences end to end are theirs.
LEMMA FlattenType ==
  ASSUME NEW S, NEW ss \in Seq(Seq(S))
  PROVE  FlattenSeq(ss) \in Seq(S)
<1>1. CASE ss = <<>>
  <2>1. FlattenSeq(ss) = <<>>
    BY <1>1, FlattenNone
  <2> QED
    BY <2>1
<1>2. CASE ss # <<>>
  <2>1. Len(ss) \in 1..Len(ss)
    BY <1>2
  <2> QED
    BY <1>2, <2>1, FlattenRuns
<1> QED
  BY <1>1, <1>2

(* One sequence more is that much more at the end. *)
LEMMA FlattenAppend ==
  ASSUME NEW S, NEW ss \in Seq(Seq(S)), NEW x \in Seq(S)
  PROVE  FlattenSeq(Append(ss, x)) = FlattenSeq(ss) \o x
<1> DEFINE n  == Len(ss)
           tt == Append(ss, x)
<1>1. /\ n \in Nat /\ tt \in Seq(Seq(S)) /\ tt # <<>> /\ Len(tt) = n + 1
      /\ tt[n + 1] = x /\ \A i \in 1..n : tt[i] = ss[i]
  <2> DEFINE D == Seq(S)
  <2>1. ss \in Seq(D) /\ x \in D
    OBVIOUS
  <2> HIDE DEF D
  <2>2. n \in Nat /\ tt \in Seq(D) /\ Len(tt) = n + 1
    BY <2>1
  <2>3. tt[n + 1] = x /\ \A i \in 1..n : tt[i] = ss[i]
    BY <2>1
  <2>4. tt # <<>>
    BY <2>2
  <2> QED
    BY <2>2, <2>3, <2>4 DEF D
<1> HIDE DEF tt
<1>2. PICK g \in [1..Len(tt) -> Seq(S)] :
        /\ FlattenSeq(tt) = g[Len(tt)]
        /\ \A i \in 1..Len(tt) : g[i] = IF i = 1 THEN tt[i] ELSE g[i - 1] \o tt[i]
  BY <1>1, FlattenRuns, ZenonT(30)
<1>3. CASE ss = <<>>
  <2>1. n = 0 /\ FlattenSeq(tt) = x
    BY <1>1, <1>2, <1>3
  <2> QED
    BY <1>3, <2>1, FlattenNone DEF tt
<1>4. CASE ss # <<>>
  <2>1. PICK f \in [1..n -> Seq(S)] :
          /\ FlattenSeq(ss) = f[n]
          /\ \A i \in 1..n : f[i] = IF i = 1 THEN ss[i] ELSE f[i - 1] \o ss[i]
    BY <1>4, FlattenRuns
  <2>2. n # 0
    BY <1>4
  <2> HIDE DEF n
  <2> DEFINE T == {k \in 0..n : k # 0 => f[k] = g[k]}
  <2>3. 0 \in T
    BY <1>1
  <2>4. ASSUME NEW k \in 0..(n - 1), k \in T PROVE k + 1 \in T
    <3>1. k + 1 \in 1..n /\ k + 1 \in 1..Len(tt) /\ (k + 1) - 1 = k /\ tt[k + 1] = ss[k + 1]
      BY <1>1
    <3>2. /\ f[k + 1] = IF k + 1 = 1 THEN ss[k + 1] ELSE f[k] \o ss[k + 1]
          /\ g[k + 1] = IF k + 1 = 1 THEN ss[k + 1] ELSE g[k] \o ss[k + 1]
      BY <1>2, <2>1, <3>1
    <3>3. k + 1 # 1 => f[k] = g[k]
      BY <2>4
    <3> QED
      BY <3>1, <3>2, <3>3
  <2> HIDE DEF T
  <2>5. 0..n \subseteq T
    BY <1>1, <2>3, <2>4, PrefixInduction
  <2>6. f[n] = g[n]
    BY <1>1, <2>2, <2>5 DEF T
  <2>7. g[n + 1] = g[n] \o x
    <3>1. n + 1 \in 1..Len(tt) /\ n + 1 # 1 /\ (n + 1) - 1 = n
      BY <1>1, <2>2
    <3> QED
      BY <1>1, <1>2, <3>1
  <2> QED
    BY <1>1, <1>2, <2>1, <2>6, <2>7 DEF tt
<1> QED
  BY <1>3, <1>4

-----------------------------------------------------------------------------
(* The members of a set that a sequence holds. *)

OnlyRun(f, D, t, S) ==
  /\ f \in [0..Len(t) -> Seq(D)]
  /\ f[0] = <<>>
  /\ \A i \in 1..Len(t) : f[i] = IF t[i] \in S THEN Append(f[i - 1], t[i]) ELSE f[i - 1]

\* Only runs through a sequence and keeps the members.
LEMMA OnlyRuns ==
  ASSUME NEW D, NEW t \in Seq(D), NEW S
  PROVE  \E f : OnlyRun(f, D, t, S) /\ Only(t, S) = f[Len(t)]
<1> DEFINE n == Len(t)
           step == [p \in Seq(D) \X (1..n) |->
                      IF t[p[2]] \in S THEN Append(p[1], t[p[2]]) ELSE p[1]]
<1>1. n \in Nat /\ \A i \in 1..n : t[i] \in D
  OBVIOUS
<1>2. step \in [Seq(D) \X (1..n) -> Seq(D)] /\ <<>> \in Seq(D)
  BY <1>1
<1> HIDE DEF n
<1>3. PICK h : IsLoop(h, n, Seq(D), <<>>, step)
  <2> HIDE DEF step
  <2> QED
    BY <1>1, <1>2, Iteration
<1> DEFINE Eq(f) == f = [i \in 0..n |->
                           IF i = 0 THEN <<>>
                           ELSE IF t[i] \in S THEN Append(f[i - 1], t[i]) ELSE f[i - 1]]
           ff == CHOOSE f : Eq(f)
<1>4. h \in [0..n -> Seq(D)] /\ h[0] = <<>>
  BY <1>3 DEF IsLoop
<1>5. ASSUME NEW i \in 1..n
      PROVE  h[i] = IF t[i] \in S THEN Append(h[i - 1], t[i]) ELSE h[i - 1]
  <2>1. i - 1 \in 0..n
    BY <1>1
  <2>2. h[i - 1] \in Seq(D) /\ <<h[i - 1], i>> \in Seq(D) \X (1..n)
    BY <1>4, <2>1
  <2>3. h[i] = step[<<h[i - 1], i>>]
    BY <1>3, Zenon DEF IsLoop
  <2> QED
    BY <2>2, <2>3
<1>6. Eq(h)
  <2>1. ASSUME NEW i \in 0..n
        PROVE  h[i] = IF i = 0 THEN <<>>
                      ELSE IF t[i] \in S THEN Append(h[i - 1], t[i]) ELSE h[i - 1]
    <3>1. CASE i = 0
      BY <1>4, <3>1
    <3>2. CASE i # 0
      <4>1. i \in 1..n
        BY <1>1, <3>2
      <4> QED
        BY <1>5, <3>2, <4>1, Zenon
    <3> QED
      BY <3>1, <3>2
  <2> QED
    BY <1>4, <2>1
<1>7. Eq(ff)
  <2> HIDE DEF Eq
  <2> QED
    BY <1>6
<1>8. Only(t, S) = ff[n]
  BY Zenon DEF Only, n
<1> HIDE DEF ff
<1>9. ff[0] = <<>>
      /\ \A i \in 1..n : ff[i] = IF t[i] \in S THEN Append(ff[i - 1], t[i]) ELSE ff[i - 1]
  <2>1. 0 \in 0..n /\ \A i \in 1..n : i \in 0..n /\ i # 0
    BY <1>1
  <2>2. \A i \in 0..n : ff[i] = IF i = 0 THEN <<>>
                                ELSE IF t[i] \in S THEN Append(ff[i - 1], t[i]) ELSE ff[i - 1]
    BY <1>7, Zenon
  <2> QED
    BY <2>1, <2>2, Zenon
<1>10. \A i \in 0..n : ff[i] \in Seq(D)
  <2> DEFINE T == {k \in 0..n : ff[k] \in Seq(D)}
  <2>1. 0 \in T
    <3>1. 0 \in 0..n /\ <<>> \in Seq(D)
      BY <1>1
    <3> QED
      BY <1>9, <3>1, Zenon
  <2>2. ASSUME NEW k \in 0..(n - 1), k \in T PROVE k + 1 \in T
    <3>1. k + 1 \in 1..n /\ (k + 1) - 1 = k /\ k + 1 \in 0..n
      BY <1>1
    <3>2. ff[k + 1] = IF t[k + 1] \in S THEN Append(ff[k], t[k + 1]) ELSE ff[k]
      BY <1>9, <3>1
    <3>3. ff[k] \in Seq(D) /\ t[k + 1] \in D
      BY <1>1, <2>2, <3>1
    <3>4. ff[k + 1] \in Seq(D)
      <4>1. Append(ff[k], t[k + 1]) \in Seq(D)
        BY <3>3, AppendProperties
      <4> QED
        BY <3>2, <3>3, <4>1, Zenon
    <3> QED
      BY <3>1, <3>4, Zenon
  <2> HIDE DEF T
  <2>3. 0..n \subseteq T
    BY <1>1, <2>1, <2>2, PrefixInduction
  <2> QED
    BY <2>3 DEF T
<1>11. ff \in [0..n -> Seq(D)]
  BY <1>7, <1>10
<1>12. OnlyRun(ff, D, t, S)
  BY <1>9, <1>11 DEF OnlyRun, n
<1> QED
  BY <1>8, <1>12 DEF n

LEMMA OnlyNil == ASSUME NEW S PROVE Only(<<>>, S) = <<>>
<1>1. <<>> \in Seq({}) /\ Len(<<>>) = 0
  OBVIOUS
<1>2. PICK f : OnlyRun(f, {}, <<>>, S) /\ Only(<<>>, S) = f[Len(<<>>)]
  BY <1>1, OnlyRuns
<1> QED
  BY <1>1, <1>2 DEF OnlyRun

LEMMA OnlyType == ASSUME NEW D, NEW t \in Seq(D), NEW S PROVE Only(t, S) \in Seq(D)
<1>1. PICK f : OnlyRun(f, D, t, S) /\ Only(t, S) = f[Len(t)]
  BY OnlyRuns
<1>2. Len(t) \in 0..Len(t)
  OBVIOUS
<1> QED
  BY <1>1, <1>2 DEF OnlyRun

\* One element more.
LEMMA OnlyAppend ==
  ASSUME NEW D, NEW t \in Seq(D), NEW x \in D, NEW S
  PROVE  Only(Append(t, x), S) = IF x \in S THEN Append(Only(t, S), x) ELSE Only(t, S)
<1> DEFINE n == Len(t)
           u == Append(t, x)
<1>1. /\ n \in Nat /\ u \in Seq(D) /\ Len(u) = n + 1 /\ u[n + 1] = x
      /\ \A i \in 1..n : u[i] = t[i]
  OBVIOUS
<1> HIDE DEF u
<1>2. PICK f : OnlyRun(f, D, t, S) /\ Only(t, S) = f[Len(t)]
  BY OnlyRuns
<1>3. PICK g : OnlyRun(g, D, u, S) /\ Only(u, S) = g[Len(u)]
  BY <1>1, OnlyRuns
<1>9. /\ f[0] = <<>> /\ g[0] = <<>>
      /\ \A i \in 1..n : f[i] = IF t[i] \in S THEN Append(f[i - 1], t[i]) ELSE f[i - 1]
      /\ \A i \in 1..Len(u) : g[i] = IF u[i] \in S THEN Append(g[i - 1], u[i]) ELSE g[i - 1]
  BY <1>2, <1>3, Zenon DEF OnlyRun
<1>10. Only(t, S) = f[n]
  BY <1>2
<1> HIDE DEF n
<1> DEFINE T == {k \in 0..n : f[k] = g[k]}
<1>4. 0 \in T
  BY <1>1, <1>9
<1>5. ASSUME NEW k \in 0..(n - 1), k \in T PROVE k + 1 \in T
  <2>1. k + 1 \in 1..n /\ k + 1 \in 1..Len(u) /\ (k + 1) - 1 = k
    BY <1>1
  <2>3. u[k + 1] = t[k + 1]
    BY <1>1, <2>1, Zenon
  <2>2. /\ f[k + 1] = IF t[k + 1] \in S THEN Append(f[k], t[k + 1]) ELSE f[k]
        /\ g[k + 1] = IF t[k + 1] \in S THEN Append(g[k], t[k + 1]) ELSE g[k]
    BY <1>9, <2>1, <2>3
  <2> QED
    BY <1>5, <2>1, <2>2
<1> HIDE DEF T
<1>6. 0..n \subseteq T
  BY <1>1, <1>4, <1>5, PrefixInduction
<1>7. f[n] = g[n]
  BY <1>1, <1>6 DEF T
<1>8. g[n + 1] = IF x \in S THEN Append(g[n], x) ELSE g[n]
  <2>1. n + 1 \in 1..Len(u) /\ (n + 1) - 1 = n
    BY <1>1
  <2> QED
    BY <1>1, <1>9, <2>1
<1> QED
  BY <1>1, <1>3, <1>7, <1>8, <1>10 DEF u

\* Only goes through two sequences one after the other.
LEMMA OnlyConcat ==
  ASSUME NEW D, NEW t \in Seq(D), NEW u \in Seq(D), NEW S
  PROVE  Only(t \o u, S) = Only(t, S) \o Only(u, S)
<1> DEFINE T == {v \in Seq(D) : Only(t \o v, S) = Only(t, S) \o Only(v, S)}
<1>1. <<>> \in T
  <2>1. t \o <<>> = t /\ Only(t, S) \o <<>> = Only(t, S) /\ <<>> \in Seq(D)
    BY OnlyType, ConcatEmptySeq
  <2>2. Only(<<>>, S) = <<>>
    BY OnlyNil
  <2> QED
    BY <2>1, <2>2
<1>2. ASSUME NEW v \in Seq(D), NEW e \in D, v \in T PROVE Append(v, e) \in T
  <2> DEFINE a == Only(t, S)
             b == Only(v, S)
  <2>1. a \in Seq(D) /\ b \in Seq(D) /\ t \o v \in Seq(D) /\ Append(v, e) \in Seq(D)
    BY OnlyType
  <2>2. t \o Append(v, e) = Append(t \o v, e)
    OBVIOUS
  <2>3. Only(Append(t \o v, e), S) = IF e \in S THEN Append(Only(t \o v, S), e) ELSE Only(t \o v, S)
    BY <2>1, OnlyAppend
  <2>4. Only(Append(v, e), S) = IF e \in S THEN Append(b, e) ELSE b
    BY OnlyAppend
  <2>5. Only(t \o v, S) = a \o b
    BY <1>2
  <2> HIDE DEF a, b
  <2>6. Append(a \o b, e) = a \o Append(b, e)
    <3>1. a \o b \in Seq(D)
      BY <2>1, ConcatProperties
    <3>2. <<e>> \in Seq(D)
      OBVIOUS
    <3> DEFINE ab == a \o b
               ee == <<e>>
    <3>3. Append(ab, e) = ab \o ee
      <4> HIDE DEF ab
      <4> QED
        BY <3>1, AppendIsConcat DEF ab
    <3>4. Append(b, e) = b \o ee
      BY <2>1, AppendIsConcat
    <3>5. ab \o ee = a \o (b \o ee)
      <4> HIDE DEF ee
      <4> QED
        <5>1. a \in Seq(D) /\ b \in Seq(D) /\ ee \in Seq(D)
          BY <2>1, <3>2 DEF ee
        <5> QED
          BY <5>1, ConcatAssociative, SMTT(30)
    <3> QED
      BY <3>3, <3>4, <3>5
  <2>7. Only(t \o Append(v, e), S) = a \o Only(Append(v, e), S)
    BY <2>2, <2>3, <2>4, <2>5, <2>6
  <2> QED
    BY <2>1, <2>7 DEF a
<1> HIDE DEF T
<1>3. Seq(D) \subseteq T
  BY <1>1, <1>2, AppendInduction
<1> QED
  BY <1>3 DEF T

\* Only the members that occur matter.
LEMMA OnlySame ==
  ASSUME NEW D, NEW t \in Seq(D), NEW S, NEW R,
         \A i \in 1..Len(t) : t[i] \in S <=> t[i] \in R
  PROVE  Only(t, S) = Only(t, R)
<1> DEFINE n == Len(t)
<1>1. PICK f : OnlyRun(f, D, t, S) /\ Only(t, S) = f[Len(t)]
  BY OnlyRuns
<1>2. PICK g : OnlyRun(g, D, t, R) /\ Only(t, R) = g[Len(t)]
  BY OnlyRuns
<1>8. n \in Nat
  OBVIOUS
<1>9. /\ f[0] = <<>> /\ g[0] = <<>>
      /\ \A i \in 1..n : f[i] = IF t[i] \in S THEN Append(f[i - 1], t[i]) ELSE f[i - 1]
      /\ \A i \in 1..n : g[i] = IF t[i] \in R THEN Append(g[i - 1], t[i]) ELSE g[i - 1]
  BY <1>1, <1>2, Zenon DEF OnlyRun
<1>3. /\ f[0] = <<>> /\ g[0] = <<>> /\ n \in Nat
      /\ \A i \in 1..n : f[i] = IF t[i] \in S THEN Append(f[i - 1], t[i]) ELSE f[i - 1]
      /\ \A i \in 1..n : g[i] = IF t[i] \in S THEN Append(g[i - 1], t[i]) ELSE g[i - 1]
  BY <1>8, <1>9
<1>4. Only(t, S) = f[n] /\ Only(t, R) = g[n]
  BY <1>1, <1>2
<1> HIDE DEF n
<1> DEFINE T == {k \in 0..n : f[k] = g[k]}
<1>5. 0 \in T
  BY <1>3
<1>6. ASSUME NEW k \in 0..(n - 1), k \in T PROVE k + 1 \in T
  <2>1. k + 1 \in 1..n /\ (k + 1) - 1 = k
    BY <1>3
  <2>2. /\ f[k + 1] = IF t[k + 1] \in S THEN Append(f[k], t[k + 1]) ELSE f[k]
        /\ g[k + 1] = IF t[k + 1] \in S THEN Append(g[k], t[k + 1]) ELSE g[k]
    BY <1>3, <2>1
  <2> QED
    BY <1>6, <2>1, <2>2
<1> HIDE DEF T
<1>7. 0..n \subseteq T
  BY <1>3, <1>5, <1>6, PrefixInduction
<1> QED
  BY <1>3, <1>4, <1>7 DEF T

\* q tells where each of the members v was in t: in order, and none is left out.
Places(q, v, t, S) ==
  /\ q \in [1..Len(v) -> 1..Len(t)]
  /\ \A k \in 1..Len(v) : v[k] = t[q[k]] /\ t[q[k]] \in S
  /\ \A k, l \in 1..Len(v) : k < l => q[k] < q[l]
  /\ \A i \in 1..Len(t) : t[i] \in S => \E k \in 1..Len(v) : q[k] = i

\* v is what t holds of S.
Holds(v, t, S) == \E q : Places(q, v, t, S)

\* What Only returns is what the sequence holds of the set, in order.
LEMMA OnlyPlaces ==
  ASSUME NEW D, NEW t \in Seq(D), NEW S
  PROVE  Holds(Only(t, S), t, S)
<1> DEFINE T == {u \in Seq(D) : Holds(Only(u, S), u, S)}
<1>1. <<>> \in T
  <2> DEFINE none == <<>>
  <2>1. Only(none, S) = none /\ Len(none) = 0 /\ none \in Seq(D)
    BY OnlyNil
  <2>2. none \in [1..0 -> 1..0]
    OBVIOUS
  <2>3. Places(none, none, none, S)
    BY <2>1, <2>2 DEF Places
  <2> QED
    BY <2>1, <2>3 DEF Holds
<1>2. ASSUME NEW u \in Seq(D), NEW e \in D, u \in T PROVE Append(u, e) \in T
  <2> DEFINE m == Append(u, e)
             v == Only(u, S)
             w == Only(m, S)
  <2>1. PICK q : Places(q, v, u, S)
    BY <1>2 DEF Holds
  <2>2. /\ m \in Seq(D) /\ Len(m) = Len(u) + 1 /\ m[Len(u) + 1] = e /\ Len(u) \in Nat
        /\ \A i \in 1..Len(u) : m[i] = u[i]
    OBVIOUS
  <2>3. v \in Seq(D) /\ Len(v) \in Nat
    BY OnlyType
  <2>4. w = IF e \in S THEN Append(v, e) ELSE v
    BY OnlyAppend
  <2> HIDE DEF m, v, w
  <2>5. CASE e \notin S
    <3>1. w = v
      BY <2>4, <2>5
    <3>2. q \in [1..Len(v) -> 1..Len(m)]
      BY <2>1, <2>2 DEF Places
    <3>3. \A k \in 1..Len(v) : v[k] = m[q[k]] /\ m[q[k]] \in S
      BY <2>1, <2>2 DEF Places
    <3>4. \A k, l \in 1..Len(v) : k < l => q[k] < q[l]
      BY <2>1 DEF Places
    <3>5. \A i \in 1..Len(m) : m[i] \in S => \E k \in 1..Len(v) : q[k] = i
      BY <2>1, <2>2, <2>5 DEF Places
    <3>6. Places(q, w, m, S)
      BY <3>1, <3>2, <3>3, <3>4, <3>5, Zenon DEF Places
    <3> QED
      BY <2>2, <3>6 DEF Holds, m, w
  <2>6. CASE e \in S
    <3> DEFINE r == [k \in 1..(Len(v) + 1) |-> IF k = Len(v) + 1 THEN Len(u) + 1 ELSE q[k]]
    <3>1. /\ Len(w) = Len(v) + 1 /\ w[Len(v) + 1] = e
          /\ \A k \in 1..Len(v) : w[k] = v[k]
      BY <2>3, <2>4, <2>6
    <3>2. r \in [1..Len(w) -> 1..Len(m)]
      BY <2>1, <2>2, <2>3, <3>1 DEF Places
    <3>3. r[Len(v) + 1] = Len(u) + 1 /\ \A k \in 1..Len(v) : r[k] = q[k]
      BY <2>3
    <3> HIDE DEF r
    <3>4. \A k \in 1..Len(w) : w[k] = m[r[k]] /\ m[r[k]] \in S
      <4> TAKE k \in 1..Len(w)
      <4>1. CASE k = Len(v) + 1
        <5>1. w[k] = e /\ m[r[k]] = e
          BY <2>2, <3>1, <3>3, <4>1
        <5> QED
          BY <2>6, <5>1
      <4>2. CASE k \in 1..Len(v)
        BY <2>1, <2>2, <3>1, <3>3, <4>2 DEF Places
      <4> QED
        BY <2>3, <3>1, <4>1, <4>2
    <3>5. \A k, l \in 1..Len(w) : k < l => r[k] < r[l]
      <4> TAKE k, l \in 1..Len(w)
      <4> HAVE k < l
      <4>1. k \in 1..Len(v) /\ r[k] = q[k] /\ q[k] \in 1..Len(u)
        <5>1. k \in 1..Len(v)
          BY <2>3, <3>1
        <5> QED
          BY <2>1, <3>3, <5>1 DEF Places
      <4>2. CASE l = Len(v) + 1
        BY <2>2, <3>3, <4>1, <4>2
      <4>3. CASE l \in 1..Len(v)
        <5>1. \A a, b \in 1..Len(v) : a < b => q[a] < q[b]
          BY <2>1 DEF Places
        <5>2. q[k] < q[l] /\ r[l] = q[l]
          BY <3>3, <4>1, <4>3, <5>1
        <5> QED
          BY <4>1, <5>2
      <4>4. l = Len(v) + 1 \/ l \in 1..Len(v)
        BY <2>3, <3>1
      <4> QED
        BY <4>2, <4>3, <4>4
    <3>6. \A i \in 1..Len(m) : m[i] \in S => \E k \in 1..Len(w) : r[k] = i
      <4> TAKE i \in 1..Len(m)
      <4> HAVE m[i] \in S
      <4>1. CASE i = Len(u) + 1
        BY <2>3, <3>1, <3>3, <4>1
      <4>2. CASE i \in 1..Len(u)
        <5>1. PICK k \in 1..Len(v) : q[k] = i
          BY <2>1, <2>2, <4>2 DEF Places
        <5>2. k \in 1..Len(w) /\ r[k] = i
          BY <2>3, <3>1, <3>3, <5>1
        <5> QED
          BY <5>2
      <4> QED
        BY <2>2, <4>1, <4>2
    <3>7. Places(r, w, m, S)
      BY <3>2, <3>4, <3>5, <3>6 DEF Places
    <3> QED
      BY <2>2, <3>7 DEF Holds, m, w
  <2> QED
    BY <2>5, <2>6
<1> HIDE DEF T
<1>3. Seq(D) \subseteq T
  BY <1>1, <1>2, AppendInduction
<1> QED
  BY <1>3 DEF T

\* A sequence over a set is one over a larger set.
LEMMA SeqWidens ==
  ASSUME NEW S, NEW T, S \subseteq T, NEW s \in Seq(S)
  PROVE  s \in Seq(T)
<1>1. Len(s) \in Nat /\ s = [i \in 1..Len(s) |-> s[i]] /\ \A i \in 1..Len(s) : s[i] \in T
  OBVIOUS
<1> QED
  BY <1>1

\* The front of a sequence that got one element more.
LEMMA FrontOfAppend ==
  ASSUME NEW S, NEW s \in Seq(S), NEW x \in S
  PROVE  Front(Append(s, x)) = s
<1> DEFINE q == Append(s, x)
<1>1. /\ q \in Seq(S) /\ Len(q) = Len(s) + 1 /\ Len(s) \in Nat
      /\ \A i \in 1..Len(s) : q[i] = s[i]
  BY AppendProperties
<1> HIDE DEF q
<1>2. Front(q) = SubSeq(q, 1, Len(s))
  <2>1. Len(q) - 1 = Len(s)
    BY <1>1
  <2> QED
    BY <2>1 DEF Front
<1>3. Front(q) = [i \in 1..Len(s) |-> q[i]]
  <2>1. SubSeq(q, 1, Len(s)) = [i \in 1..Len(s) |-> q[i]]
    BY <1>1
  <2> QED
    BY <1>2, <2>1
<1>4. s = [i \in 1..Len(s) |-> s[i]]
  OBVIOUS
<1> QED
  BY <1>1, <1>3, <1>4 DEF q
=============================================================================

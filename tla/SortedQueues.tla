----------------------------- MODULE SortedQueues -----------------------------
(***************************************************************************)
(* Facts about queues whose elements increase from head to end, as the     *)
(* frame ids in the ring buffer of ReadyFrameQueue and in FrameHistory do: *)
(* what taking, appending and removing elements does to them.              *)
(***************************************************************************)
EXTENDS FrameHistory, Integers, SequencesExt, WellFoundedInduction, TLAPS

Sorted(s) == \A i, j \in DOMAIN s : i < j => s[i] < s[j]

\* What Append returns.
LEMMA AppendElement ==
  ASSUME NEW S, NEW s \in Seq(S), NEW x \in S
  PROVE  /\ Append(s, x) \in Seq(S)
         /\ Len(s) \in Nat /\ Len(Append(s, x)) = Len(s) + 1
         /\ \A i \in 1..Len(s) : Append(s, x)[i] = s[i]
         /\ Append(s, x)[Len(s) + 1] = x
         /\ ToSet(Append(s, x)) = ToSet(s) \cup {x}
<1> DEFINE t == Append(s, x)
<1>1. /\ t \in Seq(S) /\ Len(t) = Len(s) + 1 /\ Len(s) \in Nat
      /\ \A i \in 1..Len(s) : t[i] = s[i]
      /\ t[Len(s) + 1] = x
      /\ DOMAIN t = 1..(Len(s) + 1) /\ DOMAIN s = 1..Len(s)
  OBVIOUS
<1> HIDE DEF t
<1>2. ToSet(t) \subseteq ToSet(s) \cup {x}
  <2>1. ASSUME NEW i \in DOMAIN t PROVE t[i] \in ToSet(s) \cup {x}
    <3>1. CASE i = Len(s) + 1
      BY <1>1, <3>1
    <3>2. CASE i # Len(s) + 1
      <4>1. i \in DOMAIN s /\ t[i] = s[i]
        BY <1>1, <3>2
      <4> QED BY <4>1 DEF ToSet
    <3> QED BY <3>1, <3>2
  <2> QED BY <2>1 DEF ToSet
<1>3. ToSet(s) \cup {x} \subseteq ToSet(t)
  BY <1>1 DEF ToSet
<1> QED BY <1>1, <1>2, <1>3 DEF t

\* An element larger than all in the queue is put behind them.
LEMMA AppendNewer ==
  ASSUME NEW S \in SUBSET Int, NEW s \in Seq(S), NEW x \in S, Sorted(s),
         \A y \in ToSet(s) : y < x
  PROVE  Sorted(Append(s, x))
<1> DEFINE t == Append(s, x)
<1>1. /\ Len(s) \in Nat /\ DOMAIN s = 1..Len(s) /\ DOMAIN t = 1..(Len(s) + 1)
      /\ \A i \in 1..Len(s) : t[i] = s[i]
      /\ t[Len(s) + 1] = x
  OBVIOUS
<1>2. \A i \in 1..Len(s) : s[i] \in ToSet(s)
  BY <1>1 DEF ToSet
<1> HIDE DEF t
<1> SUFFICES ASSUME NEW i \in DOMAIN t, NEW j \in DOMAIN t, i < j
             PROVE  t[i] < t[j]
  BY DEF Sorted, t
<1>3. i \in 1..Len(s)
  BY <1>1
<1>4. CASE j = Len(s) + 1
  BY <1>1, <1>2, <1>3, <1>4
<1>5. CASE j # Len(s) + 1
  <2>1. j \in 1..Len(s)
    BY <1>1, <1>5
  <2> QED BY <1>1, <1>3, <2>1 DEF Sorted
<1> QED BY <1>4, <1>5

\* The head of a sorted queue is smaller than what stays behind it.
LEMMA TakeHead ==
  ASSUME NEW S \in SUBSET Int, NEW s \in Seq(S), s # <<>>, Sorted(s)
  PROVE  /\ Head(s) \in S /\ Tail(s) \in Seq(S)
         /\ ToSet(s) = {Head(s)} \cup ToSet(Tail(s))
         /\ \A w \in ToSet(Tail(s)) : Head(s) < w
         /\ Sorted(Tail(s))
<1> DEFINE t == Tail(s)
<1>1. /\ Len(s) \in Nat \ {0} /\ Head(s) = s[1] /\ Head(s) \in S
      /\ t \in Seq(S) /\ Len(t) = Len(s) - 1
      /\ \A i \in 1..Len(t) : t[i] = s[i + 1]
      /\ DOMAIN t = 1..(Len(s) - 1) /\ DOMAIN s = 1..Len(s)
  OBVIOUS
<1> HIDE DEF t
<1>2. \A i \in 1..Len(t) : s[i + 1] > s[1] /\ i + 1 \in DOMAIN s /\ s[i + 1] \in Int
  <2> SUFFICES ASSUME NEW i \in 1..Len(t)
               PROVE  s[i + 1] > s[1] /\ i + 1 \in DOMAIN s /\ s[i + 1] \in Int
    OBVIOUS
  <2>1. i + 1 \in 1..Len(s) /\ 1 \in 1..Len(s) /\ 1 < i + 1
    BY <1>1
  <2>2. s[1] \in S /\ s[i + 1] \in S
    BY <2>1
  <2>3. s[1] < s[i + 1]
    BY <1>1, <2>1 DEF Sorted
  <2> QED BY <1>1, <2>1, <2>2, <2>3
<1>3. ToSet(s) = {s[1]} \cup ToSet(t)
  <2>1. ASSUME NEW i \in DOMAIN s PROVE s[i] \in {s[1]} \cup ToSet(t)
    <3>1. CASE i = 1
      BY <3>1
    <3>2. CASE i # 1
      <4>1. i - 1 \in DOMAIN t /\ t[i - 1] = s[i]
        BY <1>1, <2>1, <3>2
      <4> QED BY <4>1 DEF ToSet
    <3> QED BY <3>1, <3>2
  <2>2. s[1] \in ToSet(s)
    BY <1>1 DEF ToSet
  <2>3. ASSUME NEW i \in DOMAIN t PROVE t[i] \in ToSet(s)
    <3>1. t[i] = s[i + 1] /\ i + 1 \in DOMAIN s
      BY <1>1, <1>2, <2>3
    <3> QED BY <3>1 DEF ToSet
  <2> QED BY <2>1, <2>2, <2>3 DEF ToSet
<1>4. \A w \in ToSet(t) : s[1] < w
  BY <1>1, <1>2 DEF ToSet
<1>5. Sorted(t)
  <2> SUFFICES ASSUME NEW i \in DOMAIN t, NEW j \in DOMAIN t, i < j
               PROVE  t[i] < t[j]
    BY DEF Sorted
  <2>1. i + 1 \in DOMAIN s /\ j + 1 \in DOMAIN s /\ i + 1 < j + 1
    BY <1>1
  <2>2. s[i + 1] < s[j + 1]
    BY <2>1 DEF Sorted
  <2> QED BY <1>1, <2>2
<1> QED BY <1>1, <1>3, <1>4, <1>5 DEF t

\* What stays when the head is taken, whatever the order.
LEMMA TailElement ==
  ASSUME NEW S, NEW s \in Seq(S), s # <<>>
  PROVE  /\ 1 \in DOMAIN s /\ Head(s) = s[1] /\ Head(s) \in S
         /\ Tail(s) \in Seq(S)
         /\ \A i \in DOMAIN Tail(s) : i + 1 \in DOMAIN s /\ Tail(s)[i] = s[i + 1]
         /\ \A i \in DOMAIN s : i # 1 => i - 1 \in DOMAIN Tail(s) /\ Tail(s)[i - 1] = s[i]
<1> DEFINE t == Tail(s)
<1>1. /\ Len(s) \in Nat \ {0} /\ Head(s) = s[1] /\ Head(s) \in S
      /\ t \in Seq(S) /\ Len(t) = Len(s) - 1
      /\ \A i \in 1..Len(t) : t[i] = s[i + 1]
      /\ DOMAIN t = 1..(Len(s) - 1) /\ DOMAIN s = 1..Len(s)
  OBVIOUS
<1> HIDE DEF t
<1>2. ASSUME NEW i \in DOMAIN t PROVE i + 1 \in DOMAIN s /\ t[i] = s[i + 1]
  BY <1>1
<1>3. ASSUME NEW i \in DOMAIN s, i # 1 PROVE i - 1 \in DOMAIN t /\ t[i - 1] = s[i]
  BY <1>1, <1>3
<1> QED BY <1>1, <1>2, <1>3 DEF t

\* The end of a sorted queue is its largest element.
LEMMA LastIsLargest ==
  ASSUME NEW S \in SUBSET Int, NEW s \in Seq(S), s # <<>>, Sorted(s)
  PROVE  /\ Last(s) \in ToSet(s) /\ Last(s) \in S
         /\ \A y \in ToSet(s) : y <= Last(s)
<1>1. Len(s) \in Nat \ {0} /\ DOMAIN s = 1..Len(s) /\ Last(s) = s[Len(s)]
  BY DEF Last
<1>2. \A i \in DOMAIN s : s[i] \in S /\ s[i] \in Int /\ s[i] \in ToSet(s)
  <2>1. \A i \in DOMAIN s : s[i] \in S
    OBVIOUS
  <2>2. \A i \in DOMAIN s : s[i] \in ToSet(s)
    BY Zenon DEF ToSet
  <2> QED BY <2>1, <2>2
<1>3. Last(s) \in ToSet(s) /\ Last(s) \in S /\ Last(s) \in Int
  BY <1>1, <1>2
<1>4. ASSUME NEW i \in DOMAIN s PROVE s[i] <= Last(s)
  <2>1. CASE i = Len(s)
    BY <1>1, <1>3, <2>1
  <2>2. CASE i # Len(s)
    <3>1. i < Len(s) /\ Len(s) \in DOMAIN s
      BY <1>1, <2>2
    <3>2. s[i] < s[Len(s)]
      BY <3>1 DEF Sorted
    <3> QED BY <1>1, <1>2, <1>3, <3>2
  <2> QED BY <2>1, <2>2
<1> QED BY <1>3, <1>4 DEF ToSet

-----------------------------------------------------------------------------
(* Induction                                                               *)

\* A nonempty set of numbers has a least element.
LEMMA LeastElement ==
  ASSUME NEW T \in SUBSET Nat, T # {}
  PROVE  \E x \in T : \A y \in T : x <= y
<1>1. IsWellFoundedOn(OpToRel(<, Nat), Nat)
  BY NatLessThanWellFounded, Zenon
<1>2. PICK x \in T : \A y \in T : ~(<<y, x>> \in OpToRel(<, Nat))
  BY <1>1, WFMin, Zenon
<1>3. \A y \in T : ~ (y < x)
  BY <1>2 DEF OpToRel
<1> QED BY <1>3

\* Induction up to n, over a set rather than a predicate.
LEMMA ReachesAll ==
  ASSUME NEW n \in Nat, NEW T \in SUBSET (0..n), 0 \in T,
         \A i \in 1..n : i - 1 \in T => i \in T
  PROVE  \A i \in 0..n : i \in T
<1> DEFINE rest == (0..n) \ T
<1> SUFFICES ASSUME rest # {} PROVE FALSE
  OBVIOUS
<1>1. rest \in SUBSET Nat
  OBVIOUS
<1>2. PICK i \in rest : \A j \in rest : i <= j
  <2> HIDE DEF rest
  <2> QED BY <1>1, LeastElement
<1>3. i \in 1..n /\ i - 1 \notin rest
  BY <1>2
<1> QED BY <1>2, <1>3

-----------------------------------------------------------------------------
(* Removing elements                                                       *)

\* The ids that Without keeps of the first n, as its recursive function gives them.
KeepsTo(kept, s, V, n) ==
  kept = [i \in 0..n |-> IF i = 0 THEN <<>>
            ELSE IF s[i] \in V THEN kept[i - 1] ELSE Append(kept[i - 1], s[i])]

\* There is such a function, which a recursive definition takes for granted.
LEMMA KeepsExists ==
  ASSUME NEW S, NEW s \in Seq(S), NEW V
  PROVE  \E kept : KeepsTo(kept, s, V, Len(s))
<1> DEFINE T == {n \in 0..Len(s) : \E kept : KeepsTo(kept, s, V, n)}
<1>1. 0 \in T
  <2> DEFINE g == [i \in 0..0 |-> <<>>]
  <2>1. KeepsTo(g, s, V, 0)
    BY DEF KeepsTo
  <2> QED BY <2>1
<1>2. ASSUME NEW n \in 1..Len(s), n - 1 \in T PROVE n \in T
  <2>1. PICK g : KeepsTo(g, s, V, n - 1)
    BY <1>2
  <2> DEFINE h == [i \in 0..n |-> IF i < n THEN g[i]
                     ELSE IF s[n] \in V THEN g[n - 1] ELSE Append(g[n - 1], s[n])]
  <2>2. \A i \in 0..(n - 1) : h[i] = g[i]
    OBVIOUS
  <2>3. h[n] = IF s[n] \in V THEN h[n - 1] ELSE Append(h[n - 1], s[n])
    OBVIOUS
  <2>4. \A i \in 0..(n - 1) : g[i] = IF i = 0 THEN <<>>
            ELSE IF s[i] \in V THEN g[i - 1] ELSE Append(g[i - 1], s[i])
    BY <2>1 DEF KeepsTo
  <2>5. \A i \in 0..n : h[i] = IF i = 0 THEN <<>>
            ELSE IF s[i] \in V THEN h[i - 1] ELSE Append(h[i - 1], s[i])
    <3> SUFFICES ASSUME NEW i \in 0..n
                 PROVE h[i] = IF i = 0 THEN <<>>
                         ELSE IF s[i] \in V THEN h[i - 1] ELSE Append(h[i - 1], s[i])
      OBVIOUS
    <3>1. CASE i = n
      <4>1. n # 0
       OBVIOUS
      <4> HIDE DEF h
      <4> QED BY <2>3, <3>1, <4>1
    <3>2. CASE i # n /\ i # 0
      <4>1. i \in 0..(n - 1) /\ i - 1 \in 0..(n - 1)
        BY <3>2
      <4>2. h[i] = g[i] /\ h[i - 1] = g[i - 1]
        BY <4>1, <2>2
      <4> HIDE DEF h
      <4> QED BY <2>4, <3>2, <4>1, <4>2
    <3>3. CASE i # n /\ i = 0
      <4>1. i \in 0..(n - 1)
        BY <3>3
      <4>2. h[i] = g[i] 
        BY <4>1, <2>2
      <4> HIDE DEF h
      <4> QED BY <2>4, <3>3, <4>1, <4>2
    <3> QED BY <3>1, <3>2, <3>3
  <2>6. DOMAIN h = 0..n /\ h = [i \in DOMAIN h |-> h[i]]
    OBVIOUS
  <2> HIDE DEF h
  <2>7. KeepsTo(h, s, V, n)
    BY <2>5, <2>6 DEF KeepsTo
  <2> QED BY <2>7
<1>3. Len(s) \in Nat /\ T \in SUBSET (0..Len(s))
  OBVIOUS
<1> HIDE DEF T
<1>4. \A n \in 0..Len(s) : n \in T
  BY <1>1, <1>2, <1>3, ReachesAll
<1>5. Len(s) \in T
  BY <1>3, <1>4
<1> QED BY <1>5 DEF T

\* Its values one by one.
LEMMA KeepsPointwise ==
  ASSUME NEW n \in Nat, NEW s, NEW V, NEW kept, KeepsTo(kept, s, V, n)
  PROVE  /\ kept[0] = <<>>
         /\ \A i \in 1..n :
              kept[i] = IF s[i] \in V THEN kept[i - 1] ELSE Append(kept[i - 1], s[i])
<1>1. \A i \in 0..n : kept[i] = IF i = 0 THEN <<>>
        ELSE IF s[i] \in V THEN kept[i - 1] ELSE Append(kept[i - 1], s[i])
  BY DEF KeepsTo
<1> QED BY <1>1

\* Without is its last value.
LEMMA WithoutSteps ==
  ASSUME NEW S, NEW s \in Seq(S), NEW V
  PROVE  \E kept :
           /\ kept[0] = <<>>
           /\ \A i \in 1..Len(s) :
                kept[i] = IF s[i] \in V THEN kept[i - 1] ELSE Append(kept[i - 1], s[i])
           /\ Without(s, V) = kept[Len(s)]
<1> DEFINE F == CHOOSE kept : kept = [i \in 0..Len(s) |->
                  IF i = 0 THEN <<>>
                  ELSE IF s[i] \in V THEN kept[i - 1] ELSE Append(kept[i - 1], s[i])]
<1>1. PICK g : g = [i \in 0..Len(s) |->
                  IF i = 0 THEN <<>>
                  ELSE IF s[i] \in V THEN g[i - 1] ELSE Append(g[i - 1], s[i])]
  <2>1. PICK g : KeepsTo(g, s, V, Len(s))
    BY KeepsExists
  <2> QED BY <2>1, Zenon DEF KeepsTo
<1>2. F = [i \in 0..Len(s) |->
                  IF i = 0 THEN <<>>
                  ELSE IF s[i] \in V THEN F[i - 1] ELSE Append(F[i - 1], s[i])]
  BY <1>1, Zenon
<1>3. Without(s, V) = F[Len(s)]
  BY Zenon DEF Without
<1> HIDE DEF F
<1>4. /\ F[0] = <<>>
      /\ \A i \in 1..Len(s) :
           F[i] = IF s[i] \in V THEN F[i - 1] ELSE Append(F[i - 1], s[i])
  <2>1. KeepsTo(F, s, V, Len(s)) /\ Len(s) \in Nat
    <3>1. KeepsTo(F, s, V, Len(s))
      BY <1>2, Zenon DEF KeepsTo
    <3> QED BY <3>1
  <2> QED BY <2>1, KeepsPointwise
<1> QED BY <1>3, <1>4

\* Without keeps the elements that are not removed, and their order.
LEMMA WithoutElements ==
  ASSUME NEW S \in SUBSET Int, NEW s \in Seq(S), NEW V
  PROVE  /\ Without(s, V) \in Seq(S)
         /\ ToSet(Without(s, V)) = ToSet(s) \ V
         /\ Sorted(s) => Sorted(Without(s, V))
         /\ s # <<>> /\ Last(s) \notin V =>
              Without(s, V) # <<>> /\ Last(Without(s, V)) = Last(s)
<1>1. PICK kept :
        /\ kept[0] = <<>>
        /\ \A i \in 1..Len(s) :
             kept[i] = IF s[i] \in V THEN kept[i - 1] ELSE Append(kept[i - 1], s[i])
        /\ Without(s, V) = kept[Len(s)]
  BY WithoutSteps
<1> DEFINE n == Len(s)
           Until(i) == {s[j] : j \in 1..i}
           Good(i) == /\ kept[i] \in Seq(S)
                      /\ ToSet(kept[i]) = Until(i) \ V
                      /\ Sorted(s) => Sorted(kept[i])
           T == {i \in 0..n : Good(i)}
<1>2. n \in Nat /\ DOMAIN s = 1..n /\ \A i \in 1..n : s[i] \in S
  OBVIOUS
<1>4. \A i \in 1..n : kept[i] = IF s[i] \in V THEN kept[i - 1] ELSE Append(kept[i - 1], s[i])
  BY <1>1
<1>5. 0 \in T
  <2>1. Until(0) = {} /\ 0 \in 0..n
    BY <1>2
  <2>2. <<>> \in Seq(S) /\ ToSet(<<>>) = {} /\ Sorted(<<>>)
    BY DEF ToSet, Sorted
  <2>3. Good(0)
    <3> HIDE DEF Until
    <3> QED BY <1>1, <2>1, <2>2
  <2> HIDE DEF Good
  <2> QED BY <2>1, <2>3
<1>6. ASSUME NEW i \in 1..n, i - 1 \in T PROVE i \in T
  <2>1. Good(i - 1)
    BY <1>6
  <2>2. Until(i) = Until(i - 1) \cup {s[i]}
    OBVIOUS
  <2>3. CASE s[i] \in V
    <3>1. kept[i] = kept[i - 1]
      BY <1>4, <2>3
    <3>2. Until(i) \ V = Until(i - 1) \ V
      BY <2>2, <2>3
    <3> HIDE DEF Until
    <3> QED BY <2>1, <3>1, <3>2
  <2>4. CASE s[i] \notin V
    <3>1. kept[i] = Append(kept[i - 1], s[i]) /\ s[i] \in S
      BY <1>2, <1>4, <2>4
    <3>2. kept[i] \in Seq(S) /\ ToSet(kept[i]) = ToSet(kept[i - 1]) \cup {s[i]}
      BY <2>1, <3>1, AppendElement
    <3>3. Until(i) \ V = (Until(i - 1) \ V) \cup {s[i]}
      BY <2>2, <2>4
    <3>4. ASSUME Sorted(s) PROVE Sorted(kept[i])
      <4>1. \A j \in 1..(i - 1) : s[j] < s[i]
        BY <1>2, <3>4 DEF Sorted
      <4>2. \A y \in ToSet(kept[i - 1]) : y < s[i]
        BY <2>1, <4>1
      <4> QED BY <2>1, <3>1, <3>4, <4>2, AppendNewer
    <3> HIDE DEF Until
    <3> QED BY <2>1, <3>2, <3>3, <3>4
  <2> QED BY <2>3, <2>4
<1>7. T \in SUBSET (0..n)
  OBVIOUS
<1>8. \A i \in 0..n : i \in T
  <2> HIDE DEF T, n
  <2> QED BY <1>2, <1>5, <1>6, <1>7, ReachesAll
<1>9. Good(n)
  BY <1>2, <1>8
<1>10. Until(n) = ToSet(s)
  BY <1>2 DEF ToSet
<1>11. ASSUME s # <<>>, Last(s) \notin V
       PROVE  kept[n] # <<>> /\ Last(kept[n]) = Last(s)
  <2> DEFINE t == kept[n - 1]
  <2>1. n \in 1..n /\ n - 1 \in 0..n /\ Last(s) = s[n] /\ s[n] \in S
    BY <1>2, <1>11 DEF Last
  <2>2. t \in Seq(S)
    BY <1>8, <2>1
  <2>3. kept[n] = Append(t, s[n])
    BY <1>4, <1>11, <2>1
  <2> HIDE DEF t, n
  <2> QED BY <2>1, <2>2, <2>3 DEF Last
<1> QED BY <1>1, <1>9, <1>10, <1>11

\* With nothing to remove, nothing changes.
LEMMA WithoutNone ==
  ASSUME NEW S, NEW s \in Seq(S), NEW V, ToSet(s) \cap V = {}
  PROVE  Without(s, V) = s
<1>1. PICK kept :
        /\ kept[0] = <<>>
        /\ \A i \in 1..Len(s) :
             kept[i] = IF s[i] \in V THEN kept[i - 1] ELSE Append(kept[i - 1], s[i])
        /\ Without(s, V) = kept[Len(s)]
  BY WithoutSteps
<1> DEFINE n == Len(s)
           Good(i) == /\ kept[i] \in Seq(S) /\ Len(kept[i]) = i
                      /\ \A j \in 1..i : kept[i][j] = s[j]
           T == {i \in 0..n : Good(i)}
<1>2. n \in Nat /\ DOMAIN s = 1..n /\ \A i \in 1..n : s[i] \in S /\ s[i] \notin V
  BY DEF ToSet
<1>4. \A i \in 1..n : kept[i] = Append(kept[i - 1], s[i])
  BY <1>1, <1>2
<1>5. 0 \in T
  <2>1. <<>> \in Seq(S) /\ Len(<<>>) = 0 /\ 0 \in 0..n
    BY <1>2
  <2>2. Good(0)
    BY <1>1, <2>1
  <2> HIDE DEF Good
  <2> QED BY <2>1, <2>2
<1>6. ASSUME NEW i \in 1..n, i - 1 \in T PROVE i \in T
  <2> DEFINE t == kept[i - 1]
  <2>1. t \in Seq(S) /\ Len(t) = i - 1 /\ \A j \in 1..(i - 1) : t[j] = s[j]
    BY <1>6
  <2>2. kept[i] = Append(t, s[i]) /\ s[i] \in S
    BY <1>2, <1>4
  <2> HIDE DEF t
  <2>3. /\ kept[i] \in Seq(S) /\ Len(kept[i]) = i /\ kept[i][i] = s[i]
        /\ \A j \in 1..(i - 1) : kept[i][j] = t[j]
    BY <2>1, <2>2
  <2>4. \A j \in 1..i : kept[i][j] = s[j]
    BY <2>1, <2>3
  <2> QED BY <2>3, <2>4
<1>7. T \in SUBSET (0..n)
  OBVIOUS
<1>8. \A i \in 0..n : i \in T
  <2> HIDE DEF T, n
  <2> QED BY <1>2, <1>5, <1>6, <1>7, ReachesAll
<1>9. Good(n)
  BY <1>2, <1>8
<1>10. kept[n] = s
  BY <1>2, <1>9
<1> QED BY <1>1, <1>10

\* Removing one element that occurs once makes the queue one shorter.
LEMMA WithoutOne ==
  ASSUME NEW S, NEW s \in Seq(S), NEW V, NEW m \in DOMAIN s, s[m] \in V,
         \A j \in DOMAIN s : j # m => s[j] \notin V
  PROVE  Len(Without(s, V)) = Len(s) - 1
<1>1. PICK kept :
        /\ kept[0] = <<>>
        /\ \A i \in 1..Len(s) :
             kept[i] = IF s[i] \in V THEN kept[i - 1] ELSE Append(kept[i - 1], s[i])
        /\ Without(s, V) = kept[Len(s)]
  BY WithoutSteps
<1> DEFINE n == Len(s)
           Good(i) == /\ kept[i] \in Seq(S)
                      /\ Len(kept[i]) = IF i < m THEN i ELSE i - 1
           T == {i \in 0..n : Good(i)}
<1>2. n \in Nat /\ DOMAIN s = 1..n /\ m \in 1..n /\ \A i \in 1..n : s[i] \in S
  OBVIOUS
<1>3. 0 \in T
  <2>1. <<>> \in Seq(S) /\ Len(<<>>) = 0 /\ 0 \in 0..n
    BY <1>2
  <2>2. Good(0)
    BY <1>1, <1>2, <2>1
  <2> HIDE DEF Good
  <2> QED BY <2>1, <2>2
<1>4. ASSUME NEW i \in 1..n, i - 1 \in T PROVE i \in T
  <2> DEFINE t == kept[i - 1]
  <2>1. t \in Seq(S) /\ Len(t) = IF i - 1 < m THEN i - 1 ELSE i - 2
    BY <1>4
  <2>2. kept[i] = IF i = m THEN t ELSE Append(t, s[i])
    BY <1>1, <1>2
  <2> HIDE DEF t
  <2>3. kept[i] \in Seq(S) /\ Len(kept[i]) = IF i = m THEN Len(t) ELSE Len(t) + 1
    BY <1>2, <2>1, <2>2
  <2>4. Len(kept[i]) = IF i < m THEN i ELSE i - 1
    BY <1>2, <2>1, <2>3
  <2> QED BY <2>3, <2>4
<1>5. T \in SUBSET (0..n)
  OBVIOUS
<1>6. \A i \in 0..n : i \in T
  <2> HIDE DEF T, n
  <2> QED BY <1>2, <1>3, <1>4, <1>5, ReachesAll
<1>7. Len(kept[n]) = IF n < m THEN n ELSE n - 1
  BY <1>2, <1>6
<1>8. Len(kept[n]) = n - 1
  <2> HIDE DEF n
  <2> QED BY <1>2, <1>7
<1> QED BY <1>1, <1>8
===============================================================================

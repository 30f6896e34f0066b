-------------------------- MODULE IngestionProofs --------------------------
(***************************************************************************)
(* The tick's pipeline and `monitor explain`, for any number of ticks in   *)
(* flight, changes, faults, strategies, intervals and windows.             *)
(*                                                                         *)
(* The two loops over observations, the gate and dispatchNotify, are       *)
(* recursive functions of the model.  What they compute is proved by       *)
(* counting up (CountUp), from a function that satisfies their recursion   *)
(* (FoldExists).                                                           *)
(***************************************************************************)
EXTENDS Explain, FiniteSetTheorems, WellFoundedInduction, TLAPS

-----------------------------------------------------------------------------
(***************************************************************************)
(* Loops.                                                                  *)
(***************************************************************************)

(* What holds before a loop and after each of its n rounds, if it held     *)
(* before that, holds at the end: of the sets 0 .. m with m left out of S, *)
(* a least one would have its last round start in S and end out of it.     *)
LEMMA CountUp ==
    ASSUME NEW n \in Nat, NEW S, 0 \in S,
           \A i \in 1 .. n : i - 1 \in S => i \in S
    PROVE  n \in S
<1> DEFINE Out == {m \in 0 .. n : m \notin S}
           T == {0 .. m : m \in Out}
<1>1. SUFFICES ASSUME Out # {} PROVE FALSE
  OBVIOUS
<1>2. IsFiniteSet(0 .. n)
  BY FS_Interval
<1>3. IsWellFoundedOn(StrictSubsetOrdering(0 .. n), SUBSET (0 .. n))
  BY <1>2, FS_StrictSubsetOrderingWellFounded, FS_FiniteSubsetsOfFinite
<1>4. T \subseteq SUBSET (0 .. n) /\ T # {}
  BY <1>1
<1>5. PICK A \in T : \A B \in T : <<B, A>> \notin StrictSubsetOrdering(0 .. n)
  <2> HIDE DEF T
  <2>1. QED
    BY <1>3, <1>4, WFMin
<1>6. PICK m \in Out : A = 0 .. m
  BY <1>5
<1>7. m \in Nat /\ m <= n /\ m \notin S /\ m # 0 /\ m \in 1 .. n
  BY <1>6
<1>8. m - 1 \in Out
  BY <1>7
<1>9. 0 .. m - 1 \in T
  BY <1>8
<1>10. <<0 .. m - 1, 0 .. m>> \in StrictSubsetOrdering(0 .. n)
  <2>1. 0 .. m - 1 \subseteq 0 .. m /\ 0 .. m \subseteq 0 .. n
    BY <1>7
  <2>2. m \in 0 .. m /\ m \notin 0 .. m - 1
    BY <1>7
  <2>3. QED
    BY <2>1, <2>2 DEF StrictSubsetOrdering
<1>11. QED
  BY <1>5, <1>6, <1>9, <1>10

(* A loop of n rounds over the states A has a run: the states after each   *)
(* round.                                                                  *)
IsLoop(G, n, A) == G \in [(1 .. n) \X A -> A]
IsRun(f, G, n, A, start) ==
    /\ f \in [0 .. n -> A] /\ f[0] = start
    /\ \A i \in 1 .. n : f[i] = G[<<i, f[i - 1]>>]

LEMMA FoldExists ==
    ASSUME NEW n \in Nat, NEW A, NEW start \in A, NEW G, IsLoop(G, n, A)
    PROVE  \E f : IsRun(f, G, n, A, start)
<1> USE DEF IsLoop
<1> DEFINE Good(m, f) == f[0] = start /\ \A i \in 1 .. m : f[i] = G[<<i, f[i - 1]>>]
           Made(m) == \E f \in [0 .. m -> A] : Good(m, f)
           S == {m \in 0 .. n : Made(m)}
<1>1. Made(0)
  <2> DEFINE f == [i \in 0 .. 0 |-> start]
  <2>1. f[0] = start /\ f \in [0 .. 0 -> A] /\ \A i \in 1 .. 0 : FALSE
    OBVIOUS
  <2>2. Good(0, f)
    BY <2>1
  <2>3. QED
    BY <2>1, <2>2
<1>2. ASSUME NEW m \in 1 .. n, Made(m - 1) PROVE Made(m)
  <2>1. PICK f \in [0 .. m - 1 -> A] : Good(m - 1, f)
    BY <1>2
  <2> DEFINE g == [i \in 0 .. m |-> IF i = m THEN G[<<m, f[m - 1]>>] ELSE f[i]]
  <2>2. m \in Nat /\ m - 1 \in 0 .. m - 1 /\ 0 \in 0 .. m - 1
    OBVIOUS
  <2>3. G[<<m, f[m - 1]>>] \in A
    <3>1. f[m - 1] \in A
      BY <2>2
    <3>2. QED
      BY <3>1
  <2>4. \A i \in 0 .. m : i # m => i \in 0 .. m - 1 /\ f[i] \in A
    BY <2>2
  <2>5. g \in [0 .. m -> A]
    BY <2>3, <2>4
  <2>6. ASSUME NEW i \in 1 .. m PROVE g[i] = G[<<i, g[i - 1]>>]
    <3>1. i - 1 \in 0 .. m /\ i - 1 # m /\ i \in 0 .. m
      BY <2>2
    <3>2. g[i - 1] = f[i - 1]
      BY <3>1
    <3>3. CASE i = m
      BY <3>1, <3>2, <3>3
    <3>4. CASE i # m
      <4>1. i \in 1 .. m - 1
        BY <3>4
      <4>2. f[i] = G[<<i, f[i - 1]>>]
        BY <2>1, <4>1
      <4>3. QED
        BY <3>1, <3>2, <3>4, <4>2
    <3>5. QED
      BY <3>3, <3>4
  <2>7. g[0] = start
    <3>1. g[0] = f[0] /\ f[0] = start
      BY <2>1, <2>2
    <3>2. QED
      BY <3>1
  <2>8. Good(m, g)
    BY <2>6, <2>7
  <2>9. QED
    BY <2>5, <2>8
<1> HIDE DEF Made
<1>3. 0 \in S
  BY <1>1
<1>4. \A i \in 1 .. n : i - 1 \in S => i \in S
  BY <1>2
<1>5. n \in S
  <2> HIDE DEF S
  <2>1. QED
    BY <1>3, <1>4, CountUp
<1>6. QED
  BY <1>5 DEF Made, IsRun

-----------------------------------------------------------------------------
(***************************************************************************)
(* Sequences: what is in them, and in which order.  R relates what comes   *)
(* first to what comes later: Earlier for the order of the changes, Differ *)
(* for no change twice.                                                    *)
(***************************************************************************)

Earlier == {p \in Nat \X Nat : p[1] < p[2]}
Differ == {p \in Nat \X Nat : p[1] # p[2]}

Chained(s, R) == \A i, j \in DOMAIN s : i < j => <<s[i], s[j]>> \in R

Symmetric(R) == \A x, y \in Nat : <<x, y>> \in R => <<y, x>> \in R

LEMMA EmptyElements == Elements(<<>>) = {} /\ \A R : Chained(<<>>, R)
BY DEF Elements, Chained

LEMMA ElementsType ==
    ASSUME NEW s \in Seq(Nat)
    PROVE  Elements(s) \subseteq Nat /\ \A i \in DOMAIN s : s[i] \in Elements(s)
BY DEF Elements

LEMMA AppendElements ==
    ASSUME NEW s \in Seq(Nat), NEW v \in Nat
    PROVE  /\ Append(s, v) \in Seq(Nat)
           /\ Elements(Append(s, v)) = Elements(s) \cup {v}
           /\ Append(s, v) # <<>>
<1> DEFINE r == Append(s, v)
<1>1. /\ r \in Seq(Nat) /\ DOMAIN r = 1 .. Len(s) + 1 /\ DOMAIN s = 1 .. Len(s)
      /\ r[Len(s) + 1] = v /\ Len(s) \in Nat
      /\ \A i \in 1 .. Len(s) : r[i] = s[i]
  OBVIOUS
<1> HIDE DEF r
<1>2. \A i \in DOMAIN r : i \in DOMAIN s \/ i = Len(s) + 1
  BY <1>1
<1>3. \A i \in DOMAIN s : i \in DOMAIN r
  BY <1>1
<1>4. Len(s) + 1 \in DOMAIN r
  BY <1>1
<1>5. Elements(r) = Elements(s) \cup {v}
  BY <1>1, <1>2, <1>3, <1>4 DEF Elements
<1>6. r # <<>>
  BY <1>4
<1>7. QED
  BY <1>1, <1>5, <1>6 DEF r

LEMMA ConcatElements ==
    ASSUME NEW s \in Seq(Nat), NEW t \in Seq(Nat)
    PROVE  s \o t \in Seq(Nat) /\ Elements(s \o t) = Elements(s) \cup Elements(t)
<1> DEFINE r == s \o t
<1>1. /\ r \in Seq(Nat) /\ Len(s) \in Nat /\ Len(t) \in Nat
      /\ DOMAIN r = 1 .. Len(s) + Len(t) /\ DOMAIN s = 1 .. Len(s) /\ DOMAIN t = 1 .. Len(t)
      /\ \A i \in 1 .. Len(s) : r[i] = s[i]
      /\ \A i \in 1 .. Len(t) : r[Len(s) + i] = t[i]
  OBVIOUS
<1> HIDE DEF r
<1>2. ASSUME NEW i \in DOMAIN r PROVE r[i] \in Elements(s) \cup Elements(t)
  <2>1. CASE i \in 1 .. Len(s)
    BY <1>1, <2>1 DEF Elements
  <2>2. CASE i \notin 1 .. Len(s)
    <3>1. i - Len(s) \in 1 .. Len(t) /\ Len(s) + (i - Len(s)) = i
      BY <1>1, <2>2
    <3>2. r[i] = t[i - Len(s)]
      BY <1>1, <3>1
    <3>3. QED
      BY <1>1, <3>1, <3>2 DEF Elements
  <2>3. QED
    BY <2>1, <2>2
<1>3. ASSUME NEW i \in DOMAIN s PROVE s[i] \in Elements(r)
  BY <1>1 DEF Elements
<1>4. ASSUME NEW i \in DOMAIN t PROVE t[i] \in Elements(r)
  <2>1. Len(s) + i \in DOMAIN r /\ r[Len(s) + i] = t[i]
    BY <1>1
  <2>2. QED
    BY <2>1 DEF Elements
<1>5. Elements(r) = Elements(s) \cup Elements(t)
  BY <1>2, <1>3, <1>4 DEF Elements
<1>6. QED
  BY <1>1, <1>5 DEF r

LEMMA TailElements ==
    ASSUME NEW s \in Seq(Nat), s # <<>>
    PROVE  /\ Head(s) \in Nat /\ Tail(s) \in Seq(Nat)
           /\ Elements(s) = {Head(s)} \cup Elements(Tail(s))
<1> DEFINE r == Tail(s)
<1>1. /\ r \in Seq(Nat) /\ Len(s) \in Nat /\ Len(s) >= 1 /\ Head(s) = s[1] /\ s[1] \in Nat
      /\ DOMAIN r = 1 .. Len(s) - 1 /\ DOMAIN s = 1 .. Len(s)
      /\ \A i \in 1 .. Len(s) - 1 : r[i] = s[i + 1]
  OBVIOUS
<1> HIDE DEF r
<1>2. ASSUME NEW i \in DOMAIN s PROVE i = 1 \/ s[i] \in Elements(r)
  <2>1. i # 1 => i - 1 \in DOMAIN r /\ r[i - 1] = s[(i - 1) + 1]
    BY <1>1
  <2>2. i # 1 => (i - 1) + 1 = i
    BY <1>1
  <2>3. QED
    BY <2>1, <2>2 DEF Elements
<1>3. ASSUME NEW i \in DOMAIN r PROVE i + 1 \in DOMAIN s /\ r[i] = s[i + 1]
  BY <1>1
<1>4. 1 \in DOMAIN s
  BY <1>1
<1>5. Elements(s) = {s[1]} \cup Elements(r)
  BY <1>2, <1>3, <1>4 DEF Elements
<1>6. QED
  BY <1>1, <1>5 DEF r

LEMMA AppendChains ==
    ASSUME NEW R, NEW s \in Seq(Nat), NEW v \in Nat,
           Chained(s, R), Elements(s) \X {v} \subseteq R
    PROVE  Chained(Append(s, v), R)
<1> DEFINE r == Append(s, v)
<1>1. /\ r \in Seq(Nat) /\ DOMAIN r = 1 .. Len(s) + 1 /\ DOMAIN s = 1 .. Len(s)
      /\ r[Len(s) + 1] = v /\ Len(s) \in Nat
      /\ \A i \in 1 .. Len(s) : r[i] = s[i]
  OBVIOUS
<1> HIDE DEF r
<1>2. SUFFICES ASSUME NEW i \in DOMAIN r, NEW j \in DOMAIN r, i < j
               PROVE  <<r[i], r[j]>> \in R
  BY DEF Chained, r
<1>3. i \in DOMAIN s /\ r[i] = s[i]
  BY <1>1, <1>2
<1>4. CASE j \in DOMAIN s
  BY <1>1, <1>2, <1>3, <1>4 DEF Chained
<1>5. CASE j \notin DOMAIN s
  <2>1. j = Len(s) + 1
    BY <1>1, <1>5
  <2>2. QED
    BY <1>1, <1>3, <2>1 DEF Elements
<1>6. QED
  BY <1>4, <1>5

LEMMA ConcatChains ==
    ASSUME NEW R, NEW s \in Seq(Nat), NEW t \in Seq(Nat),
           Chained(s, R), Chained(t, R), Elements(s) \X Elements(t) \subseteq R
    PROVE  Chained(s \o t, R)
<1> DEFINE r == s \o t
<1>1. /\ r \in Seq(Nat) /\ Len(s) \in Nat /\ Len(t) \in Nat
      /\ DOMAIN r = 1 .. Len(s) + Len(t) /\ DOMAIN s = 1 .. Len(s) /\ DOMAIN t = 1 .. Len(t)
      /\ \A i \in 1 .. Len(s) : r[i] = s[i]
      /\ \A i \in 1 .. Len(t) : r[Len(s) + i] = t[i]
  OBVIOUS
<1> HIDE DEF r
<1>2. SUFFICES ASSUME NEW i \in DOMAIN r, NEW j \in DOMAIN r, i < j
               PROVE  <<r[i], r[j]>> \in R
  BY DEF Chained, r
<1>3. ASSUME NEW k \in DOMAIN r, k \notin DOMAIN s
      PROVE  k - Len(s) \in DOMAIN t /\ r[k] = t[k - Len(s)]
  <2>1. k - Len(s) \in 1 .. Len(t) /\ Len(s) + (k - Len(s)) = k
    BY <1>1, <1>3
  <2>2. QED
    BY <1>1, <2>1
<1>4. CASE j \in DOMAIN s
  <2>1. i \in DOMAIN s
    BY <1>1, <1>2, <1>4
  <2>2. QED
    BY <1>1, <1>2, <1>4, <2>1 DEF Chained
<1>5. CASE i \in DOMAIN s /\ j \notin DOMAIN s
  <2>1. r[i] \in Elements(s) /\ r[j] \in Elements(t)
    BY <1>1, <1>3, <1>5 DEF Elements
  <2>2. QED
    BY <2>1
<1>6. CASE i \notin DOMAIN s /\ j \notin DOMAIN s
  <2>1. i - Len(s) < j - Len(s)
    BY <1>1, <1>2
  <2>2. QED
    BY <1>3, <1>6, <2>1 DEF Chained
<1>7. QED
  BY <1>4, <1>5, <1>6

LEMMA TailChains ==
    ASSUME NEW R, NEW s \in Seq(Nat), s # <<>>, Chained(s, R)
    PROVE  Chained(Tail(s), R) /\ {Head(s)} \X Elements(Tail(s)) \subseteq R
<1> DEFINE r == Tail(s)
<1>1. /\ Len(s) \in Nat /\ Len(s) >= 1 /\ Head(s) = s[1]
      /\ DOMAIN r = 1 .. Len(s) - 1 /\ DOMAIN s = 1 .. Len(s)
      /\ \A i \in 1 .. Len(s) - 1 : r[i] = s[i + 1]
  OBVIOUS
<1> HIDE DEF r
<1>2. \A i \in DOMAIN r : i \in Nat /\ i >= 1 /\ i + 1 \in DOMAIN s /\ r[i] = s[i + 1]
  BY <1>1
<1>3. Chained(r, R)
  <2>1. SUFFICES ASSUME NEW i \in DOMAIN r, NEW j \in DOMAIN r, i < j
                 PROVE  <<r[i], r[j]>> \in R
    BY DEF Chained
  <2>2. i + 1 < j + 1
    BY <1>2, <2>1
  <2>3. QED
    BY <1>2, <2>2 DEF Chained
<1>4. ASSUME NEW i \in DOMAIN r PROVE <<s[1], r[i]>> \in R
  <2>1. 1 \in DOMAIN s /\ 1 < i + 1
    BY <1>1, <1>2
  <2>2. QED
    BY <1>2, <2>1 DEF Chained
<1>5. {s[1]} \X Elements(r) \subseteq R
  BY <1>4 DEF Elements
<1>6. QED
  BY <1>1, <1>3, <1>5 DEF r
-----------------------------------------------------------------------------
(***************************************************************************)
(* The gate.                                                               *)
(***************************************************************************)

LEMMA PassingRuns ==
    ASSUME NEW observations \in Seq(Nat)
    PROVE  \E f \in [0 .. Len(observations) -> Seq(Nat)] :
             /\ f[0] = <<>> /\ Passing(observations) = f[Len(observations)]
             /\ \A i \in 1 .. Len(observations) :
                  f[i] = IF Passed(observations[i]) THEN Append(f[i - 1], observations[i])
                         ELSE f[i - 1]
<1> DEFINE n == Len(observations)
           A == Seq(Nat)
           Round(i, x) == IF Passed(observations[i]) THEN Append(x, observations[i]) ELSE x
           G == [p \in (1 .. n) \X A |-> Round(p[1], p[2])]
           Body(f) == [i \in 0 .. n |->
                         IF i = 0 THEN <<>>
                         ELSE IF Passed(observations[i])
                              THEN Append(f[i - 1], observations[i]) ELSE f[i - 1]]
           run == CHOOSE f : f = Body(f)
<1>1. n \in Nat
  OBVIOUS
<1>2. \A i \in 1 .. n : \A x \in A : Round(i, x) \in A
  OBVIOUS
<1>3. IsLoop(G, n, A)
  BY <1>2 DEF IsLoop
<1>4. \A i \in 1 .. n : \A x \in A : G[<<i, x>>] = Round(i, x)
  OBVIOUS
<1>5. <<>> \in A
  OBVIOUS
<1>6. Passing(observations) = run[n]
  BY DEF Passing
<1> HIDE DEF G, n, A
<1>7. PICK f : IsRun(f, G, n, A, <<>>)
  BY <1>1, <1>3, <1>5, FoldExists
<1>8. f = Body(f)
  <2>1. ASSUME NEW i \in 0 .. n, i # 0 PROVE f[i] = Round(i, f[i - 1])
    <3>1. i \in 1 .. n /\ i - 1 \in 0 .. n
      BY <1>1, <2>1
    <3>2. QED
      BY <1>4, <1>7, <3>1 DEF IsRun
  <2>2. QED
    BY <1>7, <2>1 DEF IsRun
<1>9. run = Body(run)
  BY <1>8
<1> HIDE DEF run
<1> DEFINE S == {i \in 0 .. n : run[i] \in A}
<1>10. run[0] = <<>> /\ \A i \in 1 .. n : run[i] = Round(i, run[i - 1])
  <2>1. \A i \in 0 .. n : run[i] = Body(run)[i]
    BY <1>9
  <2>2. 0 \in 0 .. n /\ \A i \in 1 .. n : i \in 0 .. n /\ i # 0
    BY <1>1
  <2>3. QED
    BY <2>1, <2>2
<1>11. run \in [0 .. n -> A]
  <2>1. ASSUME NEW m \in 0 .. n PROVE run[m] \in A
    <3>1. 0 \in S /\ \A i \in 1 .. m : i - 1 \in S => i \in S
      BY <1>1, <1>2, <1>5, <1>10
    <3>2. m \in Nat
      BY <1>1
    <3>3. m \in S
      <4> HIDE DEF S
      <4>1. QED
        BY <3>1, <3>2, CountUp
    <3>4. QED
      BY <3>3
  <2>2. run = [i \in 0 .. n |-> run[i]]
    BY <1>9
  <2>3. QED
    BY <2>1, <2>2
<1>12. QED
  BY <1>6, <1>10, <1>11 DEF n, A

(* The observations that pass, in their order.                             *)
LEMMA PassingKeepsOrder ==
    ASSUME NEW observations \in Seq(Nat), Chained(observations, Earlier)
    PROVE  /\ Passing(observations) \in Seq(Nat)
           /\ Elements(Passing(observations)) = {v \in Elements(observations) : Passed(v)}
           /\ Chained(Passing(observations), Earlier)
<1> DEFINE n == Len(observations)
<1>1. PICK f \in [0 .. n -> Seq(Nat)] :
             /\ f[0] = <<>> /\ Passing(observations) = f[n]
             /\ \A i \in 1 .. n :
                  f[i] = IF Passed(observations[i]) THEN Append(f[i - 1], observations[i])
                         ELSE f[i - 1]
  BY PassingRuns
<1> DEFINE Upto(i) == {observations[j] : j \in 1 .. i}
           Good(i) == /\ f[i] \in Seq(Nat) /\ Chained(f[i], Earlier)
                      /\ Elements(f[i]) = {v \in Upto(i) : Passed(v)}
           S == {i \in 0 .. n : Good(i)}
<1>2. n \in Nat /\ DOMAIN observations = 1 .. n /\ \A i \in 1 .. n : observations[i] \in Nat
  OBVIOUS
<1>3. Good(0)
  <2>1. Upto(0) = {}
    OBVIOUS
  <2>2. f[0] = <<>> /\ <<>> \in Seq(Nat)
    BY <1>1
  <2>3. QED
    BY <2>1, <2>2, EmptyElements
<1>4. ASSUME NEW i \in 1 .. n, Good(i - 1) PROVE Good(i)
  <2> DEFINE v == observations[i]
  <2>1. /\ i \in Nat /\ v \in Nat /\ i \in DOMAIN observations
        /\ \A j \in 1 .. i - 1 : j \in DOMAIN observations /\ j < i
    BY <1>2
  <2>2. Upto(i) = Upto(i - 1) \cup {v}
    <3>1. \A j \in 1 .. i : j \in 1 .. i - 1 \/ j = i
      BY <2>1
    <3>2. i \in 1 .. i /\ \A j \in 1 .. i - 1 : j \in 1 .. i
      BY <2>1
    <3>3. QED
      BY <3>1, <3>2
  <2>3. Upto(i - 1) \X {v} \subseteq Earlier
    <3>1. ASSUME NEW j \in 1 .. i - 1 PROVE <<observations[j], v>> \in Earlier
      BY <2>1 DEF Chained
    <3>2. QED
      BY <3>1
  <2>4. CASE Passed(v)
    <3>1. f[i] = Append(f[i - 1], v)
      BY <1>1, <2>4
    <3>2. Elements(f[i - 1]) \X {v} \subseteq Earlier
      BY <1>4, <2>3
    <3>3. /\ f[i] \in Seq(Nat) /\ Chained(f[i], Earlier)
          /\ Elements(f[i]) = Elements(f[i - 1]) \cup {v}
      BY <1>4, <2>1, <3>1, <3>2, AppendElements, AppendChains
    <3>4. QED
      BY <1>4, <2>2, <2>4, <3>3
  <2>5. CASE ~Passed(v)
    <3>1. f[i] = f[i - 1]
      BY <1>1, <2>5
    <3>2. QED
      BY <1>4, <2>2, <2>5, <3>1
  <2>6. QED
    BY <2>4, <2>5
<1>5. 0 \in S /\ \A i \in 1 .. n : i - 1 \in S => i \in S
  <2> HIDE DEF Good
  <2>1. \A i \in 1 .. n : i \in 0 .. n
    BY <1>2
  <2>2. QED
    BY <1>2, <1>3, <1>4, <2>1
<1>6. n \in S
  <2> HIDE DEF S, n
  <2>1. QED
    BY <1>2, <1>5, CountUp
<1>7. Upto(n) = Elements(observations)
  BY <1>2 DEF Elements
<1>8. QED
  BY <1>1, <1>6, <1>7

-----------------------------------------------------------------------------
(***************************************************************************)
(* dispatchNotify.                                                         *)
(***************************************************************************)

Acc == [emitted : Seq(Nat), next : Row]
Got(acc) == Elements(acc.emitted) \cup Elements(acc.next.debounce)

(* A dispatch's accumulated state is in order: what is emitted comes before*)
(* what is held.                                                           *)
InLine(acc, R) ==
    /\ Chained(acc.emitted, R) /\ Chained(acc.next.debounce, R)
    /\ Elements(acc.emitted) \X Elements(acc.next.debounce) \subseteq R

(* When the order of what is emitted can be told: no observation goes past *)
(* a batch, or the order does not matter.                                  *)
Orderly(how, debounce, R) ==
    \/ Symmetric(R)
    \/ how = "debounce"
    \/ how = "throttle" /\ debounce = <<>>

LEMMA Parts ==
    ASSUME NEW acc \in Acc
    PROVE  /\ acc.emitted \in Seq(Nat) /\ acc.next \in Row
           /\ acc.next.debounce \in Seq(Nat) /\ acc.next.rollup \in Seq(Nat)
BY DEF Acc, Row

LEMMA NoDebounceType ==
    ASSUME NEW state \in Row
    PROVE  /\ NoDebounce(state) \in Row
           /\ NoDebounce(state).debounce = <<>>
           /\ NoDebounce(state).rollup = state.rollup
<1> DEFINE B == Seq(Nat)
           D == -Horizon .. Settle
           F == -Horizon .. 0
           U == -Horizon .. Suppress
           none == -Horizon
<1>1. <<>> \in B /\ none \in D
  BY IngestionAssumption
<1>2. Row = [source : Nat, debounce : B, dueAt : D, rollup : B, fired : F, until : U, last : F]
  BY DEF Row
<1>3. NoDebounce(state) = [state EXCEPT !.debounce = <<>>, !.dueAt = none]
  BY DEF NoDebounce
<1> HIDE DEF B, D, F, U, none
<1>4. QED
  BY <1>1, <1>2, <1>3

(* What becomes of an observation: it flushes the batch, is emitted, is     *)
(* throttled, or is held.                                                  *)
Placed(r, acc, v, how) ==
    /\ r \in Acc /\ r.next.rollup = acc.next.rollup
    /\ \/ /\ r.emitted = acc.emitted \o Append(acc.next.debounce, v)
          /\ r.next.debounce = <<>> /\ acc.next.debounce # <<>>
       \/ /\ r.emitted = Append(acc.emitted, v)
          /\ r.next.debounce = acc.next.debounce
          /\ how # "debounce"
       \/ r = acc /\ how = "throttle"
       \/ /\ r.emitted = acc.emitted
          /\ r.next.debounce = Append(acc.next.debounce, v)
          /\ how # "throttle"

LEMMA PlaceCases ==
    ASSUME NEW acc \in Acc, NEW v \in Nat, NEW how \in Strategies, how # "rollup",
           NEW at \in -MaxAge .. 0
    PROVE  Placed(Place(acc, v, how, at), acc, v, how)
<1> DEFINE r == Place(acc, v, how, at)
            notify == NotifyConfig(how, EffectiveUrgency(v))
           flushed == [Emit(acc, Append(acc.next.debounce, v)) EXCEPT !.next = NoDebounce(@)]
           emitted == Emit(acc, <<v>>)
           throttled == [Emit(acc, <<v>>) EXCEPT !.next.until = at + Suppress]
           held == [acc EXCEPT !.next.debounce = Append(@, v), !.next.dueAt = at + Settle]
<1>1. /\ at \in Int /\ at <= 0 /\ at > -Horizon
      /\ at + Suppress \in -Horizon .. Suppress /\ at + Settle \in -Horizon .. Settle
  BY IngestionAssumption
<1>2. /\ acc.emitted \in Seq(Nat) /\ acc.next \in Row
      /\ acc.next.debounce \in Seq(Nat) /\ acc.next.rollup \in Seq(Nat)
  BY Parts
<1>3. Append(acc.next.debounce, v) \in Seq(Nat) /\ <<v>> \in Seq(Nat)
  BY <1>2
<1>4. Append(acc.emitted, v) = acc.emitted \o <<v>> /\ acc.emitted \o <<v>> \in Seq(Nat)
  <2>1. \A s \in Seq(Nat) : Append(s, v) = s \o <<v>> /\ s \o <<v>> \in Seq(Nat)
    OBVIOUS
  <2>2. QED
    BY <1>2, <2>1
<1>5. acc.emitted \o Append(acc.next.debounce, v) \in Seq(Nat)
  BY <1>2, <1>3
<1>6. /\ flushed \in Acc /\ flushed.next.rollup = acc.next.rollup
      /\ flushed.emitted = acc.emitted \o Append(acc.next.debounce, v)
      /\ flushed.next.debounce = <<>>
  <2> DEFINE e == Emit(acc, Append(acc.next.debounce, v))
             none == NoDebounce(acc.next)
  <2>1. /\ e \in Acc /\ e.next = acc.next
        /\ e.emitted = acc.emitted \o Append(acc.next.debounce, v)
    BY <1>5 DEF Acc, Emit
  <2>2. none \in Row /\ none.debounce = <<>> /\ none.rollup = acc.next.rollup
    BY <1>2, NoDebounceType
  <2>3. flushed = [e EXCEPT !.next = NoDebounce(e.next)]
    OBVIOUS
  <2> HIDE DEF e, none
  <2>4. flushed = [e EXCEPT !.next = none]
    BY <2>1, <2>3 DEF none
  <2> HIDE DEF flushed
  <2>5. flushed \in Acc /\ flushed.next = none /\ flushed.emitted = e.emitted
    BY <2>1, <2>2, <2>4 DEF Acc
  <2>6. QED
    BY <2>1, <2>2, <2>5
<1>7. /\ emitted \in Acc /\ emitted.next = acc.next
      /\ emitted.emitted = acc.emitted \o <<v>>
  BY <1>4 DEF Acc, Emit
<1>8. /\ throttled \in Acc /\ throttled.next.rollup = acc.next.rollup
      /\ throttled.emitted = acc.emitted \o <<v>>
      /\ throttled.next.debounce = acc.next.debounce
  <2> DEFINE e == Emit(acc, <<v>>)
             next == [acc.next EXCEPT !.until = at + Suppress]
  <2>1. e \in Acc /\ e.next = acc.next /\ e.emitted = acc.emitted \o <<v>>
    BY <1>7
  <2>2. /\ next \in Row /\ next.rollup = acc.next.rollup
        /\ next.debounce = acc.next.debounce
    BY <1>1, <1>2 DEF Row
  <2>3. throttled = [e EXCEPT !.next = [@ EXCEPT !.until = at + Suppress]]
    OBVIOUS
  <2> HIDE DEF e, next
  <2>4. throttled = [e EXCEPT !.next = next]
    BY <2>1, <2>3 DEF next
  <2> HIDE DEF throttled
  <2>5. throttled \in Acc /\ throttled.next = next /\ throttled.emitted = e.emitted
    BY <2>1, <2>2, <2>4 DEF Acc
  <2>6. QED
    BY <2>1, <2>2, <2>5
<1>9. /\ held \in Acc /\ held.next.rollup = acc.next.rollup
      /\ held.emitted = acc.emitted
      /\ held.next.debounce = Append(acc.next.debounce, v)
  <2> DEFINE next == [acc.next EXCEPT !.debounce = Append(@, v), !.dueAt = at + Settle]
  <2>1. held = [acc EXCEPT !.next = next]
    BY DEF Acc
  <2>2. /\ next \in Row /\ next.rollup = acc.next.rollup
        /\ next.debounce = Append(acc.next.debounce, v)
    BY <1>1, <1>2, <1>3 DEF Row
  <2> HIDE DEF held, next
  <2>3. held \in Acc /\ held.next = next /\ held.emitted = acc.emitted
    BY <2>1, <2>2 DEF Acc
  <2>4. QED
    BY <2>2, <2>3
<1>10. /\ notify = "throttle" => how = "throttle"
       /\ notify = "immediate" => how = "default"
       /\ how = "throttle" => notify = "throttle"
       /\ how = "debounce" => notify = "debounce"
  BY IngestionAssumption DEF NotifyConfig
<1> HIDE DEF notify, flushed, emitted, throttled, held
<1>11. \/ r = flushed /\ acc.next.debounce # <<>>
       \/ r = emitted /\ notify = "immediate"
       \/ r = acc /\ notify = "throttle"
       \/ r = throttled /\ notify = "throttle"
       \/ r = held /\ notify # "immediate" /\ notify # "throttle"
  BY DEF Place, notify, flushed, emitted, throttled, held
<1> HIDE DEF r
<1>12. Placed(r, acc, v, how)
  BY <1>4, <1>6, <1>7, <1>8, <1>9, <1>10, <1>11 DEF Placed
<1>13. QED
  BY <1>12 DEF r

(* An observation is emitted or held, but for a throttled one.             *)
Keeps(r, acc, v, how) ==
    /\ r \in Acc /\ r.next.rollup = acc.next.rollup
    /\ Got(acc) \subseteq Got(r) /\ Got(r) \subseteq Got(acc) \cup {v}
    /\ how # "throttle" => v \in Got(r)
    /\ how = "throttle" /\ acc.next.debounce = <<>> => r.next.debounce = <<>>

(* It is kept, and so is the order of what came before it.                 *)
LEMMA PlaceKeeps ==
    ASSUME NEW acc \in Acc, NEW v \in Nat, NEW how \in Strategies, how # "rollup",
           NEW r, Placed(r, acc, v, how)
    PROVE  /\ Keeps(r, acc, v, how)
           /\ \A R : /\ InLine(acc, R) /\ Got(acc) \X {v} \subseteq R
                     /\ Orderly(how, acc.next.debounce, R)
                     => InLine(r, R)
<1> DEFINE e == acc.emitted
           b == acc.next.debounce
<1>1. e \in Seq(Nat) /\ b \in Seq(Nat)
  BY Parts
<1>2. Append(b, v) \in Seq(Nat) /\ Elements(Append(b, v)) = Elements(b) \cup {v}
  BY <1>1, AppendElements
<1>3. Append(e, v) \in Seq(Nat) /\ Elements(Append(e, v)) = Elements(e) \cup {v}
  BY <1>1, AppendElements
<1>4. /\ e \o Append(b, v) \in Seq(Nat)
      /\ Elements(e \o Append(b, v)) = Elements(e) \cup (Elements(b) \cup {v})
  <2> DEFINE c == Append(b, v)
  <2>1. c \in Seq(Nat) /\ Elements(c) = Elements(b) \cup {v}
    BY <1>2
  <2> HIDE DEF c
  <2>2. e \o c \in Seq(Nat) /\ Elements(e \o c) = Elements(e) \cup Elements(c)
    BY <1>1, <2>1, ConcatElements
  <2>3. QED
    BY <2>1, <2>2 DEF c
<1>5. r \in Acc /\ r.next.rollup = acc.next.rollup
  BY DEF Placed
<1>6. \/ /\ r.emitted = e \o Append(b, v)
         /\ r.next.debounce = <<>> /\ b # <<>>
      \/ r.emitted = Append(e, v) /\ r.next.debounce = b /\ how # "debounce"
      \/ r = acc /\ how = "throttle"
      \/ /\ r.emitted = e /\ r.next.debounce = Append(b, v) /\ how # "throttle"
  BY DEF Placed
<1>7. /\ Got(acc) \subseteq Got(r) /\ Got(r) \subseteq Got(acc) \cup {v}
      /\ how # "throttle" => v \in Got(r)
  BY <1>2, <1>3, <1>4, <1>6, EmptyElements DEF Got
<1>8. how = "throttle" /\ b = <<>> => r.next.debounce = <<>>
  BY <1>6
<1>9. ASSUME NEW R, InLine(acc, R), Got(acc) \X {v} \subseteq R, Orderly(how, b, R)
      PROVE  InLine(r, R)
  <2>1. /\ Chained(e, R) /\ Chained(b, R) /\ Elements(e) \X Elements(b) \subseteq R
        /\ Elements(e) \X {v} \subseteq R /\ Elements(b) \X {v} \subseteq R
    BY <1>9 DEF InLine, Got
  <2>2. Chained(Append(b, v), R) /\ Chained(Append(e, v), R)
    BY <1>1, <2>1, AppendChains
  <2>3. Elements(e) \X Elements(Append(b, v)) \subseteq R
    BY <1>2, <2>1
  <2>4. Chained(e \o Append(b, v), R)
    BY <1>1, <1>2, <2>1, <2>2, <2>3, ConcatChains
  <2>5. CASE r.emitted = e \o Append(b, v) /\ r.next.debounce = <<>>
    BY <2>4, <2>5, EmptyElements DEF InLine
  <2>6. CASE r.emitted = Append(e, v) /\ r.next.debounce = b /\ how # "debounce"
    <3>1. {v} \X Elements(b) \subseteq R
      <4>1. CASE Symmetric(R)
        <5>1. ASSUME NEW x \in Elements(b) PROVE <<v, x>> \in R
          BY <1>1, <2>1, <4>1, ElementsType DEF Symmetric
        <5>2. QED
          BY <5>1
      <4>2. CASE b = <<>>
        BY <4>2, EmptyElements
      <4>3. QED
        BY <1>9, <2>6, <4>1, <4>2 DEF Orderly
    <3>2. Elements(Append(e, v)) \X Elements(b) \subseteq R
      BY <1>3, <2>1, <3>1
    <3>3. QED
      BY <2>1, <2>2, <2>6, <3>2 DEF InLine
  <2>7. CASE r = acc
    BY <1>9, <2>7
  <2>8. CASE r.emitted = e /\ r.next.debounce = Append(b, v)
    BY <2>1, <2>2, <2>3, <2>8 DEF InLine
  <2>9. QED
    BY <1>6, <2>5, <2>6, <2>7, <2>8
<1>10. Keeps(r, acc, v, how)
  BY <1>5, <1>7, <1>8 DEF Keeps
<1>11. QED
  BY <1>9, <1>10

LEMMA PlaceAllRuns ==
    ASSUME NEW start \in Acc, NEW observations \in Seq(Nat), NEW how \in Strategies,
           how # "rollup", NEW at \in -MaxAge .. 0
    PROVE  \E f \in [0 .. Len(observations) -> Acc] :
             /\ f[0] = start
             /\ PlaceAll(start, observations, how, at) = f[Len(observations)]
             /\ \A i \in 1 .. Len(observations) :
                  f[i] = Place(f[i - 1], observations[i], how, at)
<1> DEFINE n == Len(observations)
           Round(i, x) == Place(x, observations[i], how, at)
           G == [p \in (1 .. n) \X Acc |-> Round(p[1], p[2])]
           Body(f) == [i \in 0 .. n |->
                         IF i = 0 THEN start ELSE Place(f[i - 1], observations[i], how, at)]
           run == CHOOSE f : f = Body(f)
<1>1. n \in Nat /\ \A i \in 1 .. n : observations[i] \in Nat
  OBVIOUS
<1>2. \A i \in 1 .. n : \A x \in Acc : Round(i, x) \in Acc
  BY <1>1, PlaceCases DEF Placed
<1>6. PlaceAll(start, observations, how, at) = run[n]
  BY DEF PlaceAll
<1> HIDE DEF n, Round
<1>3. IsLoop(G, n, Acc)
  BY <1>2 DEF IsLoop
<1>4. \A i \in 1 .. n : \A x \in Acc : G[<<i, x>>] = Round(i, x)
  OBVIOUS
<1> HIDE DEF G
<1>7. PICK f : IsRun(f, G, n, Acc, start)
  BY <1>1, <1>3, FoldExists
<1>8. f = Body(f)
  <2>1. ASSUME NEW i \in 0 .. n, i # 0 PROVE f[i] = Round(i, f[i - 1])
    <3>1. i \in 1 .. n /\ i - 1 \in 0 .. n
      BY <1>1, <2>1
    <3>2. QED
      BY <1>4, <1>7, <3>1 DEF IsRun
  <2>2. QED
    BY <1>7, <2>1 DEF IsRun, Round
<1>9. run = Body(run)
  BY <1>8
<1> HIDE DEF run
<1> DEFINE S == {i \in 0 .. n : run[i] \in Acc}
<1>10. run[0] = start /\ \A i \in 1 .. n : run[i] = Round(i, run[i - 1])
  <2>1. \A i \in 0 .. n : run[i] = Body(run)[i]
    BY <1>9
  <2>2. 0 \in 0 .. n /\ \A i \in 1 .. n : i \in 0 .. n /\ i # 0
    BY <1>1
  <2>3. QED
    BY <2>1, <2>2 DEF Round
<1>11. run \in [0 .. n -> Acc]
  <2>1. ASSUME NEW m \in 0 .. n PROVE run[m] \in Acc
    <3>1. 0 \in S /\ \A i \in 1 .. m : i - 1 \in S => i \in S
      BY <1>1, <1>2, <1>10
    <3>2. m \in Nat
      BY <1>1
    <3>3. m \in S
      <4> HIDE DEF S
      <4>1. QED
        BY <3>1, <3>2, CountUp
    <3>4. QED
      BY <3>3
  <2>2. run = [i \in 0 .. n |-> run[i]]
    BY <1>9
  <2>3. QED
    BY <2>1, <2>2
<1>12. QED
  BY <1>6, <1>10, <1>11 DEF n, Round

(* The loop over the observations of a dispatch.                           *)
LEMMA PlaceAllKeeps ==
    ASSUME NEW start \in Acc, NEW observations \in Seq(Nat), NEW how \in Strategies,
           how # "rollup", NEW at \in -MaxAge .. 0,
           NEW r, r = PlaceAll(start, observations, how, at)
    PROVE  /\ r \in Acc /\ r.next.rollup = start.next.rollup
           /\ Got(start) \subseteq Got(r)
           /\ Got(r) \subseteq Got(start) \cup Elements(observations)
           /\ how # "throttle" => Elements(observations) \subseteq Got(r)
           /\ how = "throttle" /\ start.next.debounce = <<>> => r.next.debounce = <<>>
           /\ \A R : /\ InLine(start, R) /\ Chained(observations, R)
                     /\ Got(start) \X Elements(observations) \subseteq R
                     /\ Orderly(how, start.next.debounce, R)
                     => InLine(r, R)
<1> DEFINE n == Len(observations)
           Upto(i) == {observations[j] : j \in 1 .. i}
<1>1. PICK f \in [0 .. n -> Acc] :
             /\ f[0] = start /\ r = f[n]
             /\ \A i \in 1 .. n : f[i] = Place(f[i - 1], observations[i], how, at)
  BY PlaceAllRuns
<1>2. /\ n \in Nat /\ DOMAIN observations = 1 .. n
      /\ \A i \in 1 .. n : observations[i] \in Nat
  OBVIOUS
<1>3. Upto(n) = Elements(observations) /\ Upto(0) = {}
  BY <1>2 DEF Elements
<1>4. ASSUME NEW i \in 1 .. n PROVE Upto(i) = Upto(i - 1) \cup {observations[i]}
  <2>1. \A j \in 1 .. i : j \in 1 .. i - 1 \/ j = i
    BY <1>2
  <2>2. i \in 1 .. i /\ \A j \in 1 .. i - 1 : j \in 1 .. i
    BY <1>2
  <2>3. QED
    BY <2>1, <2>2
<1>5. ASSUME NEW i \in 1 .. n
      PROVE  /\ i \in 0 .. n /\ i - 1 \in 0 .. n /\ f[i - 1] \in Acc
             /\ Placed(f[i], f[i - 1], observations[i], how)
  <2>1. i \in 0 .. n /\ i - 1 \in 0 .. n
    BY <1>2
  <2>2. f[i - 1] \in Acc
    BY <2>1
  <2>3. QED
    BY <1>1, <1>2, <2>1, <2>2, PlaceCases
<1> HIDE DEF n, Upto
<1> DEFINE Good(i) == /\ f[i] \in Acc /\ f[i].next.rollup = start.next.rollup
                      /\ Got(start) \subseteq Got(f[i])
                      /\ Got(f[i]) \subseteq Got(start) \cup Upto(i)
                      /\ how # "throttle" => Upto(i) \subseteq Got(f[i])
                      /\ how = "throttle" /\ start.next.debounce = <<>>
                            => f[i].next.debounce = <<>>
           S == {i \in 0 .. n : Good(i)}
<1>6. Good(0)
  BY <1>1, <1>3
<1>7. ASSUME NEW i \in 1 .. n, Good(i - 1) PROVE Good(i)
  <2> DEFINE v == observations[i]
  <2>1. /\ f[i] \in Acc /\ f[i].next.rollup = f[i - 1].next.rollup
        /\ Got(f[i - 1]) \subseteq Got(f[i]) /\ Got(f[i]) \subseteq Got(f[i - 1]) \cup {v}
        /\ how # "throttle" => v \in Got(f[i])
        /\ how = "throttle" /\ f[i - 1].next.debounce = <<>> => f[i].next.debounce = <<>>
    <3> DEFINE before == f[i - 1]
               after == f[i]
    <3>1. v \in Nat /\ before \in Acc /\ Placed(after, before, v, how)
      BY <1>2, <1>5
    <3> HIDE DEF v, before, after
    <3>2. Keeps(after, before, v, how)
      BY <3>1, PlaceKeeps
    <3>3. QED
      BY <3>2 DEF Keeps, before, after
  <2>2. Upto(i) = Upto(i - 1) \cup {v}
    BY <1>4
  <2> HIDE DEF v
  <2>3. QED
    BY <1>7, <2>1, <2>2
<1> HIDE DEF Good
<1>8. 0 \in S /\ \A i \in 1 .. n : i - 1 \in S => i \in S
  BY <1>2, <1>5, <1>6, <1>7
<1>9. \A m \in 0 .. n : Good(m)
  <2>1. SUFFICES ASSUME NEW m \in 0 .. n PROVE m \in S
    OBVIOUS
  <2>2. m \in Nat /\ \A i \in 1 .. m : i \in 1 .. n
    BY <1>2
  <2> HIDE DEF S
  <2>3. QED
    BY <1>8, <2>2, CountUp
<1>10. ASSUME NEW R, InLine(start, R), Chained(observations, R),
              Got(start) \X Elements(observations) \subseteq R,
              Orderly(how, start.next.debounce, R)
       PROVE  InLine(r, R)
  <2> DEFINE T == {i \in 0 .. n : InLine(f[i], R)}
  <2>1. 0 \in T
    BY <1>1, <1>2, <1>10
  <2>2. ASSUME NEW i \in 1 .. n, InLine(f[i - 1], R) PROVE InLine(f[i], R)
    <3> DEFINE v == observations[i]
    <3>1. Good(i - 1)
      BY <1>5, <1>9
    <3>2. Upto(i - 1) \X {v} \subseteq R
      <4>1. ASSUME NEW j \in 1 .. i - 1 PROVE <<observations[j], v>> \in R
        <5>1. i \in DOMAIN observations /\ j \in DOMAIN observations /\ j < i
          BY <1>2
        <5>2. QED
          BY <1>10, <5>1 DEF Chained
      <4>2. QED
        BY <4>1 DEF Upto
    <3>3. v \in Elements(observations)
      BY <1>2 DEF Elements
    <3>4. Got(start) \X {v} \subseteq R
      BY <1>10, <3>3
    <3>5. Got(f[i - 1]) \X {v} \subseteq R
      BY <3>1, <3>2, <3>4 DEF Good
    <3>6. Orderly(how, f[i - 1].next.debounce, R)
      BY <1>10, <3>1 DEF Good, Orderly
    <3>7. f[i - 1] \in Acc /\ v \in Nat /\ Placed(f[i], f[i - 1], v, how)
      BY <1>2, <1>5
    <3> HIDE DEF v
    <3>8. QED
      BY <2>2, <3>5, <3>6, <3>7, PlaceKeeps
  <2>3. \A i \in 1 .. n : i - 1 \in T => i \in T
    BY <1>5, <2>2
  <2>4. n \in T
    <3> HIDE DEF T
    <3>1. QED
      BY <1>2, <2>1, <2>3, CountUp
  <2>5. QED
    BY <1>1, <2>4
<1>11. Good(n)
  BY <1>2, <1>9
<1>12. QED
  BY <1>1, <1>3, <1>10, <1>11 DEF Good

(* The batch of a rollup is emitted whole, or it is kept whole.            *)
LEMMA RollupCases ==
    ASSUME NEW state \in Row, NEW observations \in Seq(Nat), NEW at \in -MaxAge .. 0,
           NEW d, d = DispatchRollup(state, observations, at)
    PROVE  /\ d \in Acc /\ d.next.debounce = state.debounce
           /\ \/ d.emitted = state.rollup \o observations /\ d.next.rollup = <<>>
              \/ d.emitted = <<>> /\ d.next.rollup = state.rollup \o observations
<1> DEFINE batch == state.rollup \o observations
           fires == WindowMatches(at) /\ state.fired # at
           left == IF fires THEN <<>> ELSE batch
           fired == IF fires THEN at ELSE state.fired
           next == [state EXCEPT !.rollup = left, !.fired = fired]
           B == Seq(Nat)
           D == -Horizon .. Settle
           F == -Horizon .. 0
           U == -Horizon .. Suppress
<1>1. Row = [source : Nat, debounce : B, dueAt : D, rollup : B, fired : F, until : U, last : F]
  BY DEF Row
<1>2. at \in F
  BY IngestionAssumption
<1>3. batch \in B /\ <<>> \in B
  <2>1. state.rollup \in Seq(Nat)
    BY DEF Row
  <2>2. QED
    BY <2>1
<1>4. d = [emitted |-> IF fires THEN batch ELSE <<>>, next |-> next]
  BY DEF DispatchRollup
<1> HIDE DEF B, D, F, U, batch, fires
<1>5. left \in B /\ fired \in F
  BY <1>1, <1>2, <1>3
<1> HIDE DEF left, fired
<1>6. next \in Row /\ next.debounce = state.debounce /\ next.rollup = left
  BY <1>1, <1>5
<1> HIDE DEF next
<1>7. d \in Acc /\ d.next = next /\ d.emitted = IF fires THEN batch ELSE <<>>
  BY <1>3, <1>4, <1>6 DEF Acc, B
<1>8. QED
  BY <1>6, <1>7 DEF left, batch

(* What is held is in order.                                               *)
HeldInLine(state, R) ==
    /\ Chained(state.debounce, R) /\ Chained(state.rollup, R)
    /\ Elements(state.debounce) \X Elements(state.rollup) \subseteq R

(* A strategy that was never changed leaves no batch of another.           *)
Steady(state, how) ==
    /\ how # "default"
    /\ how # "rollup" => state.rollup = <<>>
    /\ how \in {"throttle", "rollup"} => state.debounce = <<>>

(* The observations a dispatch may drop.                                   *)
Droppable(state, observations, how) ==
    (IF how = "throttle" THEN Elements(observations) ELSE {})
    \cup (IF how = "rollup" THEN Elements(state.debounce) ELSE {})

(* A dispatch neither makes up nor loses an observation, and what it emits *)
(* comes before what it holds.                                             *)
Dispatched(d, state, observations, how) ==
    /\ d \in Acc
    /\ Elements(d.emitted) \cup Held(d.next) \subseteq Held(state) \cup Elements(observations)
    /\ Held(state) \cup Elements(observations) \subseteq
          Elements(d.emitted) \cup Held(d.next) \cup Droppable(state, observations, how)
    /\ how # "rollup" => d.next.rollup = state.rollup
    /\ how = "rollup" => d.next.debounce = <<>>
    /\ how = "throttle" /\ state.debounce = <<>> => d.next.debounce = <<>>

KeepsLine(d, state, observations, how, R) ==
    /\ HeldInLine(state, R) /\ Chained(observations, R)
    /\ Held(state) \X Elements(observations) \subseteq R
    /\ Symmetric(R) \/ Steady(state, how)
    => /\ Chained(d.emitted, R) /\ HeldInLine(d.next, R)
       /\ Elements(d.emitted) \X Held(d.next) \subseteq R

LEMMA RollupIsDispatched ==
    ASSUME NEW state \in Row, NEW observations \in Seq(Nat), NEW at \in -MaxAge .. 0,
           NEW d, d = DispatchRollup(NoDebounce(state), observations, at)
    PROVE  /\ Dispatched(d, state, observations, "rollup")
           /\ \A R : KeepsLine(d, state, observations, "rollup", R)
<1> DEFINE batch == state.rollup \o observations
<1>1. /\ d \in Acc /\ d.next.debounce = <<>>
      /\ \/ d.emitted = batch /\ d.next.rollup = <<>>
         \/ d.emitted = <<>> /\ d.next.rollup = batch
  <2> DEFINE none == NoDebounce(state)
  <2>1. none \in Row /\ none.debounce = <<>> /\ none.rollup = state.rollup
    BY NoDebounceType
  <2>2. d = DispatchRollup(none, observations, at)
    OBVIOUS
  <2> HIDE DEF none
  <2>3. /\ d \in Acc /\ d.next.debounce = none.debounce
        /\ \/ d.emitted = none.rollup \o observations /\ d.next.rollup = <<>>
           \/ d.emitted = <<>> /\ d.next.rollup = none.rollup \o observations
    BY <2>1, <2>2, RollupCases
  <2>4. QED
    BY <2>1, <2>3
<1>2. state.rollup \in Seq(Nat)
  BY DEF Row
<1>3. batch \in Seq(Nat) /\ Elements(batch) = Elements(state.rollup) \cup Elements(observations)
  BY <1>2, ConcatElements
<1>4. Elements(d.emitted) \cup Held(d.next) = Elements(batch)
  BY <1>1, EmptyElements DEF Held
<1>5. Dispatched(d, state, observations, "rollup")
  BY <1>1, <1>3, <1>4 DEF Dispatched, Droppable, Held
<1>6. ASSUME NEW R, HeldInLine(state, R), Chained(observations, R),
             Held(state) \X Elements(observations) \subseteq R
      PROVE  /\ Chained(d.emitted, R) /\ HeldInLine(d.next, R)
             /\ Elements(d.emitted) \X Held(d.next) \subseteq R
  <2>1. Chained(state.rollup, R) /\ Elements(state.rollup) \X Elements(observations) \subseteq R
    BY <1>6 DEF HeldInLine, Held
  <2>2. Chained(batch, R)
    BY <1>2, <1>6, <2>1, ConcatChains
  <2> HIDE DEF batch
  <2>3. QED
    BY <1>1, <2>2, EmptyElements DEF HeldInLine, Held
<1>7. QED
  BY <1>5, <1>6 DEF KeepsLine

LEMMA NotifyIsDispatched ==
    ASSUME NEW state \in Row, NEW observations \in Seq(Nat), NEW at \in -MaxAge .. 0,
           NEW how \in Strategies,
           NEW d, d = DispatchNotify(state, observations, how, at)
    PROVE  /\ Dispatched(d, state, observations, how)
           /\ \A R : KeepsLine(d, state, observations, how, R)
<1>1. CASE how = "rollup"
  <2>1. d = DispatchRollup(NoDebounce(state), observations, at)
    BY <1>1 DEF DispatchNotify
  <2>2. QED
    BY <1>1, <2>1, RollupIsDispatched
<1>2. CASE how # "rollup"
  <2> DEFINE due == state.debounce # <<>> /\ state.dueAt <= at
             start == [emitted |-> IF due THEN state.debounce ELSE <<>>,
                       next |-> IF due THEN NoDebounce(state) ELSE state]
  <2>1. d = PlaceAll(start, observations, how, at)
    BY <1>2 DEF DispatchNotify
  <2>2. state.debounce \in Seq(Nat) /\ state.rollup \in Seq(Nat)
    BY DEF Row
  <2>3. /\ start \in Acc /\ start.next.rollup = state.rollup
        /\ \/ start.emitted = state.debounce /\ start.next.debounce = <<>>
           \/ start.emitted = <<>> /\ start.next.debounce = state.debounce
    BY <2>2, NoDebounceType DEF Acc
  <2> HIDE DEF start
  <2>4. Got(start) = Elements(state.debounce)
    BY <2>3, EmptyElements DEF Got
  <2>5. /\ d \in Acc /\ d.next.rollup = state.rollup
        /\ Got(start) \subseteq Got(d)
        /\ Got(d) \subseteq Got(start) \cup Elements(observations)
        /\ how # "throttle" => Elements(observations) \subseteq Got(d)
        /\ how = "throttle" /\ start.next.debounce = <<>> => d.next.debounce = <<>>
    BY <1>2, <2>1, <2>3, PlaceAllKeeps
  <2>6. Elements(d.emitted) \cup Held(d.next) = Got(d) \cup Elements(state.rollup)
    BY <2>5 DEF Got, Held
  <2>7. state.debounce = <<>> => start.next.debounce = <<>>
    BY <2>3
  <2>8. Dispatched(d, state, observations, how)
    BY <1>2, <2>4, <2>5, <2>6, <2>7 DEF Dispatched, Droppable, Held
  <2>9. ASSUME NEW R, HeldInLine(state, R), Chained(observations, R),
               Held(state) \X Elements(observations) \subseteq R,
               Symmetric(R) \/ Steady(state, how)
        PROVE  /\ Chained(d.emitted, R) /\ HeldInLine(d.next, R)
               /\ Elements(d.emitted) \X Held(d.next) \subseteq R
    <3>1. /\ Chained(state.debounce, R) /\ Chained(state.rollup, R)
          /\ Elements(state.debounce) \X Elements(state.rollup) \subseteq R
          /\ Elements(state.debounce) \X Elements(observations) \subseteq R
          /\ Elements(state.rollup) \X Elements(observations) \subseteq R
      BY <2>9 DEF HeldInLine, Held
    <3>2. InLine(start, R)
      BY <2>3, <3>1, EmptyElements DEF InLine
    <3>3. Orderly(how, start.next.debounce, R)
      BY <1>2, <2>7, <2>9, IngestionAssumption DEF Orderly, Steady
    <3>4. InLine(d, R)
      BY <1>2, <2>1, <2>3, <2>4, <2>9, <3>1, <3>2, <3>3, PlaceAllKeeps
    <3>5. Elements(observations) \X Elements(state.rollup) \subseteq R
      <4>1. CASE state.rollup = <<>>
        BY <4>1, EmptyElements
      <4>2. CASE Symmetric(R)
        <5>1. ASSUME NEW x \in Elements(observations), NEW y \in Elements(state.rollup)
              PROVE  <<x, y>> \in R
          <6>1. x \in Nat /\ y \in Nat /\ <<y, x>> \in R
            BY <2>2, <3>1, ElementsType
          <6>2. QED
            BY <4>2, <6>1 DEF Symmetric
        <5>2. QED
          BY <5>1
      <4>3. QED
        BY <1>2, <2>9, <4>1, <4>2 DEF Steady
    <3>6. Got(d) \X Elements(state.rollup) \subseteq R
      BY <2>4, <2>5, <3>1, <3>5
    <3>7. QED
      BY <2>5, <3>1, <3>4, <3>6 DEF InLine, HeldInLine, Held, Got
  <2>10. QED
    BY <2>8, <2>9 DEF KeepsLine
<1>3. QED
  BY <1>1, <1>2

-----------------------------------------------------------------------------
(***************************************************************************)
(* The inductive invariants.                                               *)
(***************************************************************************)

(* What a tick has yet to insert.                                          *)
Rest(t) == IF tick[t].pc \in {"materializing", "interpreting"} THEN tick[t].rest ELSE <<>>

Observing(t) == tick[t].pc = "observing"

Covered == Elements(chain) \cup Held(row) \cup InFlight \cup forgone \cup lost

(* A span that is entered has something to insert; a tick compares with    *)
(* the world of its start or an earlier one.                               *)
Types ==
    /\ TypeOK
    /\ \A t \in Ticks :
         /\ tick[t].pc = "materializing" => tick[t].rest # <<>>
         /\ Observing(t) => tick[t].previous <= tick[t].from

(* What a tick in flight has read as the baseline is accounted for too:    *)
(* when it stores its row, the baseline may go back to what it read.       *)
Accounted ==
    /\ NothingVanishes
    /\ \A t \in Ticks : Observing(t) => 1 .. tick[t].previous \subseteq Covered

(* Ticks that do not overlap: there is one at most, it has read the row    *)
(* as it still is, and all that was ingested is behind the baseline.       *)
OneByOne ==
    ~overlapped =>
        /\ \A t, u \in Ticks : tick[t] # Idle /\ tick[u] # Idle => t = u
        /\ \A t \in Ticks : Observing(t) => tick[t].previous = row.source
        /\ Elements(chain) \cup Held(row) \cup InFlight \subseteq 1 .. row.source

(* A strategy nobody edited is the one every tick has scanned, and no      *)
(* batch of another one is held.                                           *)
OneStrategy ==
    edits = 0 =>
        /\ strategy # "default" => Steady(row, strategy)
        /\ \A t \in Ticks : Observing(t) => tick[t].how = strategy

(* Chain, what is about to be inserted and what is held, one after the     *)
(* other, are in the order R.                                              *)
Linked(R) ==
    /\ Chained(chain, R) /\ HeldInLine(row, R)
    /\ Elements(chain) \X Held(row) \subseteq R
    /\ \A t \in Ticks : /\ Chained(Rest(t), R)
                        /\ Elements(chain) \X Elements(Rest(t)) \subseteq R
                        /\ Elements(Rest(t)) \X Held(row) \subseteq R

Ordered ==
    /\ ~overlapped => Linked(Differ)
    /\ ~overlapped /\ edits = 0 /\ strategy # "default" => Linked(Earlier)

-----------------------------------------------------------------------------
(***************************************************************************)
(* What the steps of a tick do.                                            *)
(***************************************************************************)

LEMMA FlightFields ==
    ASSUME NEW x \in Flight
    PROVE  /\ x.pc \in {"idle", "observing", "materializing", "interpreting"}
           /\ x.pc = "idle" <=> x = Idle
           /\ x.pc = "observing" =>
                /\ x.at \in -MaxAge .. 0 /\ x.how \in Strategies
                /\ x.previous \in Nat /\ x.from \in Nat
           /\ x.pc \in {"materializing", "interpreting"} => x.rest \in Seq(Nat)
BY DEF Flight, Idle

LEMMA SpanStarts ==
    ASSUME NEW s \in Seq(Nat), NEW x, x = Materializing(s)
    PROVE  /\ x \in Flight /\ x.pc \in {"idle", "materializing"}
           /\ x.pc = "materializing" => x.rest # <<>>
           /\ (IF x.pc \in {"materializing", "interpreting"} THEN x.rest ELSE <<>>) = s
BY DEF Materializing, Idle, Flight

LEMMA IdleRests ==
    ASSUME NEW t, tick[t] = Idle
    PROVE  Rest(t) = <<>> /\ ~Observing(t)
<1>1. tick[t].pc = "idle"
  BY DEF Idle
<1>2. QED
  BY <1>1 DEF Rest, Observing

LEMMA FlightParts ==
    /\ InFlight = UNION {Elements(Rest(t)) : t \in Ticks}
    /\ InFlight' = UNION {Elements(Rest(t)') : t \in Ticks}
BY EmptyElements DEF InFlight, Rest

LEMMA RestType ==
    ASSUME tick \in [Ticks -> Flight], NEW t \in Ticks
    PROVE  Rest(t) \in Seq(Nat)
BY FlightFields DEF Rest

(* One tick goes on: the others are where they were.                       *)
LEMMA OneMoves ==
    ASSUME tick \in [Ticks -> Flight], NEW t \in Ticks, NEW x,
           tick' = [tick EXCEPT ![t] = x]
    PROVE  /\ tick'[t] = x
           /\ Rest(t)' = IF x.pc \in {"materializing", "interpreting"} THEN x.rest ELSE <<>>
           /\ \A u \in Ticks \ {t} : tick'[u] = tick[u] /\ Rest(u)' = Rest(u)
           /\ InFlight' \subseteq InFlight \cup Elements(Rest(t)')
           /\ InFlight \subseteq InFlight' \cup Elements(Rest(t))
           /\ Elements(Rest(t)) \subseteq InFlight
           /\ Elements(Rest(t)') \subseteq InFlight'
           /\ x \in Flight => tick' \in [Ticks -> Flight]
<1>1. tick'[t] = x /\ \A u \in Ticks \ {t} : tick'[u] = tick[u]
  OBVIOUS
<1>2. \A u \in Ticks \ {t} : Rest(u)' = Rest(u)
  BY <1>1 DEF Rest
<1>3. Rest(t)' = IF x.pc \in {"materializing", "interpreting"} THEN x.rest ELSE <<>>
  BY <1>1 DEF Rest
<1>4. x \in Flight => tick' \in [Ticks -> Flight]
  OBVIOUS
<1>5. /\ InFlight' \subseteq InFlight \cup Elements(Rest(t)')
      /\ InFlight \subseteq InFlight' \cup Elements(Rest(t))
      /\ Elements(Rest(t)) \subseteq InFlight
      /\ Elements(Rest(t)') \subseteq InFlight'
  BY <1>2, FlightParts
<1>6. QED
  BY <1>1, <1>2, <1>3, <1>4, <1>5

(* The row of a dispatch is stored, and what it emitted is about to be     *)
(* inserted.                                                               *)
Stores(t, d) ==
    /\ row' \in Row
    /\ row'.debounce = d.next.debounce /\ row'.rollup = d.next.rollup
    /\ Held(row)' = Held(d.next)
    /\ tick' = [tick EXCEPT ![t] = Materializing(d.emitted)]
    /\ tick' \in [Ticks -> Flight]
    /\ tick'[t].pc \in {"idle", "materializing"}
    /\ tick'[t].pc = "materializing" => tick'[t].rest # <<>>
    /\ Rest(t)' = d.emitted
    /\ \A u \in Ticks \ {t} : tick'[u] = tick[u] /\ Rest(u)' = Rest(u)

LEMMA StoreEffect ==
    ASSUME TypeOK, NEW t \in Ticks, NEW d \in Acc, row' \in Row,
           row'.debounce = d.next.debounce, row'.rollup = d.next.rollup,
           tick' = [tick EXCEPT ![t] = Materializing(d.emitted)]
    PROVE  Stores(t, d)
<1> DEFINE x == Materializing(d.emitted)
<1>1. d.emitted \in Seq(Nat) /\ tick \in [Ticks -> Flight]
  BY Parts DEF TypeOK
<1>2. /\ x \in Flight /\ x.pc \in {"idle", "materializing"}
      /\ x.pc = "materializing" => x.rest # <<>>
      /\ (IF x.pc \in {"materializing", "interpreting"} THEN x.rest ELSE <<>>) = d.emitted
  BY <1>1, SpanStarts
<1> HIDE DEF x
<1>3. tick' = [tick EXCEPT ![t] = x]
  BY DEF x
<1>4. /\ tick'[t] = x
      /\ Rest(t)' = IF x.pc \in {"materializing", "interpreting"} THEN x.rest ELSE <<>>
      /\ \A u \in Ticks \ {t} : tick'[u] = tick[u] /\ Rest(u)' = Rest(u)
      /\ x \in Flight => tick' \in [Ticks -> Flight]
  BY <1>1, <1>3, OneMoves
<1>5. Held(row)' = Held(d.next)
  BY DEF Held
<1>6. QED
  BY <1>2, <1>4, <1>5 DEF Stores

(* An ingest that saw the world after seen changes, and dispatched the     *)
(* observations since the baseline it had read.                            *)
Ingests(t, seen, all, d) ==
    /\ seen \in Nat /\ tick[t].previous <= seen /\ seen <= Len(kinds)
    /\ Elements(all) = tick[t].previous + 1 .. seen
    /\ Passing(all) \in Seq(Nat) /\ Chained(Passing(all), Earlier)
    /\ Elements(Passing(all)) = {v \in Elements(all) : Passed(v)}
    /\ Dispatched(d, row, Passing(all), tick[t].how)
    /\ \A R : KeepsLine(d, row, Passing(all), tick[t].how, R)
    /\ row'.source = seen
    /\ Stores(t, d)
    /\ forgone' = forgone \cup Waived(tick[t].how, all, d)

LEMMA IngestEffect ==
    ASSUME Types, NEW t \in Ticks, Ingest(t)
    PROVE  \E seen, all, d : Ingests(t, seen, all, d)
<1> DEFINE previous == tick[t].previous
           how == tick[t].how
           at == tick[t].at
<1>1. /\ previous \in Nat /\ how \in Strategies /\ at \in -MaxAge .. 0
      /\ tick[t].from \in Nat /\ previous <= tick[t].from
  BY FlightFields DEF Types, TypeOK, Ingest, Observing
<1>2. PICK seen \in tick[t].from .. Len(kinds) :
         LET all == [i \in 1 .. seen - previous |-> previous + i]
             d == DispatchNotify(row, Passing(all), how, at)
         IN  /\ row' = [d.next EXCEPT !.source = seen, !.last = at]
             /\ tick' = [tick EXCEPT ![t] = Materializing(d.emitted)]
             /\ forgone' = forgone \cup Waived(how, all, d)
  BY DEF Ingest
<1> DEFINE all == [i \in 1 .. seen - previous |-> previous + i]
           d == DispatchNotify(row, Passing(all), how, at)
<1>3. Len(kinds) \in Nat /\ row \in Row
  BY DEF Types, TypeOK
<1>4. seen \in Nat /\ previous <= seen /\ seen <= Len(kinds) /\ seen - previous \in Nat
  BY <1>1, <1>3
<1>5. all \in Seq(Nat)
  <2> DEFINE n == seen - previous
  <2>1. n \in Nat /\ all \in [1 .. n -> Nat]
    BY <1>1, <1>4
  <2> HIDE DEF n, all
  <2>2. QED
    BY <2>1
<1>6. DOMAIN all = 1 .. seen - previous /\ \A i \in DOMAIN all : all[i] = previous + i
  OBVIOUS
<1> HIDE DEF all
<1>7. Chained(all, Earlier) /\ Elements(all) = previous + 1 .. seen
  <2> DEFINE n == seen - previous
  <2>1. n \in Nat /\ previous + n = seen
    BY <1>1, <1>4
  <2> HIDE DEF n
  <2>2. DOMAIN all = 1 .. n
    BY <1>6 DEF n
  <2>3. \A i \in DOMAIN all : all[i] \in previous + 1 .. seen
    BY <1>1, <1>6, <2>1, <2>2
  <2>4. ASSUME NEW v \in previous + 1 .. seen PROVE v \in Elements(all)
    <3>1. v - previous \in 1 .. n /\ previous + (v - previous) = v
      BY <1>1, <2>1
    <3>2. v - previous \in DOMAIN all /\ all[v - previous] = v
      BY <1>6, <2>2, <3>1
    <3>3. QED
      BY <3>2 DEF Elements
  <2>5. Chained(all, Earlier)
    <3>1. SUFFICES ASSUME NEW i \in DOMAIN all, NEW j \in DOMAIN all, i < j
                   PROVE  <<all[i], all[j]>> \in Earlier
      BY DEF Chained
    <3>2. i \in Nat /\ j \in Nat
      BY <2>1, <2>2
    <3>3. QED
      BY <1>1, <1>6, <3>1, <3>2 DEF Earlier
  <2>6. QED
    BY <2>3, <2>4, <2>5 DEF Elements
<1>8. /\ row' = [d.next EXCEPT !.source = seen, !.last = at]
      /\ tick' = [tick EXCEPT ![t] = Materializing(d.emitted)]
      /\ forgone' = forgone \cup Waived(how, all, d)
  BY <1>2 DEF all
<1>9. /\ Passing(all) \in Seq(Nat) /\ Chained(Passing(all), Earlier)
      /\ Elements(Passing(all)) = {v \in Elements(all) : Passed(v)}
  BY <1>5, <1>7, PassingKeepsOrder
<1>10. /\ Dispatched(d, row, Passing(all), how)
       /\ \A R : KeepsLine(d, row, Passing(all), how, R)
  BY <1>1, <1>3, <1>9, NotifyIsDispatched
<1> HIDE DEF d
<1>11. d \in Acc /\ d.next \in Row
  BY <1>10 DEF Dispatched, Acc
<1>12. at \in -Horizon .. 0
  BY <1>1, IngestionAssumption
<1>13. /\ row' \in Row /\ row'.source = seen
       /\ row'.debounce = d.next.debounce /\ row'.rollup = d.next.rollup
  BY <1>4, <1>8, <1>11, <1>12 DEF Row
<1>14. Stores(t, d)
  BY <1>8, <1>11, <1>13, StoreEffect DEF Types
<1>15. Ingests(t, seen, all, d)
  BY <1>4, <1>7, <1>8, <1>9, <1>10, <1>13, <1>14 DEF Ingests
<1>16. QED
  BY <1>15

(* The window of a rollup that is not due: its batch is emitted whole or   *)
(* kept whole.                                                             *)
Flushes(t, d) ==
    /\ Stores(t, d) /\ row'.source = row.source
    /\ d \in Acc /\ d.next.debounce = row.debounce
    /\ \/ d.emitted = row.rollup /\ d.next.rollup = <<>>
       \/ d.emitted = <<>> /\ d.next.rollup = row.rollup

LEMMA WindowEffect ==
    ASSUME Types, NEW t \in Ticks, CheckWindow(t)
    PROVE  \E d : Flushes(t, d)
<1> DEFINE d == DispatchRollup(row, <<>>, 0)
<1>1. row \in Row /\ row.rollup \in Seq(Nat) /\ <<>> \in Seq(Nat) /\ 0 \in -MaxAge .. 0
  <2>1. row \in Row
    BY DEF Types, TypeOK
  <2>2. row.rollup \in Seq(Nat) /\ <<>> \in Seq(Nat)
    BY <2>1 DEF Row
  <2>3. 0 \in -MaxAge .. 0
    BY IngestionAssumption
  <2>4. QED
    BY <2>1, <2>2, <2>3
<1>2. row' = d.next /\ tick' = [tick EXCEPT ![t] = Materializing(d.emitted)]
  BY DEF CheckWindow
<1>3. row.rollup \o <<>> = row.rollup
  BY <1>1
<1>4. d.next.source = row.source
  BY <1>1 DEF DispatchRollup, Row
<1>5. /\ d \in Acc /\ d.next.debounce = row.debounce
      /\ \/ d.emitted = row.rollup \o <<>> /\ d.next.rollup = <<>>
         \/ d.emitted = <<>> /\ d.next.rollup = row.rollup \o <<>>
  BY <1>1, RollupCases
<1> HIDE DEF d
<1>6. Stores(t, d)
  BY <1>2, <1>5, StoreEffect, Parts DEF Types
<1>7. Flushes(t, d)
  BY <1>2, <1>3, <1>4, <1>5, <1>6 DEF Flushes
<1>8. QED
  BY <1>7

(* The next observation of a span: inserted, and the adapter awaited, or   *)
(* left out.                                                               *)
Inserts(t, v, after) ==
    /\ v \in Nat /\ after \in Seq(Nat)
    /\ Elements(Rest(t)) = {v} \cup Elements(after)
    /\ Rest(t)' = after
    /\ \A R : Chained(Rest(t), R) =>
          Chained(after, R) /\ {v} \X Elements(after) \subseteq R
    /\ tick[t] # Idle
    /\ tick'[t].pc = "materializing" => tick'[t].rest # <<>>
    /\ ~Observing(t)'
    /\ tick' \in [Ticks -> Flight]
    /\ \A u \in Ticks \ {t} : tick'[u] = tick[u] /\ Rest(u)' = Rest(u)
    /\ \/ chain' = Append(chain, v) /\ forgone' = forgone
       \/ chain' = chain /\ forgone' = forgone \cup {v}

LEMMA MaterializeEffect ==
    ASSUME Types, NEW t \in Ticks, Materialize(t)
    PROVE  \E v, after : Inserts(t, v, after)
<1> DEFINE s == tick[t].rest
           v == Head(s)
           after == Tail(s)
           waits == [pc |-> "interpreting", rest |-> after]
<1>1. tick \in [Ticks -> Flight] /\ tick[t] # Idle
  BY FlightFields DEF Types, TypeOK, Materialize, Idle
<1>2. s \in Seq(Nat) /\ s # <<>> /\ Rest(t) = s
  BY <1>1, FlightFields DEF Types, Materialize, Rest
<1>3. v \in Nat /\ after \in Seq(Nat) /\ Elements(s) = {v} \cup Elements(after)
  BY <1>2, TailElements
<1>4. \A R : Chained(s, R) => Chained(after, R) /\ {v} \X Elements(after) \subseteq R
  BY <1>2, TailChains
<1>5. \/ /\ chain' = Append(chain, v) /\ forgone' = forgone
         /\ tick' = [tick EXCEPT ![t] = waits]
      \/ /\ chain' = chain /\ forgone' = forgone \cup {v}
         /\ tick' = [tick EXCEPT ![t] = Materializing(after)]
  BY DEF Materialize
<1>6. waits \in Flight /\ waits.pc = "interpreting" /\ waits.rest = after
  BY <1>3 DEF Flight
<1> DEFINE x == Materializing(after)
<1>7. /\ x \in Flight /\ x.pc \in {"idle", "materializing"}
      /\ x.pc = "materializing" => x.rest # <<>>
      /\ (IF x.pc \in {"materializing", "interpreting"} THEN x.rest ELSE <<>>) = after
  BY <1>3, SpanStarts
<1> HIDE DEF v, after, waits, x
<1>8. CASE /\ chain' = Append(chain, v) /\ forgone' = forgone
           /\ tick' = [tick EXCEPT ![t] = waits]
  <2>1. /\ tick'[t] = waits
        /\ Rest(t)' = IF waits.pc \in {"materializing", "interpreting"}
                      THEN waits.rest ELSE <<>>
        /\ \A u \in Ticks \ {t} : tick'[u] = tick[u] /\ Rest(u)' = Rest(u)
        /\ waits \in Flight => tick' \in [Ticks -> Flight]
    BY <1>1, <1>8, OneMoves
  <2>2. Inserts(t, v, after)
    BY <1>1, <1>2, <1>3, <1>4, <1>6, <1>8, <2>1 DEF Inserts, Observing
  <2>3. QED
    BY <2>2
<1>9. CASE /\ chain' = chain /\ forgone' = forgone \cup {v}
           /\ tick' = [tick EXCEPT ![t] = x]
  <2>1. /\ tick'[t] = x
        /\ Rest(t)' = IF x.pc \in {"materializing", "interpreting"} THEN x.rest ELSE <<>>
        /\ \A u \in Ticks \ {t} : tick'[u] = tick[u] /\ Rest(u)' = Rest(u)
        /\ x \in Flight => tick' \in [Ticks -> Flight]
    BY <1>1, <1>9, OneMoves
  <2>2. Inserts(t, v, after)
    BY <1>1, <1>2, <1>3, <1>4, <1>7, <1>9, <2>1 DEF Inserts, Observing
  <2>3. QED
    BY <2>2
<1>10. QED
  BY <1>5, <1>8, <1>9 DEF x

(* The other steps, but for a crash, keep what was ingested where it is: a *)
(* change, an edit, a tick that starts, fails or has waited for the        *)
(* adapter, a minute that passes.                                          *)
Calm ==
    /\ row' \in Row /\ row'.source = row.source
    /\ row'.debounce = row.debounce /\ row'.rollup = row.rollup
    /\ chain' = chain /\ forgone' = forgone /\ lost' = lost
    /\ kinds' \in Seq(Kinds) /\ Len(kinds) <= Len(kinds')
    /\ tick' \in [Ticks -> Flight]
    /\ \A t \in Ticks :
         /\ Rest(t)' = Rest(t)
         /\ tick'[t].pc = "materializing" => tick'[t].rest # <<>>
         /\ Observing(t)' => tick'[t].previous <= tick'[t].from
         /\ Observing(t)' =>
              \/ /\ Observing(t)
                 /\ tick'[t].previous = tick[t].previous /\ tick'[t].how = tick[t].how
              \/ tick'[t].previous = row.source /\ tick'[t].how = strategy
    /\ strategy' \in Strategies /\ phase' \in 0 .. Period - 1
    /\ edits' \in Nat /\ crashes' = crashes
    /\ overlapped' \in BOOLEAN
    /\ overlapped => overlapped'
    /\ edits' = edits + 1 \/ (edits' = edits /\ strategy' = strategy)

LEMMA ChangeIsCalm ==
    ASSUME Types, NEW k \in Kinds, Change(k)
    PROVE  Calm
<1>1. kinds' \in Seq(Kinds) /\ Len(kinds) <= Len(kinds')
  BY DEF Change, Types, TypeOK
<1>2. QED
  BY <1>1 DEF Change, Types, TypeOK, Calm, Rest, Observing

LEMMA EditIsCalm ==
    ASSUME Types, NEW s \in Strategies, Edit(s)
    PROVE  Calm
<1>1. Len(kinds) <= Len(kinds') /\ edits' \in Nat /\ edits' = edits + 1
  BY DEF Edit, Types, TypeOK
<1>2. QED
  BY <1>1 DEF Edit, Types, TypeOK, Calm, Rest, Observing

LEMMA StartIsCalm ==
    ASSUME Types, NEW t \in Ticks, StartObserve(t)
    PROVE  Calm
<1> DEFINE x == [pc |-> "observing", at |-> 0, how |-> strategy,
                 previous |-> row.source, from |-> Len(kinds)]
<1>1. /\ tick \in [Ticks -> Flight] /\ Len(kinds) \in Nat /\ row \in Row
      /\ row.source \in Nat /\ row.source <= Len(kinds) /\ strategy \in Strategies
  BY DEF Types, TypeOK, Row
<1>2. x \in Flight
  BY <1>1, IngestionAssumption DEF Flight
<1>3. /\ x.pc = "observing" /\ x.previous = row.source /\ x.from = Len(kinds)
      /\ x.how = strategy
  OBVIOUS
<1>4. tick' = [tick EXCEPT ![t] = x]
  BY DEF StartObserve
<1> HIDE DEF x
<1>5. /\ tick'[t] = x
      /\ Rest(t)' = IF x.pc \in {"materializing", "interpreting"} THEN x.rest ELSE <<>>
      /\ \A u \in Ticks \ {t} : tick'[u] = tick[u] /\ Rest(u)' = Rest(u)
      /\ x \in Flight => tick' \in [Ticks -> Flight]
  BY <1>1, <1>4, OneMoves
<1>6. Rest(t)' = <<>> /\ Rest(t) = <<>>
  BY <1>3, <1>5 DEF StartObserve, Starts, Idle, Rest
<1>7. /\ tick' \in [Ticks -> Flight]
      /\ \A u \in Ticks :
           /\ Rest(u)' = Rest(u)
           /\ tick'[u].pc = "materializing" => tick'[u].rest # <<>>
           /\ Observing(u)' => tick'[u].previous <= tick'[u].from
           /\ Observing(u)' =>
                \/ /\ Observing(u)
                   /\ tick'[u].previous = tick[u].previous /\ tick'[u].how = tick[u].how
                \/ tick'[u].previous = row.source /\ tick'[u].how = strategy
  BY <1>1, <1>2, <1>3, <1>5, <1>6 DEF Types, Observing
<1>8. QED
  BY <1>1, <1>7 DEF StartObserve, Starts, Types, TypeOK, Calm

LEMMA FailIsCalm ==
    ASSUME Types, NEW t \in Ticks, FailObserve(t)
    PROVE  Calm
<1>1. tick \in [Ticks -> Flight] /\ Len(kinds) \in Nat
  BY DEF Types, TypeOK
<1>2. Idle \in Flight /\ Idle.pc = "idle"
  BY DEF Flight, Idle
<1>3. /\ tick'[t] = Idle
      /\ Rest(t)' = IF Idle.pc \in {"materializing", "interpreting"} THEN Idle.rest ELSE <<>>
      /\ \A u \in Ticks \ {t} : tick'[u] = tick[u] /\ Rest(u)' = Rest(u)
      /\ Idle \in Flight => tick' \in [Ticks -> Flight]
  BY <1>1, OneMoves DEF FailObserve
<1>4. Rest(t)' = <<>> /\ Rest(t) = <<>>
  BY <1>2, <1>3 DEF FailObserve, Rest
<1>5. /\ tick' \in [Ticks -> Flight]
      /\ \A u \in Ticks :
           /\ Rest(u)' = Rest(u)
           /\ tick'[u].pc = "materializing" => tick'[u].rest # <<>>
           /\ Observing(u)' => tick'[u].previous <= tick'[u].from
           /\ Observing(u)' => /\ Observing(u) /\ tick'[u].previous = tick[u].previous
                               /\ tick'[u].how = tick[u].how
  BY <1>2, <1>3, <1>4 DEF Types, Observing
<1>6. QED
  BY <1>1, <1>5 DEF FailObserve, Types, TypeOK, Calm

LEMMA InterpretedIsCalm ==
    ASSUME Types, NEW t \in Ticks, Interpreted(t)
    PROVE  Calm
<1> DEFINE s == tick[t].rest
           x == Materializing(s)
<1>1. tick \in [Ticks -> Flight] /\ Len(kinds) \in Nat
  BY DEF Types, TypeOK
<1>2. s \in Seq(Nat) /\ Rest(t) = s
  BY <1>1, FlightFields DEF Interpreted, Rest
<1>3. /\ x \in Flight /\ x.pc \in {"idle", "materializing"}
      /\ x.pc = "materializing" => x.rest # <<>>
      /\ (IF x.pc \in {"materializing", "interpreting"} THEN x.rest ELSE <<>>) = s
  BY <1>2, SpanStarts
<1>4. tick' = [tick EXCEPT ![t] = x]
  BY <1>1 DEF Interpreted
<1> HIDE DEF x
<1>5. /\ tick'[t] = x
      /\ Rest(t)' = IF x.pc \in {"materializing", "interpreting"} THEN x.rest ELSE <<>>
      /\ \A u \in Ticks \ {t} : tick'[u] = tick[u] /\ Rest(u)' = Rest(u)
      /\ x \in Flight => tick' \in [Ticks -> Flight]
  BY <1>1, <1>4, OneMoves
<1>6. /\ tick' \in [Ticks -> Flight]
      /\ \A u \in Ticks :
           /\ Rest(u)' = Rest(u)
           /\ tick'[u].pc = "materializing" => tick'[u].rest # <<>>
           /\ Observing(u)' => tick'[u].previous <= tick'[u].from
           /\ Observing(u)' => /\ Observing(u) /\ tick'[u].previous = tick[u].previous
                               /\ tick'[u].how = tick[u].how
  BY <1>2, <1>3, <1>5 DEF Types, Observing
<1>7. QED
  BY <1>1, <1>6 DEF Interpreted, Types, TypeOK, Calm

LEMMA OlderType ==
    ASSUME NEW bound \in Nat, NEW time \in -Horizon .. bound
    PROVE  Older(time) \in -Horizon .. bound
BY IngestionAssumption DEF Older

LEMMA TimeIsCalm ==
    ASSUME Types, TimeStep
    PROVE  Calm
<1> DEFINE B == Seq(Nat)
           D == -Horizon .. Settle
           F == -Horizon .. 0
           U == -Horizon .. Suppress
<1>1. Row = [source : Nat, debounce : B, dueAt : D, rollup : B, fired : F, until : U, last : F]
  BY DEF Row
<1>2. /\ tick \in [Ticks -> Flight] /\ Len(kinds) \in Nat /\ row \in Row
  BY DEF Types, TypeOK
<1>3. /\ \A time \in D : Older(time) \in D
      /\ \A time \in F : Older(time) \in F
      /\ \A time \in U : Older(time) \in U
  BY OlderType, IngestionAssumption
<1>4. row' = [row EXCEPT !.dueAt = Older(@), !.fired = Older(@),
                          !.until = Older(@), !.last = Older(@)]
  BY DEF TimeStep
<1> HIDE DEF B, D, F, U
<1>5. /\ row' \in Row /\ row'.source = row.source
      /\ row'.debounce = row.debounce /\ row'.rollup = row.rollup
  BY <1>1, <1>2, <1>3, <1>4
<1>6. phase' \in 0 .. Period - 1
  BY IngestionAssumption DEF TimeStep, Types, TypeOK
<1>7. ASSUME NEW t \in Ticks
      PROVE  /\ tick'[t] \in Flight
             /\ Rest(t)' = Rest(t)
             /\ tick'[t].pc = "materializing" => tick'[t].rest # <<>>
             /\ Observing(t)' => tick'[t].previous <= tick'[t].from
             /\ Observing(t)' => /\ Observing(t) /\ tick'[t].previous = tick[t].previous
                                 /\ tick'[t].how = tick[t].how
  <2>1. CASE Observing(t)
    <3> DEFINE x == [tick[t] EXCEPT !.at = @ - 1]
    <3>1. tick'[t] = x
      BY <2>1 DEF TimeStep, Observing
    <3>2. tick[t].at \in -MaxAge .. 0 /\ tick[t].at > -MaxAge
      BY <1>2, <2>1, FlightFields DEF TimeStep, Observing
    <3>3. tick[t].at - 1 \in -MaxAge .. 0
      BY <3>2, IngestionAssumption
    <3>4. tick[t] \in [pc : {"observing"}, at : -MaxAge .. 0, how : Strategies,
                       previous : Nat, from : Nat]
      BY <1>2, <2>1 DEF Flight, Observing, Idle
    <3>5. /\ x \in [pc : {"observing"}, at : -MaxAge .. 0, how : Strategies,
                    previous : Nat, from : Nat]
          /\ x.pc = "observing" /\ x.previous = tick[t].previous /\ x.from = tick[t].from
          /\ x.how = tick[t].how
      BY <3>3, <3>4
    <3>6. x \in Flight
      BY <3>5 DEF Flight
    <3> HIDE DEF x
    <3>7. QED
      BY <2>1, <3>1, <3>5, <3>6 DEF Rest, Observing, Types
  <2>2. CASE ~Observing(t)
    <3>1. tick'[t] = tick[t]
      BY <2>2 DEF TimeStep, Observing
    <3>2. QED
      BY <1>2, <2>2, <3>1 DEF Rest, Observing, Types
  <2>3. QED
    BY <2>1, <2>2
<1>8. tick' \in [Ticks -> Flight]
  <2>1. tick' = [t \in Ticks |-> tick'[t]]
    BY DEF TimeStep
  <2>2. QED
    BY <1>7, <2>1
<1>9. UNCHANGED <<kinds, chain, strategy, edits, crashes, overlapped, forgone, lost>>
  BY DEF TimeStep
<1>10. QED
  BY <1>2, <1>5, <1>6, <1>7, <1>8, <1>9 DEF Types, TypeOK, Calm

LEMMA StepCases ==
    ASSUME Types, [Next]_vars
    PROVE  \/ Calm
           \/ \E t \in Ticks : \E seen, all, d : Ingest(t) /\ Ingests(t, seen, all, d)
           \/ \E t \in Ticks : \E d : CheckWindow(t) /\ Flushes(t, d)
           \/ \E t \in Ticks : \E v, after : Materialize(t) /\ Inserts(t, v, after)
           \/ Crash
<1>1. CASE \E k \in Kinds : Change(k)
  BY <1>1, ChangeIsCalm
<1>2. CASE \E s \in Strategies : Edit(s)
  BY <1>2, EditIsCalm
<1>3. ASSUME NEW t \in Ticks, TickStep(t)
      PROVE  \/ Calm
             \/ \E seen, all, d : Ingest(t) /\ Ingests(t, seen, all, d)
             \/ \E d : CheckWindow(t) /\ Flushes(t, d)
             \/ \E v, after : Materialize(t) /\ Inserts(t, v, after)
  <2>1. CASE StartObserve(t)
    BY <2>1, StartIsCalm
  <2>2. CASE CheckWindow(t)
    BY <2>2, WindowEffect
  <2>3. CASE FailObserve(t)
    BY <2>3, FailIsCalm
  <2>4. CASE Ingest(t)
    BY <2>4, IngestEffect
  <2>5. CASE Materialize(t)
    BY <2>5, MaterializeEffect
  <2>6. CASE Interpreted(t)
    BY <2>6, InterpretedIsCalm
  <2>7. QED
    BY <1>3, <2>1, <2>2, <2>3, <2>4, <2>5, <2>6 DEF TickStep
<1>4. CASE TimeStep
  BY <1>4, TimeIsCalm
<1>5. CASE UNCHANGED vars
  BY <1>5 DEF vars, Calm, Types, TypeOK, Rest, Observing
<1>6. QED
  BY <1>1, <1>2, <1>3, <1>4, <1>5 DEF Next

(* A crash moves what was about to be inserted to what is lost.            *)
LEMMA CrashEffect ==
    ASSUME Types, Crash
    PROVE  /\ UNCHANGED <<kinds, row, chain, strategy, phase, edits, overlapped, forgone>>
           /\ crashes' = crashes + 1 /\ lost' = lost \cup InFlight
           /\ tick' \in [Ticks -> Flight]
           /\ \A t \in Ticks : tick'[t] = Idle /\ Rest(t)' = <<>> /\ ~Observing(t)'
           /\ InFlight' = {}
<1>1. \A t \in Ticks : tick'[t] = Idle
  BY DEF Crash
<1>2. \A t \in Ticks : Rest(t)' = <<>> /\ ~Observing(t)'
  BY <1>1 DEF Rest, Idle, Observing
<1>3. InFlight' = {}
  BY <1>2, FlightParts, EmptyElements
<1>4. tick' \in [Ticks -> Flight]
  BY DEF Crash, Flight
<1>5. QED
  BY <1>1, <1>2, <1>3, <1>4 DEF Crash

LEMMA CalmFlight ==
    ASSUME Calm
    PROVE  InFlight' = InFlight /\ Held(row)' = Held(row)
<1>1. InFlight' = InFlight
  BY FlightParts DEF Calm
<1>2. QED
  BY <1>1 DEF Calm, Held

-----------------------------------------------------------------------------
(***************************************************************************)
(* Types.                                                                  *)
(***************************************************************************)

LEMMA InitTypes == Init => Types
<1> SUFFICES ASSUME Init PROVE Types
  OBVIOUS
<1>1. row \in Row /\ row.source = 0 /\ row.debounce = <<>> /\ row.rollup = <<>>
  BY IngestionAssumption DEF Init, Row
<1>2. \A t \in Ticks : tick[t] = Idle /\ Idle.pc = "idle" /\ Idle \in Flight
  BY DEF Init, Idle, Flight
<1>3. InFlight = {}
  BY <1>2, FlightParts, EmptyElements DEF Rest
<1>4. tick \in [Ticks -> Flight]
  BY <1>2 DEF Init
<1>5. Elements(chain) = {} /\ Held(row) = {}
  BY <1>1, EmptyElements DEF Init, Held
<1>6. kinds \in Seq(Kinds) /\ Len(kinds) = 0 /\ chain \in Seq(Nat)
  BY DEF Init
<1>7. /\ strategy \in Strategies /\ phase \in 0 .. Period - 1
      /\ edits = 0 /\ crashes = 0 /\ overlapped = FALSE /\ forgone = {} /\ lost = {}
  BY DEF Init
<1>8. TypeOK
  <2>1. {edits, crashes} \subseteq Nat /\ overlapped \in BOOLEAN
    <3>1. {edits, crashes} \subseteq Nat
      BY <1>7
    <3>2. overlapped \in BOOLEAN
      BY <1>7
    <3>3. QED
      BY <3>1, <3>2
  <2>2. Elements(chain) \cup Held(row) \cup InFlight \subseteq 1 .. Len(kinds)
    BY <1>3, <1>5
  <2>3. row.source <= Len(kinds)
    BY <1>1, <1>6
  <2>4. QED
    BY <1>1, <1>4, <1>6, <1>7, <2>1, <2>2, <2>3 DEF TypeOK
<1>9. QED
  BY <1>2, <1>8 DEF Types, Observing

(* What is stored by a dispatch is well-typed if all it deals with was     *)
(* observed.                                                               *)
LEMMA StoresTypes ==
    ASSUME Types, NEW t \in Ticks, NEW d, Stores(t, d),
           chain' = chain, kinds' = kinds, strategy' = strategy, phase' = phase,
           edits' = edits, crashes' = crashes, overlapped' \in BOOLEAN, lost' = lost,
           row'.source <= Len(kinds), forgone' \subseteq 1 .. Len(kinds),
           Elements(d.emitted) \cup Held(d.next) \subseteq 1 .. Len(kinds)
    PROVE  Types'
<1>1. tick \in [Ticks -> Flight]
  BY DEF Types, TypeOK
<1>2. InFlight' \subseteq InFlight \cup Elements(d.emitted)
  BY FlightParts DEF Stores
<1>3. Elements(chain') \cup Held(row)' \cup InFlight' \subseteq 1 .. Len(kinds')
  BY <1>2 DEF Stores, Types, TypeOK
<1>4. TypeOK'
  BY <1>3 DEF Stores, Types, TypeOK
<1>5. QED
  BY <1>4 DEF Stores, Types, Observing

LEMMA StepTypes == Types /\ [Next]_vars => Types'
<1> SUFFICES ASSUME Types, [Next]_vars PROVE Types'
  OBVIOUS
<1>1. CASE Calm
  <2>1. /\ Elements(chain') \cup Held(row)' \cup InFlight' \subseteq 1 .. Len(kinds')
        /\ forgone' \cup lost' \subseteq 1 .. Len(kinds')
        /\ row'.source <= Len(kinds')
    <3>1. Len(kinds) \in Nat /\ Len(kinds') \in Nat /\ row.source \in Nat
      <4>1. kinds \in Seq(Kinds) /\ row \in Row
        BY DEF Types, TypeOK
      <4>2. kinds' \in Seq(Kinds)
        BY <1>1 DEF Calm
      <4>3. row.source \in Nat
        BY <4>1 DEF Row
      <4>4. QED
        BY <4>1, <4>2, <4>3
    <3>2. 1 .. Len(kinds) \subseteq 1 .. Len(kinds')
      BY <1>1, <3>1 DEF Calm
    <3>3. Elements(chain) \cup Held(row) \cup InFlight \subseteq 1 .. Len(kinds)
      BY DEF Types, TypeOK
    <3>4. forgone \cup lost \subseteq 1 .. Len(kinds) /\ row.source <= Len(kinds)
      BY DEF Types, TypeOK
    <3>5. chain' = chain /\ row'.source = row.source
      BY <1>1 DEF Calm
    <3>6. forgone' = forgone /\ lost' = lost /\ Len(kinds) <= Len(kinds')
      BY <1>1 DEF Calm
    <3>7. row'.source <= Len(kinds')
      BY <3>1, <3>4, <3>5, <3>6
    <3>8. QED
      BY <1>1, <3>2, <3>3, <3>4, <3>5, <3>6, <3>7, CalmFlight
  <2>2. TypeOK'
    <3>1. /\ kinds' \in Seq(Kinds) /\ row' \in Row /\ chain' \in Seq(Nat)
          /\ tick' \in [Ticks -> Flight]
      BY <1>1 DEF Calm, Types, TypeOK
    <3>2. /\ strategy' \in Strategies /\ phase' \in 0 .. Period - 1
          /\ {edits', crashes'} \subseteq Nat /\ overlapped' \in BOOLEAN
      <4>1. crashes \in Nat
        BY DEF Types, TypeOK
      <4>2. {edits', crashes'} \subseteq Nat
        BY <1>1, <4>1 DEF Calm
      <4>3. strategy' \in Strategies /\ phase' \in 0 .. Period - 1
        BY <1>1 DEF Calm
      <4>4. overlapped' \in BOOLEAN
        BY <1>1 DEF Calm
      <4>5. QED
        BY <4>2, <4>3, <4>4
    <3>3. QED
      BY <2>1, <3>1, <3>2 DEF TypeOK
  <2>3. QED
    BY <1>1, <2>2 DEF Calm, Types, Observing
<1>2. ASSUME NEW t \in Ticks, NEW seen, NEW all, NEW d, Ingest(t), Ingests(t, seen, all, d)
      PROVE  Types'
  <2>1. Len(kinds) \in Nat /\ tick[t].previous \in Nat
    BY <1>2, FlightFields DEF Ingest, Types, TypeOK
  <2>2. Elements(all) \subseteq 1 .. Len(kinds)
    BY <1>2, <2>1 DEF Ingests
  <2>3. Elements(chain) \cup Held(row) \cup InFlight \subseteq 1 .. Len(kinds)
    BY DEF Types, TypeOK
  <2>4. Elements(d.emitted) \cup Held(d.next) \subseteq 1 .. Len(kinds)
    BY <1>2, <2>2, <2>3 DEF Ingests, Dispatched
  <2>5. forgone' \subseteq 1 .. Len(kinds)
    BY <1>2, <2>2, <2>3 DEF Ingests, Waived, Types, TypeOK, Held
  <2>6. Stores(t, d) /\ row'.source <= Len(kinds)
    BY <1>2 DEF Ingests
  <2>7. UNCHANGED <<kinds, chain, strategy, phase, edits, crashes, overlapped, lost>>
    BY <1>2 DEF Ingest
  <2>8. overlapped \in BOOLEAN
    BY DEF Types, TypeOK
  <2>9. QED
    BY <2>4, <2>5, <2>6, <2>7, <2>8, StoresTypes
<1>3. ASSUME NEW t \in Ticks, NEW d, CheckWindow(t), Flushes(t, d)
      PROVE  Types'
  <2>1. Elements(d.emitted) \cup Held(d.next) \subseteq Held(row)
    BY <1>3, EmptyElements DEF Flushes, Held
  <2>2. UNCHANGED <<kinds, chain, strategy, phase, edits, crashes, forgone, lost>>
    BY <1>3 DEF CheckWindow
  <2>3. overlapped' \in BOOLEAN
    BY <1>3 DEF CheckWindow, Starts
  <2>4. /\ Held(row) \subseteq 1 .. Len(kinds) /\ forgone \subseteq 1 .. Len(kinds)
        /\ row.source <= Len(kinds)
    BY DEF Types, TypeOK
  <2>5. QED
    BY <1>3, <2>1, <2>2, <2>3, <2>4, StoresTypes DEF Flushes
<1>4. ASSUME NEW t \in Ticks, NEW v, NEW after, Materialize(t), Inserts(t, v, after)
      PROVE  Types'
  <2>1. tick \in [Ticks -> Flight] /\ chain \in Seq(Nat)
    BY DEF Types, TypeOK
  <2>2. InFlight' \subseteq InFlight /\ v \in InFlight
    BY <1>4, FlightParts DEF Inserts
  <2>3. chain' \in Seq(Nat) /\ Elements(chain') \subseteq Elements(chain) \cup {v}
    BY <1>4, <2>1, AppendElements DEF Inserts
  <2>4. UNCHANGED <<kinds, row, strategy, phase, edits, crashes, overlapped, lost>>
    BY <1>4 DEF Materialize
  <2>5. Held(row)' = Held(row)
    BY <2>4 DEF Held
  <2>6. /\ Elements(chain') \cup Held(row)' \cup InFlight' \subseteq 1 .. Len(kinds')
        /\ forgone' \cup lost' \subseteq 1 .. Len(kinds')
    BY <1>4, <2>2, <2>3, <2>4, <2>5 DEF Types, TypeOK, Inserts
  <2>7. TypeOK'
    BY <1>4, <2>3, <2>4, <2>6 DEF Types, TypeOK, Inserts
  <2>8. QED
    BY <1>4, <2>7 DEF Types, Inserts, Observing
<1>5. CASE Crash
  <2>1. /\ Elements(chain') \cup Held(row)' \cup InFlight' \subseteq 1 .. Len(kinds')
        /\ forgone' \cup lost' \subseteq 1 .. Len(kinds')
    BY <1>5, CrashEffect DEF Types, TypeOK, Held
  <2>2. crashes' \in Nat
    BY <1>5, CrashEffect DEF Types, TypeOK
  <2>3. TypeOK'
    BY <1>5, <2>1, <2>2, CrashEffect DEF Types, TypeOK
  <2>4. \A t \in Ticks : tick'[t].pc = "idle"
    BY <1>5, CrashEffect DEF Idle
  <2>5. QED
    BY <2>3, <2>4 DEF Types, Observing
<1>6. QED
  BY <1>1, <1>2, <1>3, <1>4, <1>5, StepCases

(* The stored row, the chain and the ticks in flight have their types, and *)
(* everything on the chain, held or in flight was observed.                *)
THEOREM IngestionTypes == Spec => []TypeOK
<1>1. Types => TypeOK
  BY DEF Types
<1>2. QED
  BY <1>1, InitTypes, StepTypes, PTL DEF Spec

-----------------------------------------------------------------------------
(***************************************************************************)
(* Nothing vanishes.                                                       *)
(***************************************************************************)

(* What is accounted for stays so, and an ingest accounts for all that it  *)
(* has moved the baseline past since the one it read.                      *)
LEMMA CoveredGrows ==
    ASSUME Types, [Next]_vars
    PROVE  /\ Covered \subseteq Covered'
           /\ \/ row'.source = row.source
              \/ \E t \in Ticks :
                   /\ Observing(t) /\ row'.source \in Nat
                   /\ tick[t].previous + 1 .. row'.source \subseteq Covered'
           /\ \A t \in Ticks : Observing(t)' =>
                \/ Observing(t) /\ tick'[t].previous = tick[t].previous
                \/ tick'[t].previous = row.source
<1>1. CASE Calm
  <2>1. Covered' = Covered
    BY <1>1, CalmFlight DEF Covered, Calm
  <2>2. QED
    BY <1>1, <2>1 DEF Calm
<1>2. ASSUME NEW t \in Ticks, NEW seen, NEW all, NEW d, Ingest(t), Ingests(t, seen, all, d)
      PROVE  /\ Covered \subseteq Covered'
             /\ Observing(t) /\ row'.source \in Nat
             /\ tick[t].previous + 1 .. row'.source \subseteq Covered'
             /\ \A u \in Ticks : Observing(u)' =>
                  Observing(u) /\ tick'[u].previous = tick[u].previous
  <2> DEFINE how == tick[t].how
             waived == Waived(how, all, d)
  <2>1. Stores(t, d) /\ Dispatched(d, row, Passing(all), how)
    BY <1>2 DEF Ingests
  <2>2. Observing(t) /\ Rest(t) = <<>>
    BY <1>2 DEF Ingest, Observing, Rest
  <2>3. InFlight \cup Elements(d.emitted) \subseteq InFlight'
    BY <2>1, <2>2, FlightParts, EmptyElements DEF Stores
  <2>4. Held(row)' = Held(d.next)
    BY <2>1 DEF Stores
  <2>5. chain' = chain /\ lost' = lost /\ forgone' = forgone \cup waived
    BY <1>2 DEF Ingest, Ingests
  <2>6. /\ waived = (Elements(all) \ Elements(Passing(all)))
               \cup (IF how = "throttle" THEN Elements(Passing(all)) \ Elements(d.emitted)
                     ELSE {})
               \cup (IF how = "rollup" THEN Elements(row.debounce) ELSE {})
    BY <1>2 DEF Ingests, Waived
  <2>7. Held(row) \cup Elements(Passing(all)) \subseteq
            Elements(d.emitted) \cup Held(d.next)
            \cup Droppable(row, Passing(all), how)
    BY <2>1 DEF Dispatched
  <2>8. Held(row) \cup Elements(all) \subseteq Elements(d.emitted) \cup Held(d.next) \cup waived
    BY <2>6, <2>7 DEF Droppable
  <2> HIDE DEF waived
  <2>9. Covered \cup Elements(all) \subseteq Covered'
    BY <2>3, <2>4, <2>5, <2>8 DEF Covered
  <2>10. Elements(all) = tick[t].previous + 1 .. row'.source /\ row'.source \in Nat
    BY <1>2 DEF Ingests
  <2>11. ASSUME NEW u \in Ticks, Observing(u)'
         PROVE  Observing(u) /\ tick'[u].previous = tick[u].previous
    <3>1. u # t
      BY <2>1, <2>11 DEF Stores, Observing
    <3>2. tick'[u] = tick[u]
      BY <2>1, <3>1 DEF Stores
    <3>3. QED
      BY <2>11, <3>2 DEF Observing
  <2>12. QED
    BY <2>2, <2>9, <2>10, <2>11
<1>3. ASSUME NEW t \in Ticks, NEW d, CheckWindow(t), Flushes(t, d)
      PROVE  /\ Covered \subseteq Covered' /\ row'.source = row.source
             /\ \A u \in Ticks : Observing(u)' =>
                  Observing(u) /\ tick'[u].previous = tick[u].previous
  <2>1. Stores(t, d) /\ row'.source = row.source
    BY <1>3 DEF Flushes
  <2>2. Rest(t) = <<>>
    BY <1>3 DEF CheckWindow, Starts, Idle, Rest
  <2>3. InFlight \cup Elements(d.emitted) \subseteq InFlight'
    BY <2>1, <2>2, FlightParts, EmptyElements DEF Stores
  <2>4. Held(row) \subseteq Held(d.next) \cup Elements(d.emitted)
    BY <1>3 DEF Flushes, Held
  <2>5. chain' = chain /\ forgone' = forgone /\ lost' = lost
    BY <1>3 DEF CheckWindow
  <2>6. Held(row)' = Held(d.next)
    BY <2>1 DEF Stores
  <2>7. Covered \subseteq Covered'
    BY <2>3, <2>4, <2>5, <2>6 DEF Covered
  <2>8. ASSUME NEW u \in Ticks, Observing(u)'
        PROVE  Observing(u) /\ tick'[u].previous = tick[u].previous
    <3>1. u # t
      BY <2>1, <2>8 DEF Stores, Observing
    <3>2. tick'[u] = tick[u]
      BY <2>1, <3>1 DEF Stores
    <3>3. QED
      BY <2>8, <3>2 DEF Observing
  <2>9. QED
    BY <2>1, <2>7, <2>8
<1>4. ASSUME NEW t \in Ticks, NEW v, NEW after, Materialize(t), Inserts(t, v, after)
      PROVE  /\ Covered \subseteq Covered' /\ row'.source = row.source
             /\ \A u \in Ticks : Observing(u)' =>
                  Observing(u) /\ tick'[u].previous = tick[u].previous
  <2>1. InFlight \subseteq InFlight' \cup {v}
    BY <1>4, FlightParts DEF Inserts
  <2>2. chain \in Seq(Nat) /\ v \in Nat
    BY <1>4 DEF Types, TypeOK, Inserts
  <2>3. Elements(chain) \cup forgone \cup {v} \subseteq Elements(chain') \cup forgone'
    <3>1. Elements(Append(chain, v)) = Elements(chain) \cup {v}
      BY <2>2, AppendElements
    <3>2. \/ chain' = Append(chain, v) /\ forgone' = forgone
          \/ chain' = chain /\ forgone' = forgone \cup {v}
      BY <1>4 DEF Inserts
    <3>3. QED
      BY <3>1, <3>2
  <2>4. row' = row /\ lost' = lost
    BY <1>4 DEF Materialize
  <2>5. Covered \subseteq Covered'
    BY <2>1, <2>3, <2>4 DEF Covered, Held
  <2>6. ASSUME NEW u \in Ticks, Observing(u)'
        PROVE  Observing(u) /\ tick'[u].previous = tick[u].previous
    BY <1>4, <2>6 DEF Inserts, Observing
  <2>7. QED
    BY <2>4, <2>5, <2>6
<1>5. CASE Crash
  <2>1. Covered \subseteq Covered' /\ row' = row
    BY <1>5, CrashEffect DEF Covered, Held
  <2>2. QED
    BY <1>5, <2>1, CrashEffect
<1>6. QED
  BY <1>1, <1>2, <1>3, <1>4, <1>5, StepCases

LEMMA StepAccounted == Types /\ Accounted /\ [Next]_vars => Accounted'
<1> SUFFICES ASSUME Types, Accounted, [Next]_vars PROVE Accounted'
  OBVIOUS
<1>1. /\ Covered \subseteq Covered'
      /\ \/ row'.source = row.source
         \/ \E t \in Ticks :
              /\ Observing(t) /\ row'.source \in Nat
              /\ tick[t].previous + 1 .. row'.source \subseteq Covered'
      /\ \A t \in Ticks : Observing(t)' =>
           \/ Observing(t) /\ tick'[t].previous = tick[t].previous
           \/ tick'[t].previous = row.source
  BY CoveredGrows
<1>2. 1 .. row.source \subseteq Covered
  BY DEF Accounted, NothingVanishes, Covered
<1>3. \A t \in Ticks : Observing(t) => 1 .. tick[t].previous \subseteq Covered
  BY DEF Accounted
<1>4. 1 .. row'.source \subseteq Covered'
  <2>1. CASE row'.source = row.source
    BY <1>1, <1>2, <2>1
  <2>2. ASSUME NEW t \in Ticks, Observing(t), row'.source \in Nat,
               tick[t].previous + 1 .. row'.source \subseteq Covered'
        PROVE  1 .. row'.source \subseteq Covered'
    <3>1. tick[t].previous \in Nat
      BY <2>2, FlightFields DEF Types, TypeOK, Observing
    <3>2. 1 .. tick[t].previous \subseteq Covered'
      BY <1>1, <1>3, <2>2
    <3>3. 1 .. row'.source \subseteq
              1 .. tick[t].previous \cup (tick[t].previous + 1 .. row'.source)
      BY <2>2, <3>1
    <3>4. QED
      BY <2>2, <3>2, <3>3
  <2>3. QED
    BY <1>1, <2>1, <2>2
<1>5. ASSUME NEW t \in Ticks, Observing(t)'
      PROVE  1 .. tick'[t].previous \subseteq Covered'
  BY <1>1, <1>2, <1>3, <1>5
<1>6. NothingVanishes'
  BY <1>4 DEF NothingVanishes, Covered
<1>7. QED
  BY <1>5, <1>6 DEF Accounted

LEMMA AccountedInvariant == Spec => [](Types /\ Accounted)
<1>1. Init => Accounted
  BY DEF Init, Accounted, NothingVanishes, Observing, Idle
<1>2. QED
  BY <1>1, InitTypes, StepTypes, StepAccounted, PTL DEF Spec

(* Every change the stored baseline has passed is on the chain, held,      *)
(* about to be inserted, dropped on purpose or caught by a crash, however  *)
(* ticks overlap and whatever fails; and nothing else is.                  *)
THEOREM NothingIsLost == Spec => []Conserved
<1>1. TypeOK /\ Accounted => Conserved
  BY DEF Accounted, Conserved
<1>2. QED
  BY <1>1, AccountedInvariant, IngestionTypes, PTL

-----------------------------------------------------------------------------
(***************************************************************************)
(* Ticks that do not overlap.                                              *)
(***************************************************************************)

Alone == \A t, u \in Ticks : tick[t] # Idle /\ tick[u] # Idle => t = u

LEMMA OthersStay ==
    ASSUME NEW t \in Ticks, \A u \in Ticks \ {t} : tick'[u] = tick[u],
           (tick[t] # Idle /\ Alone) \/ \A u \in Ticks : tick[u] = Idle
    PROVE  Alone'
BY DEF Alone

LEMMA StepAlone ==
    ASSUME Types, [Next]_vars, ~overlapped', ~overlapped => Alone
    PROVE  ~overlapped /\ Alone /\ Alone'
<1>1. CASE \E k \in Kinds : Change(k)
  BY <1>1 DEF Change, Alone
<1>2. CASE \E s \in Strategies : Edit(s)
  BY <1>2 DEF Edit, Alone
<1>3. ASSUME NEW t \in Ticks, TickStep(t) PROVE ~overlapped /\ Alone /\ Alone'
  <2>1. tick \in [Ticks -> Flight]
    BY DEF Types, TypeOK
  <2>2. \A u \in Ticks \ {t} : tick'[u] = tick[u]
    BY <1>3, <2>1 DEF TickStep, StartObserve, CheckWindow, FailObserve, Ingest, Materialize,
                      Interpreted
  <2>3. CASE StartObserve(t) \/ CheckWindow(t)
    <3>1. ~overlapped /\ \A u \in Ticks : tick[u] = Idle
      BY <2>3 DEF StartObserve, CheckWindow, Starts
    <3>2. QED
      BY <2>2, <3>1, OthersStay
  <2>4. CASE FailObserve(t) \/ Ingest(t) \/ Materialize(t) \/ Interpreted(t)
    <3>1. tick[t].pc # "idle"
      BY <2>4 DEF FailObserve, Ingest, Materialize, Interpreted
    <3>2. overlapped' = overlapped
      BY <2>4 DEF FailObserve, Ingest, Materialize, Interpreted
    <3>3. tick[t] # Idle
      BY <3>1 DEF Idle
    <3>4. QED
      BY <2>2, <3>2, <3>3, OthersStay
  <2>5. QED
    BY <1>3, <2>3, <2>4 DEF TickStep
<1>4. CASE Crash
  BY <1>4 DEF Crash, Alone
<1>5. CASE TimeStep
  <2>1. ASSUME NEW t \in Ticks, tick'[t] # Idle PROVE tick[t] # Idle
    BY <2>1, <1>5 DEF TimeStep, Idle
  <2>2. QED
    BY <1>5, <2>1 DEF TimeStep, Alone
<1>6. CASE UNCHANGED vars
  BY <1>6 DEF vars, Alone
<1>7. QED
  BY <1>1, <1>2, <1>3, <1>4, <1>5, <1>6 DEF Next

LEMMA StepOneByOne == Types /\ OneByOne /\ [Next]_vars => OneByOne'
<1> SUFFICES ASSUME Types, OneByOne, [Next]_vars, ~overlapped'
             PROVE  /\ Alone'
                    /\ \A t \in Ticks : Observing(t)' => tick'[t].previous = row'.source
                    /\ Elements(chain') \cup Held(row)' \cup InFlight' \subseteq 1 .. row'.source
  BY DEF OneByOne, Alone
<1>1. ~overlapped /\ Alone /\ Alone'
  BY StepAlone DEF OneByOne, Alone
<1>2. /\ \A t \in Ticks : Observing(t) => tick[t].previous = row.source
      /\ Elements(chain) \cup Held(row) \cup InFlight \subseteq 1 .. row.source
  BY <1>1 DEF OneByOne
<1>3. tick \in [Ticks -> Flight] /\ row.source \in Nat /\ chain \in Seq(Nat)
  BY DEF Types, TypeOK, Row
<1>4. CASE Calm
  <2>1. ASSUME NEW t \in Ticks, Observing(t)' PROVE tick'[t].previous = row'.source
    BY <1>2, <1>4, <2>1 DEF Calm
  <2>2. Elements(chain') \cup Held(row)' \cup InFlight' \subseteq 1 .. row'.source
    BY <1>2, <1>4, CalmFlight DEF Calm
  <2>3. QED
    BY <1>1, <2>1, <2>2
<1>5. ASSUME NEW t \in Ticks, NEW seen, NEW all, NEW d, Ingest(t), Ingests(t, seen, all, d)
      PROVE  /\ \A u \in Ticks : ~Observing(u)'
             /\ Elements(chain') \cup Held(row)' \cup InFlight' \subseteq 1 .. row'.source
  <2>1. Stores(t, d) /\ Dispatched(d, row, Passing(all), tick[t].how)
    BY <1>5 DEF Ingests
  <2>2. tick[t].previous = row.source /\ tick[t] # Idle
    BY <1>2, <1>5 DEF Ingest, Observing, Idle
  <2>3. \A u \in Ticks \ {t} : tick'[u] = Idle
    BY <1>1, <2>1, <2>2 DEF Alone, Stores
  <2>4. \A u \in Ticks : ~Observing(u)'
    BY <2>1, <2>3 DEF Stores, Observing, Idle
  <2>5. /\ Elements(Passing(all)) \subseteq row.source + 1 .. row'.source
        /\ row'.source \in Nat /\ row.source <= row'.source
    BY <1>5, <2>2 DEF Ingests
  <2>6. 1 .. row.source \cup (row.source + 1 .. row'.source) \subseteq 1 .. row'.source
    BY <1>3, <2>5
  <2>7. Elements(d.emitted) \cup Held(d.next) \subseteq 1 .. row'.source
    BY <1>2, <2>1, <2>5, <2>6 DEF Dispatched
  <2>8. InFlight' \subseteq InFlight \cup Elements(d.emitted)
    BY <2>1, FlightParts DEF Stores
  <2>9. chain' = chain /\ Held(row)' = Held(d.next)
    BY <1>5, <2>1 DEF Ingest, Stores
  <2>10. QED
    BY <1>2, <2>4, <2>6, <2>7, <2>8, <2>9
<1>6. ASSUME NEW t \in Ticks, NEW d, CheckWindow(t), Flushes(t, d)
      PROVE  /\ \A u \in Ticks : ~Observing(u)'
             /\ Elements(chain') \cup Held(row)' \cup InFlight' \subseteq 1 .. row'.source
  <2>1. Stores(t, d) /\ row'.source = row.source /\ chain' = chain
    BY <1>6 DEF Flushes, CheckWindow
  <2>2. \A u \in Ticks : tick[u] = Idle
    BY <1>6 DEF CheckWindow, Starts
  <2>3. \A u \in Ticks : ~Observing(u)'
    BY <2>1, <2>2 DEF Stores, Observing, Idle
  <2>4. Elements(d.emitted) \cup Held(d.next) \subseteq Held(row)
    BY <1>6, EmptyElements DEF Flushes, Held
  <2>5. InFlight' \subseteq InFlight \cup Elements(d.emitted)
    BY <2>1, FlightParts DEF Stores
  <2>6. QED
    BY <1>2, <2>1, <2>3, <2>4, <2>5 DEF Stores
<1>7. ASSUME NEW t \in Ticks, NEW v, NEW after, Materialize(t), Inserts(t, v, after)
      PROVE  /\ \A u \in Ticks : Observing(u)' => tick'[u].previous = row'.source
             /\ Elements(chain') \cup Held(row)' \cup InFlight' \subseteq 1 .. row'.source
  <2>1. row' = row
    BY <1>7 DEF Materialize
  <2>2. ASSUME NEW u \in Ticks, Observing(u)' PROVE tick'[u].previous = row'.source
    <3>1. Observing(u) /\ tick'[u] = tick[u]
      BY <1>7, <2>2 DEF Inserts, Observing
    <3>2. QED
      BY <1>2, <2>1, <3>1
  <2>3. InFlight' \subseteq InFlight /\ v \in InFlight
    BY <1>7, FlightParts DEF Inserts
  <2>4. Elements(Append(chain, v)) = Elements(chain) \cup {v}
    BY <1>3, <1>7, AppendElements DEF Inserts
  <2>5. Elements(chain') \subseteq Elements(chain) \cup {v}
    BY <1>7, <2>4 DEF Inserts
  <2>6. QED
    BY <1>2, <2>1, <2>2, <2>3, <2>5 DEF Held
<1>8. CASE Crash
  BY <1>1, <1>2, <1>8, CrashEffect DEF Held
<1>9. QED
  BY <1>1, <1>4, <1>5, <1>6, <1>7, <1>8, StepCases

LEMMA StepOneStrategy == Types /\ OneStrategy /\ [Next]_vars => OneStrategy'
<1> SUFFICES ASSUME Types, OneStrategy, [Next]_vars, edits' = 0
             PROVE  /\ strategy' # "default" => Steady(row', strategy')
                    /\ \A t \in Ticks : Observing(t)' => tick'[t].how = strategy'
  BY DEF OneStrategy
<1>1. edits \in Nat /\ tick \in [Ticks -> Flight]
  BY DEF Types, TypeOK
<1>2. CASE Calm
  <2>1. edits = 0 /\ strategy' = strategy
    BY <1>1, <1>2 DEF Calm
  <2>2. /\ strategy # "default" => Steady(row, strategy)
        /\ \A t \in Ticks : Observing(t) => tick[t].how = strategy
    BY <2>1 DEF OneStrategy
  <2>3. strategy' # "default" => Steady(row', strategy')
    BY <1>2, <2>1, <2>2 DEF Calm, Steady
  <2>4. QED
    BY <1>2, <2>1, <2>2, <2>3 DEF Calm
<1>3. ASSUME edits' = edits, strategy' = strategy
      PROVE  /\ edits = 0
             /\ strategy # "default" => Steady(row, strategy)
             /\ \A t \in Ticks : Observing(t) => tick[t].how = strategy
  BY <1>3 DEF OneStrategy
<1>4. ASSUME NEW t \in Ticks, NEW d, Stores(t, d)
      PROVE  \A u \in Ticks : Observing(u)' => Observing(u) /\ tick'[u] = tick[u]
  BY <1>4 DEF Stores, Observing
<1>5. ASSUME NEW t \in Ticks, NEW seen, NEW all, NEW d, Ingest(t), Ingests(t, seen, all, d)
      PROVE  /\ strategy' # "default" => Steady(row', strategy')
             /\ \A u \in Ticks : Observing(u)' => tick'[u].how = strategy'
  <2>1. Stores(t, d) /\ Dispatched(d, row, Passing(all), tick[t].how)
    BY <1>5 DEF Ingests
  <2>2. edits' = edits /\ strategy' = strategy /\ Observing(t)
    BY <1>5 DEF Ingest, Observing
  <2>3. tick[t].how = strategy
    BY <1>3, <2>2
  <2>4. strategy # "default" => Steady(row', strategy)
    BY <1>3, <2>1, <2>2, <2>3 DEF Dispatched, Stores, Steady
  <2>5. QED
    BY <1>3, <1>4, <2>1, <2>2, <2>4
<1>6. ASSUME NEW t \in Ticks, NEW d, CheckWindow(t), Flushes(t, d)
      PROVE  /\ strategy' # "default" => Steady(row', strategy')
             /\ \A u \in Ticks : Observing(u)' => tick'[u].how = strategy'
  <2>1. Stores(t, d) /\ row'.debounce = row.debounce
    BY <1>6 DEF Flushes, Stores
  <2>2. edits' = edits /\ strategy' = strategy /\ strategy = "rollup"
    BY <1>6 DEF CheckWindow
  <2>3. Steady(row', strategy)
    BY <1>3, <2>1, <2>2 DEF Steady
  <2>4. QED
    BY <1>3, <1>4, <2>1, <2>2, <2>3
<1>7. ASSUME NEW t \in Ticks, NEW v, NEW after, Materialize(t), Inserts(t, v, after)
      PROVE  /\ strategy' # "default" => Steady(row', strategy')
             /\ \A u \in Ticks : Observing(u)' => tick'[u].how = strategy'
  <2>1. row' = row /\ edits' = edits /\ strategy' = strategy
    BY <1>7 DEF Materialize
  <2>2. \A u \in Ticks : Observing(u)' => Observing(u) /\ tick'[u] = tick[u]
    BY <1>7 DEF Inserts, Observing
  <2>3. QED
    BY <1>3, <2>1, <2>2
<1>8. CASE Crash
  BY <1>3, <1>8, CrashEffect
<1>9. QED
  BY <1>2, <1>5, <1>6, <1>7, <1>8, StepCases

-----------------------------------------------------------------------------
(***************************************************************************)
(* The order of the chain.                                                 *)
(***************************************************************************)

(* What orders the changes, and can be told of what a dispatch emits, is   *)
(* kept by every step as long as ticks do not overlap.                     *)
LEMMA StepLinked ==
    ASSUME NEW R, Earlier \subseteq R,
           Types, OneByOne, OneStrategy, [Next]_vars, ~overlapped', Linked(R),
           Symmetric(R) \/ (edits = 0 /\ strategy # "default")
    PROVE  Linked(R)'
<1>1. ~overlapped /\ Alone /\ Alone'
  BY StepAlone DEF OneByOne, Alone
<1>2. /\ \A t \in Ticks : Observing(t) => tick[t].previous = row.source
      /\ Elements(chain) \cup Held(row) \cup InFlight \subseteq 1 .. row.source
  BY <1>1 DEF OneByOne
<1>3. /\ tick \in [Ticks -> Flight] /\ chain \in Seq(Nat) /\ row.source \in Nat
      /\ row.debounce \in Seq(Nat) /\ row.rollup \in Seq(Nat)
  BY DEF Types, TypeOK, Row
<1>4. /\ Chained(chain, R) /\ HeldInLine(row, R)
      /\ Elements(chain) \X Held(row) \subseteq R
      /\ \A t \in Ticks : /\ Chained(Rest(t), R)
                          /\ Elements(chain) \X Elements(Rest(t)) \subseteq R
                          /\ Elements(Rest(t)) \X Held(row) \subseteq R
  BY DEF Linked
<1>5. ASSUME NEW t \in Ticks, tick[t] # Idle
      PROVE  \A u \in Ticks \ {t} : tick[u] = Idle /\ Rest(u) = <<>>
  BY <1>1, <1>5 DEF Alone, Rest, Idle
<1>6. CASE Calm
  <2>1. HeldInLine(row', R) /\ Held(row)' = Held(row)
    BY <1>4, <1>6, CalmFlight DEF HeldInLine, Calm
  <2>2. QED
    BY <1>4, <1>6, <2>1 DEF Linked, Calm
(* A row and a span that were stored together.                             *)
<1>7. ASSUME NEW t \in Ticks, NEW d, Stores(t, d), chain' = chain,
             \A u \in Ticks \ {t} : Rest(u) = <<>>,
             Chained(d.emitted, R), HeldInLine(d.next, R),
             Elements(d.emitted) \X Held(d.next) \subseteq R,
             Elements(chain) \X (Elements(d.emitted) \cup Held(d.next)) \subseteq R
      PROVE  Linked(R)'
  <2>1. HeldInLine(row', R) /\ Held(row)' = Held(d.next)
    BY <1>7 DEF HeldInLine, Stores
  <2>2. Elements(chain') \X Held(row)' \subseteq R
    BY <1>7, <2>1
  <2>3. ASSUME NEW u \in Ticks
        PROVE  /\ Chained(Rest(u)', R)
               /\ Elements(chain') \X Elements(Rest(u)') \subseteq R
               /\ Elements(Rest(u)') \X Held(row)' \subseteq R
    <3>1. CASE u = t
      BY <1>7, <2>1, <3>1 DEF Stores
    <3>2. CASE u # t
      <4>1. Rest(u)' = <<>>
        BY <1>7, <3>2 DEF Stores
      <4>2. QED
        BY <4>1, EmptyElements
    <3>3. QED
      BY <3>1, <3>2
  <2>4. QED
    BY <1>4, <1>7, <2>1, <2>2, <2>3 DEF Linked
<1>8. ASSUME NEW t \in Ticks, NEW seen, NEW all, NEW d, Ingest(t), Ingests(t, seen, all, d)
      PROVE  Linked(R)'
  <2> DEFINE how == tick[t].how
             passing == Passing(all)
  <2>1. /\ Stores(t, d) /\ Dispatched(d, row, passing, how)
        /\ KeepsLine(d, row, passing, how, R) /\ Chained(passing, Earlier)
    BY <1>8 DEF Ingests
  <2>2. Observing(t) /\ tick[t] # Idle /\ chain' = chain
    BY <1>8 DEF Ingest, Observing, Idle
  <2>3. Elements(passing) \subseteq row.source + 1 .. row'.source
    BY <1>2, <1>8, <2>2 DEF Ingests
  <2> HIDE DEF passing
  <2>4. (1 .. row.source) \X Elements(passing) \subseteq Earlier
    BY <1>3, <2>3 DEF Earlier
  <2>5. Chained(passing, R)
    BY <2>1 DEF Chained
  <2>6. Symmetric(R) \/ Steady(row, how)
    BY <2>2 DEF OneStrategy
  <2>7. Held(row) \X Elements(passing) \subseteq R
    BY <1>2, <2>4
  <2>8. Elements(chain) \X Elements(passing) \subseteq R
    BY <1>2, <2>4
  <2>9. /\ Chained(d.emitted, R) /\ HeldInLine(d.next, R)
        /\ Elements(d.emitted) \X Held(d.next) \subseteq R
    BY <1>4, <2>1, <2>5, <2>6, <2>7 DEF KeepsLine
  <2>10. Elements(d.emitted) \cup Held(d.next) \subseteq Held(row) \cup Elements(passing)
    BY <2>1 DEF Dispatched
  <2>11. Elements(chain) \X (Elements(d.emitted) \cup Held(d.next)) \subseteq R
    BY <1>4, <2>8, <2>10
  <2>12. QED
    BY <1>5, <1>7, <2>1, <2>2, <2>9, <2>11
<1>9. ASSUME NEW t \in Ticks, NEW d, CheckWindow(t), Flushes(t, d)
      PROVE  Linked(R)'
  <2>1. /\ Stores(t, d) /\ chain' = chain /\ d.next.debounce = row.debounce
        /\ \/ d.emitted = row.rollup /\ d.next.rollup = <<>>
           \/ d.emitted = <<>> /\ d.next.rollup = row.rollup
    BY <1>9 DEF Flushes, CheckWindow
  <2>2. \A u \in Ticks : Rest(u) = <<>>
    BY <1>9, IdleRests DEF CheckWindow, Starts
  <2>3. /\ Chained(row.debounce, R) /\ Chained(row.rollup, R)
        /\ Elements(row.debounce) \X Elements(row.rollup) \subseteq R
    BY <1>4 DEF HeldInLine
  <2>4. Chained(d.emitted, R) /\ HeldInLine(d.next, R)
    BY <2>1, <2>3, EmptyElements DEF HeldInLine
  <2>5. Elements(row.rollup) \X Elements(row.debounce) \subseteq R
    <3>1. CASE Symmetric(R)
      <4>1. ASSUME NEW x \in Elements(row.rollup), NEW y \in Elements(row.debounce)
            PROVE  <<x, y>> \in R
        <5>1. x \in Nat /\ y \in Nat /\ <<y, x>> \in R
          BY <1>3, <2>3, ElementsType
        <5>2. QED
          BY <3>1, <5>1 DEF Symmetric
      <4>2. QED
        BY <4>1
    <3>2. CASE edits = 0 /\ strategy # "default"
      <4>1. Steady(row, "rollup")
        BY <1>9, <3>2 DEF OneStrategy, CheckWindow
      <4>2. Elements(row.debounce) = {}
        BY <4>1, EmptyElements DEF Steady
      <4>3. QED
        BY <4>2
    <3>3. QED
      BY <3>1, <3>2
  <2>6. Elements(d.emitted) \X Held(d.next) \subseteq R
    BY <2>1, <2>5, EmptyElements DEF Held
  <2>7. Elements(d.emitted) \cup Held(d.next) \subseteq Held(row)
    BY <2>1, EmptyElements DEF Held
  <2>8. QED
    BY <1>4, <1>7, <2>1, <2>2, <2>4, <2>6, <2>7
<1>10. ASSUME NEW t \in Ticks, NEW v, NEW after, Materialize(t), Inserts(t, v, after)
       PROVE  Linked(R)'
  <2>1. row' = row /\ Held(row)' = Held(row)
    BY <1>10 DEF Materialize, Held
  <2>2. /\ v \in Nat /\ after \in Seq(Nat) /\ Rest(t)' = after
        /\ Elements(Rest(t)) = {v} \cup Elements(after)
        /\ Chained(after, R) /\ {v} \X Elements(after) \subseteq R
    BY <1>4, <1>10 DEF Inserts
  <2>3. /\ Elements(chain) \X {v} \subseteq R
        /\ Elements(chain) \X Elements(after) \subseteq R
        /\ {v} \X Held(row) \subseteq R /\ Elements(after) \X Held(row) \subseteq R
    <3>1. /\ Elements(chain) \X Elements(Rest(t)) \subseteq R
          /\ Elements(Rest(t)) \X Held(row) \subseteq R
      BY <1>4
    <3>2. QED
      BY <2>2, <3>1
  <2>4. /\ Chained(Append(chain, v), R)
        /\ Elements(Append(chain, v)) = Elements(chain) \cup {v}
    BY <1>3, <1>4, <2>2, <2>3, AppendChains, AppendElements
  <2>5. chain' = Append(chain, v) \/ chain' = chain
    BY <1>10 DEF Inserts
  <2>6. /\ Chained(chain', R)
        /\ Elements(chain') \subseteq Elements(chain) \cup {v}
    BY <1>4, <2>4, <2>5
  <2>7. ASSUME NEW u \in Ticks
        PROVE  /\ Chained(Rest(u)', R)
               /\ Elements(chain') \X Elements(Rest(u)') \subseteq R
               /\ Elements(Rest(u)') \X Held(row)' \subseteq R
    <3>1. CASE u = t
      BY <2>1, <2>2, <2>3, <2>6, <3>1
    <3>2. CASE u # t
      <4>1. Rest(u)' = Rest(u) /\ Rest(u) = <<>>
        BY <1>5, <1>10, <3>2 DEF Inserts
      <4>2. QED
        BY <4>1, EmptyElements
    <3>3. QED
      BY <3>1, <3>2
  <2>8. Elements(chain') \X Held(row)' \subseteq R
    BY <1>4, <2>1, <2>3, <2>6
  <2>9. HeldInLine(row', R)
    BY <1>4, <2>1
  <2>10. QED
    BY <2>6, <2>7, <2>8, <2>9 DEF Linked
<1>11. CASE Crash
  <2>1. chain' = chain /\ row' = row /\ \A t \in Ticks : Rest(t)' = <<>>
    BY <1>11, CrashEffect
  <2>2. QED
    BY <1>4, <2>1, EmptyElements DEF Linked, Held
<1>12. QED
  BY <1>6, <1>8, <1>9, <1>10, <1>11, StepCases

LEMMA StepOrdered == Types /\ OneByOne /\ OneStrategy /\ Ordered /\ [Next]_vars => Ordered'
<1> SUFFICES ASSUME Types, OneByOne, OneStrategy, Ordered, [Next]_vars, ~overlapped'
             PROVE  /\ Linked(Differ)'
                    /\ edits' = 0 /\ strategy' # "default" => Linked(Earlier)'
  BY DEF Ordered
<1>1. ~overlapped
  BY StepAlone DEF OneByOne, Alone
<1>2. Symmetric(Differ) /\ Earlier \subseteq Differ
  BY DEF Symmetric, Differ, Earlier
<1>3. Linked(Differ)'
  BY <1>1, <1>2, StepLinked DEF Ordered
<1>4. ASSUME edits' = 0 PROVE edits = 0 /\ strategy' = strategy
  <2>1. edits \in Nat
    BY DEF Types, TypeOK
  <2>2. CASE \E s \in Strategies : Edit(s)
    BY <1>4, <2>1, <2>2 DEF Edit
  <2>3. CASE edits' = edits /\ strategy' = strategy
    BY <1>4, <2>3
  <2>4. QED
    BY <2>2, <2>3 DEF Next, vars, Change, TickStep, StartObserve, CheckWindow, FailObserve,
                      Ingest, Materialize, Interpreted, Crash, TimeStep
<1>5. edits' = 0 /\ strategy' # "default" => Linked(Earlier)'
  BY <1>1, <1>4, StepLinked DEF Ordered
<1>6. QED
  BY <1>3, <1>5

LEMMA OrderedInvariant == Spec => [](OneByOne /\ Ordered)
<1>1. ASSUME Init PROVE OneByOne /\ OneStrategy /\ Ordered
  <2>1. /\ chain = <<>> /\ row.debounce = <<>> /\ row.rollup = <<>>
        /\ \A t \in Ticks : tick[t] = Idle
    BY <1>1 DEF Init
  <2>2. \A t \in Ticks : Rest(t) = <<>> /\ ~Observing(t)
    BY <2>1, IdleRests
  <2>3. Elements(chain) = {} /\ Held(row) = {} /\ InFlight = {}
    BY <2>1, <2>2, EmptyElements, FlightParts DEF Held
  <2>4. \A R : Linked(R)
    BY <2>1, <2>2, <2>3, EmptyElements DEF Linked, HeldInLine
  <2>5. QED
    BY <2>1, <2>2, <2>3, <2>4 DEF OneByOne, OneStrategy, Ordered, Steady
<1>2. QED
  BY <1>1, InitTypes, StepTypes, StepOneByOne, StepOneStrategy, StepOrdered, PTL DEF Spec

(* As long as ticks do not overlap no change is ingested twice, whatever   *)
(* fails, crashes or is edited between.                                    *)
THEOREM NoChangeTwice == Spec => []IngestedOnce
<1>1. Types /\ Ordered => IngestedOnce
  <2> SUFFICES ASSUME Types, Ordered, ~overlapped
               PROVE  /\ \A i, j \in DOMAIN chain : chain[i] = chain[j] => i = j
                      /\ Elements(chain) \cap Held(row) = {}
                      /\ InFlight \cap (Elements(chain) \cup Held(row)) = {}
    BY DEF IngestedOnce
  <2>1. /\ Chained(chain, Differ)
        /\ Elements(chain) \X Held(row) \subseteq Differ
        /\ \A t \in Ticks : /\ Elements(chain) \X Elements(Rest(t)) \subseteq Differ
                            /\ Elements(Rest(t)) \X Held(row) \subseteq Differ
    BY DEF Ordered, Linked
  <2>2. \A x : <<x, x>> \notin Differ
    BY DEF Differ
  <2>3. ASSUME NEW i \in DOMAIN chain, NEW j \in DOMAIN chain, i < j
        PROVE  chain[i] # chain[j]
    BY <2>1, <2>2, <2>3 DEF Chained
  <2>4. \A i, j \in DOMAIN chain : i < j \/ j < i \/ i = j
    BY DEF Types, TypeOK
  <2>5. Elements(chain) \cap Held(row) = {}
    BY <2>1, <2>2
  <2>6. InFlight \cap (Elements(chain) \cup Held(row)) = {}
    <3>1. \A t \in Ticks : Elements(Rest(t)) \cap (Elements(chain) \cup Held(row)) = {}
      BY <2>1, <2>2
    <3>2. QED
      BY <3>1, FlightParts
  <2>7. QED
    BY <2>3, <2>4, <2>5, <2>6
<1>2. QED
  BY <1>1, AccountedInvariant, OrderedInvariant, PTL

(* Under one authored strategy nobody edited, the chain is in the order of *)
(* the changes, although some are held and some are not.                   *)
THEOREM HeldFirst == Spec => []ChainInOrder
<1>1. Ordered => ChainInOrder
  BY DEF Ordered, ChainInOrder, Linked, Chained, Earlier
<1>2. QED
  BY <1>1, OrderedInvariant, PTL

-----------------------------------------------------------------------------
(***************************************************************************)
(* `monitor explain`.                                                      *)
(***************************************************************************)

LEMMA ExplainOnlyReads == ESpec => Spec
<1>1. EInit => Init
  BY DEF EInit
<1>2. [ENext]_allVars => [Next]_vars
  BY DEF ENext, Quiet, EIngest, ECheckWindow, EFailObserve, EMaterialize, Next, TickStep,
         allVars
<1>3. QED
  BY <1>1, <1>2, PTL DEF ESpec, Spec

(* The verdict is at least as severe as every stage.                       *)
LEMMA VerdictIsWorst ==
    ASSUME Verdict(Stages) \in {"ok", "healthy"}
    PROVE  NotifyStage # "pending"
<1> DEFINE severity == STAGE_STATUS_SEVERITY
           Statuses == {"ok", "healthy", "pending", "failure"}
           Worst(s) == \A i \in DOMAIN Stages : severity[Stages[i]] <= severity[s]
<1>1. /\ ObservationStage \in Statuses /\ NotifyStage \in Statuses
      /\ MaterializationStage \in Statuses /\ DeliveryStage \in Statuses
  BY DEF ObservationStage, NotifyStage, MaterializationStage, DeliveryStage
<1>2. /\ DOMAIN Stages = 1 .. 4
      /\ Stages[1] = ObservationStage /\ Stages[2] = NotifyStage
      /\ Stages[3] = MaterializationStage /\ Stages[4] = DeliveryStage
  BY DEF Stages
<1>3. \A s \in Statuses : severity[s] \in 0 .. 3
  BY DEF STAGE_STATUS_SEVERITY
<1>4. \E s \in Elements(Stages) : Worst(s)
  <2> DEFINE a == severity[Stages[1]]
             b == severity[Stages[2]]
             c == severity[Stages[3]]
             e == severity[Stages[4]]
  <2>1. a \in Int /\ b \in Int /\ c \in Int /\ e \in Int
    BY <1>1, <1>2, <1>3
  <2>2. \A i \in DOMAIN Stages : severity[Stages[i]] \in {a, b, c, e}
    BY <1>2
  <2>3. a \in {severity[s] : s \in Elements(Stages)}
    BY <1>2 DEF Elements
  <2>4. b \in {severity[s] : s \in Elements(Stages)}
    BY <1>2 DEF Elements
  <2>5. c \in {severity[s] : s \in Elements(Stages)}
    BY <1>2 DEF Elements
  <2>6. e \in {severity[s] : s \in Elements(Stages)}
    BY <1>2 DEF Elements
  <2> HIDE DEF a, b, c, e
  <2>7. PICK m \in {a, b, c, e} : a <= m /\ b <= m /\ c <= m /\ e <= m
    BY <2>1
  <2>8. PICK s \in Elements(Stages) : severity[s] = m
    BY <2>3, <2>4, <2>5, <2>6, <2>7
  <2>9. Worst(s)
    BY <2>2, <2>7, <2>8
  <2>10. QED
    BY <2>9
<1>5. Worst(Verdict(Stages))
  BY <1>4 DEF Verdict
<1>6. severity[NotifyStage] <= severity[Verdict(Stages)]
  BY <1>2, <1>5
<1>7. severity["pending"] = 2 /\ severity["ok"] = 0 /\ severity["healthy"] = 1
  BY DEF STAGE_STATUS_SEVERITY
<1>8. QED
  BY <1>6, <1>7

(* When explain calls a monitor fine, no observation is held, and what its *)
(* baseline has passed was recorded, dropped on purpose or caught by a     *)
(* crash.                                                                  *)
THEOREM FineHidesNothing == ESpec => []FineMeansNothingHeld
<1>1. Conserved => FineMeansNothingHeld
  <2> SUFFICES ASSUME Conserved, Verdict(Stages) \in {"ok", "healthy"}
               PROVE  /\ Held(row) = {}
                      /\ 1 .. row.source \subseteq
                            Elements(chain) \cup InFlight \cup forgone \cup lost
    BY DEF FineMeansNothingHeld
  <2>1. ~NotifyPending
    BY VerdictIsWorst DEF NotifyStage
  <2>2. Held(row) = {}
    BY <2>1, EmptyElements DEF NotifyPending, Held
  <2>3. QED
    BY <2>2 DEF Conserved, NothingVanishes
<1>2. QED
  BY <1>1, ExplainOnlyReads, NothingIsLost, PTL
=============================================================================

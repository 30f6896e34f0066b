---------------------------- MODULE PartsProofs -----------------------------
(***************************************************************************)
(* The components of Parts, each for any value of its constants.           *)
(***************************************************************************)
EXTENDS Parts, SessionsProofs, Sequences, Functions, FiniteSetTheorems,
        WellFoundedInduction, TLAPS

-----------------------------------------------------------------------------
(***************************************************************************)
(* Sums.  SumFunctionOnSet(f, S) takes the elements of S in some order     *)
(* that CHOOSE has; Sums says that sum computes it for all subsets of a    *)
(* set U.  For numbers the order does not matter, and the sum of a set     *)
(* with one more element is the sum and that element.                      *)
(***************************************************************************)
Some(S) == CHOOSE x \in S : TRUE
Sums(sum, f, U) == sum = [s \in SUBSET U |-> IF s = {} THEN 0 ELSE f[Some(s)] + sum[s \ {Some(s)}]]

(* In a set of finite sets that is not empty one has no other below it.    *)
LEMMA MinimalSet ==
    ASSUME NEW U, IsFiniteSet(U), NEW D \in SUBSET (SUBSET U), D # {}
    PROVE  \E A \in D : \A B \in SUBSET A : B \in D => B = A
<1>1. IsWellFoundedOn(StrictSubsetOrdering(U), SUBSET U)
  BY FS_StrictSubsetOrderingWellFounded, FS_FiniteSubsetsOfFinite
<1>2. PICK A \in D : \A B \in D : <<B, A>> \notin StrictSubsetOrdering(U)
  BY <1>1, WFMin
<1>3. ASSUME NEW B \in SUBSET A, B \in D, B # A
      PROVE  FALSE
  BY <1>2, <1>3 DEF StrictSubsetOrdering
<1> QED
  BY <1>3

(* A property of 0 that passes from each number to the next is one of n.   *)
LEMMA CountUp ==
    ASSUME NEW n \in Nat, NEW S, 0 \in S, \A i \in 1 .. n : i - 1 \in S => i \in S
    PROVE  n \in S
<1> DEFINE D == {0 .. m : m \in {j \in 0 .. n : j \notin S}}
           U == 0 .. n
<1> SUFFICES ASSUME n \notin S PROVE FALSE
  OBVIOUS
<1>1. D \in SUBSET (SUBSET U) /\ D # {} /\ IsFiniteSet(U)
  <2>1. n \in {j \in 0 .. n : j \notin S}
    OBVIOUS
  <2>2. \A m \in 0 .. n : 0 .. m \in SUBSET U
    OBVIOUS
  <2>3. D \in SUBSET (SUBSET U)
    BY <2>2
  <2>4. 0 .. n \in D
    BY <2>1
  <2>5. IsFiniteSet(U)
    BY FS_Interval
  <2> HIDE DEF D
  <2> QED
    BY <2>3, <2>4, <2>5
<1>2. PICK A \in D : \A B \in SUBSET A : B \in D => B = A
  <2> HIDE DEF D, U
  <2> QED
    BY <1>1, MinimalSet
<1>3. PICK m \in 0 .. n : m \notin S /\ A = 0 .. m
  OBVIOUS
<1>4. m \in 1 .. n /\ m - 1 \in 0 .. n /\ m - 1 \notin S
  BY <1>3
<1>5. 0 .. (m - 1) \in D
  BY <1>4
<1>6. 0 .. (m - 1) \in SUBSET A /\ m \in A /\ m \notin 0 .. (m - 1)
  BY <1>3, <1>4
<1> QED
  BY <1>2, <1>5, <1>6

LEMMA SumsAgree ==
    ASSUME NEW f, NEW U, IsFiniteSet(U), NEW V, NEW a, NEW b, Sums(a, f, U), Sums(b, f, V)
    PROVE  \A s \in SUBSET U : s \subseteq V => a[s] = b[s]
<1> DEFINE D == {s \in SUBSET U : s \subseteq V /\ a[s] # b[s]}
<1> SUFFICES ASSUME D # {} PROVE FALSE
  OBVIOUS
<1>1. PICK A \in D : \A B \in SUBSET A : B \in D => B = A
  <2> HIDE DEF D
  <2> QED
    <3>1. D \in SUBSET (SUBSET U)
      BY DEF D
    <3> QED
      BY <3>1, MinimalSet
<1>2. A \in SUBSET U /\ A \in SUBSET V /\ a[A] # b[A]
  OBVIOUS
<1>3. /\ a[A] = IF A = {} THEN 0 ELSE f[Some(A)] + a[A \ {Some(A)}]
      /\ b[A] = IF A = {} THEN 0 ELSE f[Some(A)] + b[A \ {Some(A)}]
  BY <1>2 DEF Sums
<1>4. A # {}
  BY <1>2, <1>3
<1>5. Some(A) \in A
  BY <1>4 DEF Some
<1>6. a[A \ {Some(A)}] = b[A \ {Some(A)}]
  BY <1>1, <1>2, <1>5
<1> QED
  BY <1>2, <1>3, <1>6

LEMMA SumsExist ==
    ASSUME NEW f, NEW U, IsFiniteSet(U)
    PROVE  \E sum : Sums(sum, f, U)
<1> DEFINE D == {S \in SUBSET U : ~\E sum : Sums(sum, f, S)}
<1> SUFFICES ASSUME D # {} PROVE FALSE
  OBVIOUS
<1>1. PICK A \in D : \A B \in SUBSET A : B \in D => B = A
  <2>1. D \in SUBSET (SUBSET U)
    OBVIOUS
  <2> HIDE DEF D
  <2> QED
    BY <2>1, MinimalSet
<1>2. A \in SUBSET U /\ ~\E sum : Sums(sum, f, A)
  OBVIOUS
<1>3. \A B \in SUBSET A : B # A => \E sum : Sums(sum, f, B)
  BY <1>1, <1>2
<1> HIDE DEF D
<1> DEFINE of(B) == CHOOSE sum : Sums(sum, f, B)
           value(s) == IF s = {} THEN 0 ELSE f[Some(s)] + of(s \ {Some(s)})[s \ {Some(s)}]
           sum == [s \in SUBSET A |-> value(s)]
<1>4. ASSUME NEW s \in SUBSET A, s # {}
      PROVE  sum[s \ {Some(s)}] = of(s \ {Some(s)})[s \ {Some(s)}]
  <2> DEFINE t == s \ {Some(s)}
  <2>1. Some(s) \in s
    BY <1>4 DEF Some
  <2>2. t \in SUBSET A /\ t # A
    BY <2>1
  <2> HIDE DEF t
  <2>3. Sums(of(t), f, t)
    BY <1>3, <2>2
  <2> HIDE DEF of
  <2>4. of(t)[t] = IF t = {} THEN 0 ELSE f[Some(t)] + of(t)[t \ {Some(t)}]
    BY <2>3 DEF Sums
  <2>5. CASE t = {}
    BY <2>2, <2>4, <2>5 DEF t
  <2>6. CASE t # {}
    <3> DEFINE r == t \ {Some(t)}
    <3>1. Some(t) \in t
      BY <2>6 DEF Some
    <3>2. r \in SUBSET A /\ r # A /\ r \subseteq t /\ r \in SUBSET r
      BY <2>2, <3>1
    <3> HIDE DEF r
    <3>3. Sums(of(r), f, r)
      BY <1>3, <3>2 DEF of
    <3>4. IsFiniteSet(r)
      BY <1>2, <3>2, FS_Subset
    <3>5. of(r)[r] = of(t)[r]
      BY <2>3, <3>2, <3>3, <3>4, SumsAgree
    <3>6. sum[t] = f[Some(t)] + of(r)[r]
      BY <2>2, <2>6 DEF r
    <3> QED
      BY <2>4, <2>6, <3>5, <3>6 DEF r, t
  <2> QED
    BY <2>5, <2>6
<1>5. ASSUME NEW s \in SUBSET A
      PROVE  sum[s] = IF s = {} THEN 0 ELSE f[Some(s)] + sum[s \ {Some(s)}]
  <2>1. sum[s] = IF s = {} THEN 0 ELSE f[Some(s)] + of(s \ {Some(s)})[s \ {Some(s)}]
    OBVIOUS
  <2>2. s # {} => sum[s \ {Some(s)}] = of(s \ {Some(s)})[s \ {Some(s)}]
    BY <1>4
  <2> HIDE DEF sum, of
  <2> QED
    BY <2>1, <2>2
<1>6. sum = [s \in SUBSET A |-> sum[s]]
  OBVIOUS
<1>7. Sums(sum, f, A)
  <2> HIDE DEF sum
  <2> QED
    BY <1>5, <1>6 DEF Sums
<1> QED
  BY <1>2, <1>7

LEMMA SumIs ==
    ASSUME NEW f, NEW U, IsFiniteSet(U), NEW S \in SUBSET U, NEW sum, Sums(sum, f, U)
    PROVE  SumFunctionOnSet(f, S) = sum[S]
<1>1. SumFunctionOnSet(f, S) = (CHOOSE it : Sums(it, f, S))[S]
  BY DEF SumFunctionOnSet, FoldFunctionOnSet, MapThenFoldSet, Sums, Some
<1>2. IsFiniteSet(S)
  BY FS_Subset
<1>3. Sums(CHOOSE it : Sums(it, f, S), f, S)
  BY <1>2, SumsExist
<1> QED
  BY <1>1, <1>2, <1>3, SumsAgree

LEMMA AnyOrder ==
    ASSUME NEW U, IsFiniteSet(U), NEW f, \A x \in U : f[x] \in Nat, NEW sum, Sums(sum, f, U)
    PROVE  \A s \in SUBSET U : sum[s] \in Nat /\ \A x \in s : sum[s] = f[x] + sum[s \ {x}]
<1> DEFINE D == {s \in SUBSET U : ~(sum[s] \in Nat /\ \A x \in s : sum[s] = f[x] + sum[s \ {x}])}
<1> SUFFICES ASSUME D # {} PROVE FALSE
  OBVIOUS
<1>1. PICK A \in D : \A B \in SUBSET A : B \in D => B = A
  <2>1. D \in SUBSET (SUBSET U)
    OBVIOUS
  <2> HIDE DEF D
  <2> QED
    BY <2>1, MinimalSet
<1>2. A \in SUBSET U /\ ~(sum[A] \in Nat /\ \A x \in A : sum[A] = f[x] + sum[A \ {x}])
  OBVIOUS
<1>3. \A B \in SUBSET A : B # A => sum[B] \in Nat /\ \A x \in B : sum[B] = f[x] + sum[B \ {x}]
  BY <1>1, <1>2
<1> HIDE DEF D
<1>4. sum[A] = IF A = {} THEN 0 ELSE f[Some(A)] + sum[A \ {Some(A)}]
  BY <1>2 DEF Sums
<1>5. CASE A = {}
  BY <1>2, <1>4, <1>5
<1>6. CASE A # {}
  <2> DEFINE y == Some(A)
  <2>1. y \in A /\ f[y] \in Nat
    BY <1>2, <1>6 DEF Some
  <2> HIDE DEF y
  <2>2. sum[A] = f[y] + sum[A \ {y}]
    BY <1>4, <1>6 DEF y
  <2>3. sum[A \ {y}] \in Nat /\ \A x \in A \ {y} : sum[A \ {y}] = f[x] + sum[(A \ {y}) \ {x}]
    BY <1>3, <2>1
  <2>4. sum[A] \in Nat
    BY <2>1, <2>2, <2>3
  <2>5. ASSUME NEW x \in A PROVE sum[A] = f[x] + sum[A \ {x}]
    <3>1. CASE x = y
      BY <2>2, <3>1
    <3>2. CASE x # y
      <4>1. (A \ {y}) \ {x} = (A \ {x}) \ {y}
        OBVIOUS
      <4>2. sum[A \ {x}] = f[y] + sum[(A \ {x}) \ {y}]
        BY <1>3, <2>1, <3>2
      <4>3. sum[A \ {y}] = f[x] + sum[(A \ {y}) \ {x}]
        BY <2>3, <3>2
      <4>4. f[x] \in Nat /\ sum[(A \ {y}) \ {x}] \in Nat
        <5>1. (A \ {y}) \ {x} \in SUBSET A /\ (A \ {y}) \ {x} # A
          BY <2>1
        <5> QED
          BY <1>2, <1>3, <5>1
      <4> DEFINE rest == sum[(A \ {y}) \ {x}]
      <4>5. sum[A] = f[y] + (f[x] + rest) /\ sum[A \ {x}] = f[y] + rest
        BY <2>2, <4>1, <4>2, <4>3
      <4> QED
        BY <2>1, <4>4, <4>5
    <3> QED
      BY <3>1, <3>2
  <2> QED
    BY <1>2, <2>4, <2>5
<1> QED
  BY <1>5, <1>6

(* What is used of all this.                                               *)
LEMMA SumAdds ==
    ASSUME NEW f, NEW S, IsFiniteSet(S), NEW x, x \notin S, \A y \in S \cup {x} : f[y] \in Nat
    PROVE  /\ SumFunctionOnSet(f, S) \in Nat
           /\ SumFunctionOnSet(f, S \cup {x}) = SumFunctionOnSet(f, S) + f[x]
<1> DEFINE U == S \cup {x}
<1>1. IsFiniteSet(U)
  BY FS_AddElement
<1>2. S \in SUBSET U /\ U \in SUBSET U /\ U \ {x} = S /\ x \in U
  OBVIOUS
<1>3. \A y \in U : f[y] \in Nat
  OBVIOUS
<1> HIDE DEF U
<1>4. PICK sum : Sums(sum, f, U)
  BY <1>1, SumsExist
<1>5. SumFunctionOnSet(f, S) = sum[S] /\ SumFunctionOnSet(f, U) = sum[U]
  BY <1>1, <1>2, <1>4, SumIs
<1>6. sum[S] \in Nat /\ sum[U] = f[x] + sum[S]
  <2>0. \A s \in SUBSET U : sum[s] \in Nat /\ \A z \in s : sum[s] = f[z] + sum[s \ {z}]
    <3>1. \A z \in U : f[z] \in Nat
      BY <1>3
    <3> HIDE DEF Sums
    <3> QED
      BY ONLY <1>1, <1>4, <3>1, AnyOrder
  <2>1. sum[S] \in Nat /\ sum[U] = f[x] + sum[U \ {x}]
    BY <1>2, <2>0
  <2>2. sum[U] = f[x] + sum[U \ {x}]
    BY <1>2, <2>1
  <2> QED
    BY <1>2, <2>1, <2>2
<1>7. f[x] \in Nat
  BY <1>2, <1>3
<1> QED
  BY <1>5, <1>6, <1>7 DEF U

LEMMA SumOfNothing == \A f : SumFunctionOnSet(f, {}) = 0
<1> TAKE f
<1>1. IsFiniteSet({}) /\ {} \in SUBSET {}
  BY FS_EmptySet
<1>2. PICK sum : Sums(sum, f, {})
  BY <1>1, SumsExist
<1>3. SumFunctionOnSet(f, {}) = sum[{}]
  BY <1>1, <1>2, SumIs
<1> QED
  BY <1>1, <1>2, <1>3 DEF Sums

LEMMA SumOfSame ==
    ASSUME NEW S, IsFiniteSet(S), NEW f, NEW g, \A x \in S : f[x] = g[x]
    PROVE  SumFunctionOnSet(f, S) = SumFunctionOnSet(g, S)
<1>1. PICK sum : Sums(sum, f, S)
  BY SumsExist
<1>2. \A s \in SUBSET S : s # {} => f[Some(s)] = g[Some(s)]
  <2>1. ASSUME NEW s \in SUBSET S, s # {} PROVE Some(s) \in S
    BY <2>1 DEF Some
  <2> QED
    BY <2>1
<1>3. Sums(sum, g, S)
  BY <1>1, <1>2 DEF Sums
<1>4. S \in SUBSET S
  OBVIOUS
<1> QED
  BY <1>1, <1>3, <1>4, SumIs

LEMMA SumOfUnion ==
    ASSUME NEW f, NEW S, IsFiniteSet(S), NEW T, IsFiniteSet(T), S \cap T = {},
           \A x \in S \cup T : f[x] \in Nat
    PROVE  /\ SumFunctionOnSet(f, S) \in Nat /\ SumFunctionOnSet(f, T) \in Nat
           /\ SumFunctionOnSet(f, S \cup T) = SumFunctionOnSet(f, S) + SumFunctionOnSet(f, T)
<1> DEFINE sum(s) == SumFunctionOnSet(f, s)
           Fine(B) == sum(S) \in Nat /\ sum(B) \in Nat /\ sum(S \cup B) = sum(S) + sum(B)
           D == {B \in SUBSET T : ~Fine(B)}
<1>1. sum(S) \in Nat
  <2>1. PICK sums : Sums(sums, f, S)
    BY SumsExist
  <2>2. sums[S] \in Nat
    BY <2>1, AnyOrder
  <2> QED
    BY <2>1, <2>2, SumIs
<1> SUFFICES ASSUME D # {} PROVE FALSE
  OBVIOUS
<1>2. PICK A \in D : \A B \in SUBSET A : B \in D => B = A
  <2>1. D \in SUBSET (SUBSET T)
    OBVIOUS
  <2> HIDE DEF D
  <2> QED
    BY <2>1, MinimalSet
<1>3. A \in SUBSET T /\ ~Fine(A)
  OBVIOUS
<1>4. \A B \in SUBSET A : B # A => Fine(B)
  BY <1>2, <1>3
<1> HIDE DEF D, Fine
<1>5. CASE A = {}
  <2>1. sum({}) = 0
    BY SumOfNothing
  <2>2. S \cup {} = S
    OBVIOUS
  <2> HIDE DEF sum
  <2> QED
    BY <1>1, <1>3, <1>5, <2>1, <2>2 DEF Fine
<1>6. CASE A # {}
  <2>1. PICK x \in A : TRUE
    BY <1>6
  <2> DEFINE B == A \ {x}
  <2>2. B \in SUBSET A /\ B # A /\ x \notin B /\ x \notin S \cup B /\ A = B \cup {x}
        /\ S \cup A = (S \cup B) \cup {x}
    BY <1>3
  <2>3. IsFiniteSet(B) /\ IsFiniteSet(S \cup B)
    <3>1. B \in SUBSET T
      BY <1>3
    <3> HIDE DEF B
    <3>2. IsFiniteSet(B)
      BY <3>1, FS_Subset
    <3> QED
      BY <3>2, FS_Union
  <2>4. \A y \in (S \cup B) \cup {x} : f[y] \in Nat
    BY <1>3
  <2> HIDE DEF B
  <2>5. sum(S \cup A) = sum(S \cup B) + f[x]
    BY <2>2, <2>3, <2>4, SumAdds
  <2>6. sum(A) = sum(B) + f[x] /\ f[x] \in Nat
    BY <2>2, <2>3, <2>4, SumAdds
  <2>7. sum(S) \in Nat /\ sum(B) \in Nat /\ sum(S \cup B) = sum(S) + sum(B)
    BY <1>4, <2>2 DEF Fine
  <2> HIDE DEF sum
  <2> QED
    BY <1>3, <2>5, <2>6, <2>7 DEF Fine
<1> QED
  BY <1>5, <1>6

(* Sequences put one behind the other, and made of a function.             *)
LEMMA Concat ==
    ASSUME NEW S, NEW a \in Seq(S), NEW b \in Seq(S), NEW c, c = a \o b
    PROVE  /\ c \in Seq(S) /\ Len(c) = Len(a) + Len(b) /\ DOMAIN c = 1 .. Len(c)
           /\ Len(a) \in Nat /\ Len(b) \in Nat
           /\ \A i \in 1 .. Len(a) : c[i] = a[i]
           /\ \A i \in 1 .. Len(b) : c[Len(a) + i] = b[i]
           /\ \A i \in 1 .. Len(c) : i \in 1 .. Len(a) \/ \E j \in 1 .. Len(b) : i = Len(a) + j
<1>1. Len(a) \in Nat /\ Len(b) \in Nat
  OBVIOUS
<1>2. c \in Seq(S) /\ Len(c) = Len(a) + Len(b) /\ DOMAIN c = 1 .. Len(c)
  OBVIOUS
<1>3. \A i \in 1 .. Len(a) : c[i] = a[i]
  OBVIOUS
<1>4. ASSUME NEW i \in 1 .. Len(b) PROVE c[Len(a) + i] = b[i]
  <2>1. Len(a) + i \in 1 .. (Len(a) + Len(b)) /\ ~(Len(a) + i <= Len(a)) /\ (Len(a) + i) - Len(a) = i
    BY <1>1
  <2> QED
    BY <2>1
<1>5. ASSUME NEW i \in 1 .. Len(c), i \notin 1 .. Len(a)
      PROVE  \E j \in 1 .. Len(b) : i = Len(a) + j
  <2>1. i - Len(a) \in 1 .. Len(b) /\ i = Len(a) + (i - Len(a))
    BY <1>1, <1>2, <1>5
  <2> QED
    BY <2>1
<1> QED
  BY <1>1, <1>2, <1>3, <1>4, <1>5

-----------------------------------------------------------------------------
(***************************************************************************)
(* The inbox.  "No step skipped" is inductive once it is known why a       *)
(* command may go on: the item has been, at some time, in a state its      *)
(* target is reached from; that stays true whatever other commands do.     *)
(***************************************************************************)
InboxRow == [state : Box!States \cup {"absent"}, acked : BOOLEAN, completed : BOOLEAN, errors : Nat]
Move == [item : Items, to : Box!Targets, errors : Nat]

InboxTypes ==
    /\ row \in [Items -> InboxRow]
    /\ been \in [Items -> Seq(Box!States)]
    /\ cmd \in [Procs -> Move \cup {Box!NoCommand}]

RowIsNewest == \A i \in Items :
    IF been[i] = <<>> THEN row[i] = Box!Absent ELSE row[i].state = been[i][Len(been[i])]

MovesAreChecked == \A p \in Procs : cmd[p] # Box!NoCommand =>
    \E m \in 1 .. Len(been[cmd[p].item]) : been[cmd[p].item][m] \in Box!From(cmd[p].to)

InboxInv == InboxTypes /\ RowIsNewest /\ MovesAreChecked /\ Box!NoStepSkipped

LEMMA TargetsFrom == \A to \in Box!Targets : Box!Before(to) = Box!From(to) /\ to \in Box!States
BY DEF Box!Targets, Box!States, Box!Before, Box!From

(* Appending a state keeps what was true of the states so far.             *)
LEMMA AppendKeeps ==
    ASSUME NEW S, NEW s \in Seq(S), NEW e \in S
    PROVE  /\ Append(s, e) \in Seq(S) /\ Len(Append(s, e)) = Len(s) + 1
           /\ Append(s, e)[Len(s) + 1] = e
           /\ \A m \in 1 .. Len(s) : Append(s, e)[m] = s[m]
OBVIOUS

LEMMA InboxStep == InboxInv /\ [Box!Next]_(Box!vars) => InboxInv'
<1> SUFFICES ASSUME InboxInv, [Box!Next]_(Box!vars)
             PROVE  InboxInv'
  OBVIOUS
<1> USE DEF InboxInv, InboxTypes, RowIsNewest, MovesAreChecked, Box!NoStepSkipped
<1>1. ASSUME NEW i \in Items, Box!Enqueue(i) PROVE InboxInv'
  <2>1. been[i] = <<>>
    <3>1. Box!Absent.state = "absent" /\ row[i] = Box!Absent
      BY <1>1 DEF Box!Enqueue, Box!Absent
    <3>2. been[i] # <<>> => been[i][Len(been[i])] \in Box!States
      OBVIOUS
    <3> QED
      BY <3>1, <3>2 DEF Box!States
  <2>2. \A p \in Procs : cmd[p] # Box!NoCommand => cmd[p].item # i
    BY <2>1
  <2>3. Box!Queued \in InboxRow /\ Box!Queued.state = "queued"
    BY DEF Box!Queued, Box!Absent, InboxRow, Box!States
  <2>4. row' = [row EXCEPT ![i] = Box!Queued] /\ been' = [been EXCEPT ![i] = <<"queued">>]
        /\ cmd' = cmd
    BY <1>1 DEF Box!Enqueue
  <2>5. "queued" \in Box!States
    BY DEF Box!States
  <2>6. InboxTypes'
    BY <2>3, <2>4, <2>5
  <2>7. RowIsNewest'
    BY <2>3, <2>4
  <2>8. MovesAreChecked'
    BY <2>2, <2>4 DEF Move
  <2>9. Box!NoStepSkipped'
    BY <2>4
  <2> QED
    BY <2>6, <2>7, <2>8, <2>9
<1>2. ASSUME NEW p \in Procs, NEW i \in Items, NEW to \in Box!Targets, Box!Check(p, i, to)
      PROVE  InboxInv'
  <2>1. UNCHANGED <<row, been>>
    BY <1>2 DEF Box!Check
  <2>2. CASE cmd' = cmd
    BY <2>1, <2>2
  <2>3. CASE /\ row[i].state \in Box!From(to)
             /\ cmd' = [cmd EXCEPT ![p] = [item |-> i, to |-> to, errors |-> row[i].errors]]
    <3>1. row[i].errors \in Nat
      BY DEF InboxRow
    <3>2. cmd' \in [Procs -> Move \cup {Box!NoCommand}]
      BY <2>3, <3>1 DEF Move
    <3>3. been[i] # <<>>
      BY <2>3 DEF Box!From, Box!Targets, Box!States, Box!Absent
    <3>4. Len(been[i]) \in 1 .. Len(been[i]) /\ been[i][Len(been[i])] \in Box!From(to)
      BY <2>3, <3>3
    <3>5. MovesAreChecked'
      BY <2>1, <2>3, <3>4
    <3> QED
      BY <2>1, <3>2, <3>5
  <2> QED
    BY <1>2, <2>2, <2>3 DEF Box!Check
<1>3. ASSUME NEW p \in Procs, Box!Update(p) PROVE InboxInv'
  <2> DEFINE i == cmd[p].item
             to == cmd[p].to
  <2>1. cmd[p] # Box!NoCommand /\ cmd[p] \in Move
    BY <1>3 DEF Box!Update
  <2>2. i \in Items /\ to \in Box!Targets /\ cmd[p].errors \in Nat /\ to \in Box!States
    BY <2>1, TargetsFrom DEF Move
  <2>3. /\ row' = [row EXCEPT ![i].state = to,
                              ![i].acked = @ \/ to = "acked",
                              ![i].completed = @ \/ to = "completed",
                              ![i].errors = IF to = "failed" THEN cmd[p].errors + 1 ELSE @]
        /\ been' = [been EXCEPT ![i] = Append(@, to)]
        /\ cmd' = [cmd EXCEPT ![p] = Box!NoCommand]
    BY <1>3 DEF Box!Update
  <2> HIDE DEF i, to
  <2>4. been'[i] = Append(been[i], to) /\ \A j \in Items \ {i} : been'[j] = been[j]
    BY <2>2, <2>3
  <2>5. row' \in [Items -> InboxRow] /\ row'[i].state = to
        /\ \A j \in Items \ {i} : row'[j] = row[j]
    <3>1. row[i] \in InboxRow
      BY <2>2
    <3>2. row'[i] = [row[i] EXCEPT !.state = to, !.acked = @ \/ to = "acked",
                                   !.completed = @ \/ to = "completed",
                                   !.errors = IF to = "failed" THEN cmd[p].errors + 1 ELSE @]
      BY <2>2, <2>3
    <3>3. row'[i] \in InboxRow /\ row'[i].state = to
      <4> DEFINE acked == row[i].acked \/ to = "acked"
                 completed == row[i].completed \/ to = "completed"
                 errors == IF to = "failed" THEN cmd[p].errors + 1 ELSE row[i].errors
      <4>1. acked \in BOOLEAN /\ completed \in BOOLEAN
        OBVIOUS
      <4>2. errors \in Nat
        BY <2>2, <3>1 DEF InboxRow
      <4> HIDE DEF acked, completed, errors
      <4>3. row'[i] = [state |-> to, acked |-> acked, completed |-> completed, errors |-> errors]
        BY <3>1, <3>2 DEF InboxRow, acked, completed, errors
      <4> QED
        BY <2>2, <4>1, <4>2, <4>3 DEF InboxRow
    <3>4. DOMAIN row' = Items /\ row' = [j \in Items |-> row'[j]]
          /\ \A j \in Items \ {i} : row'[j] = row[j]
      BY <2>2, <2>3
    <3> QED
      BY <3>3, <3>4
  <2>6. InboxTypes'
    <3>1. been' \in [Items -> Seq(Box!States)]
      BY <2>2, <2>3, AppendKeeps
    <3> QED
      BY <2>3, <2>5, <3>1
  <2>7. /\ Len(been'[i]) = Len(been[i]) + 1 /\ been'[i][Len(been[i]) + 1] = to
        /\ been[i] \in Seq(Box!States)
        /\ \A m \in 1 .. Len(been[i]) : been'[i][m] = been[i][m]
    BY <2>2, <2>4, AppendKeeps
  <2>8. RowIsNewest'
    <3>1. been'[i] # <<>> /\ row'[i].state = been'[i][Len(been'[i])]
      <4>1. Len(been[i]) \in Nat
        BY <2>7
      <4>2. Len(been'[i]) # 0
        BY <2>7, <4>1
      <4> QED
        BY <2>5, <2>7, <4>2
    <3>2. ASSUME NEW j \in Items, j # i
          PROVE  IF been'[j] = <<>> THEN row'[j] = Box!Absent
                                    ELSE row'[j].state = been'[j][Len(been'[j])]
      BY <2>4, <2>5, <3>2
    <3> QED
      BY <3>1, <3>2
  <2>9. MovesAreChecked'
    <3> SUFFICES ASSUME NEW q \in Procs, cmd'[q] # Box!NoCommand
                 PROVE  \E m \in 1 .. Len(been'[cmd'[q].item]) :
                            been'[cmd'[q].item][m] \in Box!From(cmd'[q].to)
      OBVIOUS
    <3>1. q # p /\ cmd'[q] = cmd[q] /\ cmd[q].item \in Items
      BY <2>3 DEF Move
    <3>2. PICK m \in 1 .. Len(been[cmd[q].item]) : been[cmd[q].item][m] \in Box!From(cmd[q].to)
      BY <3>1
    <3>3. CASE cmd[q].item = i
      BY <2>7, <3>1, <3>2, <3>3
    <3>4. CASE cmd[q].item # i
      BY <2>4, <3>1, <3>2, <3>4
    <3> QED
      BY <3>3, <3>4
  <2>10. Box!NoStepSkipped'
    <3> SUFFICES ASSUME NEW j \in Items, NEW n \in 2 .. Len(been'[j])
                 PROVE  \E m \in 1 .. n - 1 : been'[j][m] \in Box!Before(been'[j][n])
      OBVIOUS
    <3>1. CASE j # i
      BY <2>4, <3>1
    <3>2. CASE j = i /\ n <= Len(been[i])
      <4>1. PICK m \in 1 .. n - 1 : been[i][m] \in Box!Before(been[i][n])
        <5>1. n \in 2 .. Len(been[i])
          BY <2>7, <3>2
        <5> QED
          BY <2>2, <5>1
      <4>2. m \in 1 .. Len(been[i]) /\ n \in 1 .. Len(been[i])
        BY <2>7, <3>2
      <4> QED
        BY <2>7, <3>2, <4>1, <4>2
    <3>3. CASE j = i /\ n = Len(been[i]) + 1
      <4>1. PICK m \in 1 .. Len(been[i]) : been[i][m] \in Box!From(to)
        BY <2>1 DEF i, to
      <4> QED
        BY <2>2, <2>7, <3>3, <4>1, TargetsFrom
    <3> QED
      BY <2>7, <3>1, <3>2, <3>3
  <2> QED
    BY <2>6, <2>8, <2>9, <2>10
<1>4. ASSUME NEW p \in Procs, Box!Dies(p) PROVE InboxInv'
  BY <1>4 DEF Box!Dies
<1>5. CASE UNCHANGED Box!vars
  BY <1>5 DEF Box!vars
<1> QED
  BY <1>1, <1>2, <1>3, <1>4, <1>5 DEF Box!Next

LEMMA InboxInit == ASSUME Box!Init PROVE InboxInv
<1>1. Box!Absent \in InboxRow
  BY DEF InboxRow, Box!Absent, Box!States
<1> QED
  BY <1>1 DEF Box!Init, InboxInv, InboxTypes, RowIsNewest, MovesAreChecked, Box!NoStepSkipped

(* However many commands race, no step of an item's life is skipped.       *)
THEOREM InboxSkipsNothing == Box!Spec => []NoStepSkipped
<1>1. Box!Init => InboxInv
  BY InboxInit
<1>2. InboxInv /\ [Box!Next]_(Box!vars) => InboxInv'
  BY InboxStep
<1>3. InboxInv => NoStepSkipped
  BY DEF InboxInv, NoStepSkipped
<1> QED
  BY <1>1, <1>2, <1>3, PTL DEF Box!Spec

-----------------------------------------------------------------------------
(***************************************************************************)
(* The deliver hook.  A failed write is reported twice and a lease may     *)
(* lapse under its holder, so the invariant says of each process where it  *)
(* may stand: only a broken write has signals to come, an 'error' event    *)
(* only while somebody listens to it, and a process that commits has shown *)
(* its batch or had nothing to show.                                       *)
(***************************************************************************)
HookTypes ==
    /\ pc \in [Hooks -> {"idle", "reserve", "write", "release", "commit", "done"}]
    /\ stream \in [Hooks -> {"idle", "writing", "shown", "broken"}]
    /\ signals \in [Hooks -> SUBSET {"callback", "event"}]
    /\ armed \in [Hooks -> BOOLEAN] /\ output \in [Hooks -> BOOLEAN]
    /\ exit \in [Hooks -> {-1, 0}]

WriteInOrder(h) ==
    /\ stream[h] = "writing" => pc[h] = "write" /\ signals[h] = {} /\ armed[h]
    /\ signals[h] # {} => stream[h] = "broken"
    /\ "event" \in signals[h] => armed[h]
    /\ pc[h] = "commit" => stream[h] = "shown" \/ ~output[h]

ClaimWasShown == row = "claimed" => by \in Hooks /\ (stream[by] = "shown" \/ ~output[by])
BeatWasShown == beat = "delivered" => \E h \in Hooks : stream[h] = "shown"

HookInv == HookTypes /\ (\A h \in Hooks : WriteInOrder(h)) /\ ClaimWasShown /\ BeatWasShown

LEMMA HookStep ==
    ASSUME HookInv, [Hook!Next]_(Hook!vars)
    PROVE  HookInv'
<1> USE HookAssumption DEF HookInv, HookTypes, WriteInOrder, ClaimWasShown, BeatWasShown, Hook!Fault
<1>1. ASSUME NEW h \in Hooks, Hook!Resolve(h) PROVE HookInv'
  <2>1. CASE reachable
    BY <1>1, <2>1 DEF Hook!Resolve
  <2>2. CASE ~reachable
    <3>1. Hook!Quits(h) /\ pc[h] = "idle" /\ UNCHANGED <<by, stream, output, row, beat>>
      BY <1>1, <2>2 DEF Hook!Resolve
    <3> QED
      BY <3>1 DEF Hook!Quits
  <2> QED
    BY <2>1, <2>2
<1>2. ASSUME NEW h \in Hooks, Hook!ReserveFails(h) PROVE HookInv'
  BY <1>2 DEF Hook!ReserveFails, Hook!Quits
<1>3. ASSUME NEW h \in Hooks, Hook!Reserve(h) PROVE HookInv'
  BY <1>3 DEF Hook!Reserve
<1>4. ASSUME NEW h \in Hooks, Hook!Write(h) PROVE HookInv'
  <2>1. HookTypes'
    BY <1>4 DEF Hook!Write
  <2>2. ASSUME NEW g \in Hooks PROVE WriteInOrder(g)'
    BY <1>4 DEF Hook!Write
  <2>3. ClaimWasShown' /\ BeatWasShown'
    BY <1>4 DEF Hook!Write
  <2> QED
    BY <2>1, <2>2, <2>3
<1>5. ASSUME NEW h \in Hooks, Hook!WriteFails(h) PROVE HookInv'
  <2>1. HookTypes'
    BY <1>5 DEF Hook!WriteFails
  <2>2. ASSUME NEW g \in Hooks PROVE WriteInOrder(g)'
    BY <1>5 DEF Hook!WriteFails
  <2>3. ClaimWasShown' /\ BeatWasShown'
    BY <1>5 DEF Hook!WriteFails
  <2> QED
    BY <2>1, <2>2, <2>3
<1>6. ASSUME NEW h \in Hooks, Hook!WriteSucceeds(h) PROVE HookInv'
  BY <1>6 DEF Hook!WriteSucceeds
<1>7. ASSUME NEW h \in Hooks, Hook!FailedCallback(h) PROVE HookInv'
  BY <1>7 DEF Hook!FailedCallback
<1>8. ASSUME NEW h \in Hooks, Hook!ErrorEvent(h) PROVE HookInv'
  <2>1. HookTypes'
    <3>1. "event" \in signals[h] /\ armed[h]
      BY <1>8 DEF Hook!ErrorEvent
    <3>2. /\ signals' = [signals EXCEPT ![h] = @ \ {"event"}]
          /\ armed' = [armed EXCEPT ![h] = FALSE]
          /\ pc' = [pc EXCEPT ![h] = IF @ = "write" THEN "release" ELSE @]
          /\ UNCHANGED <<stream, output, exit>>
      BY <1>8, <3>1 DEF Hook!ErrorEvent
    <3> QED
      BY <3>2
  <2>2. ASSUME NEW g \in Hooks PROVE WriteInOrder(g)'
    BY <1>8 DEF Hook!ErrorEvent
  <2>3. ClaimWasShown' /\ BeatWasShown'
    BY <1>8 DEF Hook!ErrorEvent
  <2> QED
    BY <2>1, <2>2, <2>3
<1>9. ASSUME NEW h \in Hooks, Hook!Release(h) PROVE HookInv'
  BY <1>9 DEF Hook!Release, Hook!Quits
<1>10. ASSUME NEW h \in Hooks, Hook!Commit(h) PROVE HookInv'
  BY <1>10 DEF Hook!Commit, Hook!Claims, Hook!Quits
<1>11. ASSUME NEW h \in Hooks, Hook!CommitLost(h) PROVE HookInv'
  BY <1>11 DEF Hook!CommitLost, Hook!Claims, Hook!Quits
<1>12. ASSUME NEW h \in Hooks, Hook!Killed(h) PROVE HookInv'
  BY <1>12 DEF Hook!Killed
<1>13. CASE Hook!Lapses
  BY <1>13 DEF Hook!Lapses
<1>14. CASE UNCHANGED Hook!vars
  BY <1>14 DEF Hook!vars
<1> QED
  BY <1>1, <1>2, <1>3, <1>4, <1>5, <1>6, <1>7, <1>8, <1>9, <1>10, <1>11, <1>12, <1>13, <1>14
     DEF Hook!Next

(* For any number of prompts at a time, and whatever fails: a batch is     *)
(* claimed by a hook that wrote it or had nothing to write, a delivery is  *)
(* recorded only if something was written, and no hook ends in an error.   *)
THEOREM HookRecordsWhatItShowed ==
    Hook!Spec => [](Hook!RecordedWasShown /\ Hook!ExitsZero)
<1>1. Hook!Init => HookInv
  BY HookAssumption DEF Hook!Init, HookInv, HookTypes, WriteInOrder, ClaimWasShown, BeatWasShown
<1>2. HookInv /\ [Hook!Next]_(Hook!vars) => HookInv'
  BY HookStep
<1>3. HookInv => Hook!RecordedWasShown /\ Hook!ExitsZero
  BY DEF HookInv, HookTypes, ClaimWasShown, BeatWasShown, Hook!RecordedWasShown, Hook!ExitsZero
<1> QED
  BY <1>1, <1>2, <1>3, PTL DEF Hook!Spec

-----------------------------------------------------------------------------
(***************************************************************************)
(* The sizing loop.  Which rows pack into a message is left open but for   *)
(* its being a number of them: what is proved follows from the order of    *)
(* preview, reserve, validate and recheck.  A claim that was validated is  *)
(* rendered whole; the recheck finds what is pending beyond it; and the    *)
(* last attempt asks for one row, which is always rendered.                *)
(***************************************************************************)
LEMMA LeastExists ==
    ASSUME NEW S \in SUBSET Nat, IsFiniteSet(S), S # {}
    PROVE  \E m \in S : \A f \in S : m <= f
<1> DEFINE Below(m) == {f \in S : f < m}
           T == {Below(m) : m \in S}
<1>1. IsWellFoundedOn(StrictSubsetOrdering(S), SUBSET S)
  BY FS_StrictSubsetOrderingWellFounded, FS_FiniteSubsetsOfFinite
<1>2. T \subseteq SUBSET S /\ T # {}
  OBVIOUS
<1>3. PICK A \in T : \A B \in T : <<B, A>> \notin StrictSubsetOrdering(S)
  <2> HIDE DEF T
  <2> QED
    BY <1>1, <1>2, WFMin
<1>4. PICK m \in S : A = Below(m)
  OBVIOUS
<1>5. ASSUME NEW f \in S, ~(m <= f)
      PROVE  FALSE
  <2>1. f \in Below(m) /\ f \notin Below(f) /\ Below(f) \subseteq Below(m)
    <3>1. f \in Nat /\ m \in Nat /\ f < m
      BY <1>5
    <3>2. ASSUME NEW g \in S, g < f PROVE g < m
      BY <3>1, <3>2
    <3>3. ~(f < f)
      BY <3>1
    <3> QED
      BY <3>1, <3>2, <3>3, Zenon
  <2>2. <<Below(f), Below(m)>> \in StrictSubsetOrdering(S)
    BY <2>1 DEF StrictSubsetOrdering
  <2> QED
    BY <1>3, <1>4, <2>2
<1> QED
  BY <1>5

LEMMA MaxIsGreatest ==
    ASSUME NEW n \in Nat, NEW S \in SUBSET (0 .. n), S # {}
    PROVE  Size!Max(S) \in S /\ \A k \in S : k <= Size!Max(S)
<1> DEFINE T == {n - k : k \in S}
<1>1. T \in SUBSET Nat /\ T # {} /\ \A t \in T : t <= n
  <2>1. ASSUME NEW k \in S PROVE n - k \in Nat /\ n - k <= n
    OBVIOUS
  <2> QED
    BY <2>1
<1>2. IsFiniteSet(T)
  <2> HIDE DEF T
  <2> QED
    BY <1>1, FS_BoundedSetOfNaturals
<1>3. PICK m \in T : \A t \in T : m <= t
  <2> HIDE DEF T
  <2> QED
    BY <1>1, <1>2, LeastExists
<1>4. n - m \in S /\ \A k \in S : n - m >= k
  BY <1>3
<1>5. \A k \in S : Size!Max(S) >= k /\ Size!Max(S) \in S
  BY <1>4 DEF Size!Max
<1> QED
  BY <1>5

LEMMA AtLeastOne == \A k \in Nat : Size!Max({1, k}) = IF k >= 1 THEN k ELSE 1
<1> TAKE k \in Nat
<1>1. {1, k} \in SUBSET (0 .. k + 1) /\ k + 1 \in Nat
  OBVIOUS
<1>2. Size!Max({1, k}) \in {1, k} /\ \A l \in {1, k} : l <= Size!Max({1, k})
  <2> DEFINE S == {1, k}
  <2>1. S \in SUBSET (0 .. k + 1) /\ S # {} /\ k + 1 \in Nat
    BY <1>1
  <2> HIDE DEF S
  <2>2. Size!Max(S) \in S /\ \A l \in S : l <= Size!Max(S)
    BY <2>1, MaxIsGreatest
  <2> QED
    BY <2>2 DEF S
<1> QED
  BY <1>2

LEMMA SizeCardinality == \A S : Size!Cardinality(S) = Cardinality(S)
BY DEF Size!Cardinality, Cardinality

LEMMA RowsFinite ==
    ASSUME NEW S \in SUBSET Rows
    PROVE  IsFiniteSet(S) /\ Cardinality(S) \in Nat /\ S \in SUBSET Nat
BY SizeAssumption, FS_Subset, FS_CardinalityType

LEMMA PackedIsANumber ==
    ASSUME NEW S \in SUBSET Rows, NEW room
    PROVE  Size!Packed(S, room) \in 0 .. Cardinality(S)
<1> DEFINE K == {k \in 0 .. Cardinality(S) :
                     k = 0 \/ Size!TotalLength(Size!FirstOf(S, k)) <= room}
<1>1. Cardinality(S) \in Nat
  BY RowsFinite
<1>2. K \in SUBSET (0 .. Cardinality(S)) /\ 0 \in K
  BY <1>1
<1>3. Size!Packed(S, room) = Size!Max(K)
  BY SizeCardinality DEF Size!Packed
<1> HIDE DEF K
<1> QED
  BY <1>1, <1>2, <1>3, MaxIsGreatest

LEMMA FirstOfAll ==
    ASSUME NEW S \in SUBSET Rows
    PROVE  Size!FirstOf(S, Cardinality(S)) = S
<1>1. ASSUME NEW r \in S PROVE Cardinality({q \in S : q <= r}) <= Cardinality(S)
  BY RowsFinite, FS_Subset
<1> QED
  BY <1>1, SizeCardinality DEF Size!FirstOf

LEMMA FirstOfOne ==
    ASSUME NEW S \in SUBSET Rows, S # {}
    PROVE  Size!FirstOf(S, 1) \in SUBSET S /\ Cardinality(Size!FirstOf(S, 1)) = 1
<1> DEFINE UpTo(r) == {q \in S : q <= r}
<1>1. IsFiniteSet(S) /\ S \in SUBSET Nat
  BY RowsFinite
<1>2. PICK m \in S : \A f \in S : m <= f
  BY <1>1, LeastExists
<1>3. UpTo(m) = {m}
  <2>1. ASSUME NEW q \in S PROVE q <= m <=> q = m
    BY <1>1, <1>2
  <2> QED
    BY <2>1
<1>4. ASSUME NEW r \in S, r # m PROVE ~(Cardinality(UpTo(r)) <= 1)
  <2>1. r \in UpTo(r) /\ m \in UpTo(r) /\ IsFiniteSet(UpTo(r))
    BY <1>1, <1>2, FS_Subset
  <2>2. IsFiniteSet({m, r}) /\ Cardinality({m, r}) = 2
    <3>1. {m, r} = {m} \cup {r} /\ r \notin {m}
      BY <1>4
    <3>2. IsFiniteSet({m}) /\ Cardinality({m}) = 1
      BY FS_Singleton
    <3>3. IsFiniteSet({m} \cup {r}) /\ Cardinality({m} \cup {r}) = Cardinality({m}) + 1
      BY <3>1, <3>2, FS_AddElement
    <3> QED
      BY <3>1, <3>2, <3>3
  <2>3. Cardinality({m, r}) <= Cardinality(UpTo(r))
    <3> HIDE DEF UpTo
    <3>1. {m, r} \in SUBSET UpTo(r)
      BY <2>1
    <3> QED
      BY <2>1, <3>1, FS_Subset
  <2>4. Cardinality(UpTo(r)) \in Nat
    BY <2>1, FS_CardinalityType
  <2> QED
    BY <2>2, <2>3, <2>4
<1>5. Cardinality(UpTo(m)) = 1
  BY <1>3, FS_Singleton
<1>6. Size!FirstOf(S, 1) = {r \in S : Cardinality(UpTo(r)) <= 1}
  BY SizeCardinality DEF Size!FirstOf
<1>7. Size!FirstOf(S, 1) = {m}
  <2> HIDE DEF UpTo
  <2> QED
    BY <1>4, <1>5, <1>6
<1> QED
  BY <1>7, FS_Singleton

(* What fits is rendered whole.                                            *)
LEMMA FittingIsRendered ==
    ASSUME NEW S \in SUBSET Rows, NEW deferred \in BOOLEAN, NEW room, Size!Fits(S, deferred, room)
    PROVE  Size!Rendered(S, deferred, room) = S
<1> DEFINE k == Size!Packed(S, room - Marker)
<1>1. k \in Nat /\ Cardinality(S) \in Nat /\ Size!Cardinality(S) = Cardinality(S)
  BY PackedIsANumber, RowsFinite, SizeCardinality
<1>2. Size!FirstOf(S, Cardinality(S)) = S
  BY FirstOfAll
<1>3. CASE Size!Packed(S, room) = Cardinality(S) /\ ~deferred
  BY <1>1, <1>3 DEF Size!Rendered
<1>4. CASE ~(Size!Packed(S, room) = Cardinality(S) /\ ~deferred)
  <2>1. Cardinality(S) = Size!Max({1, k})
    BY <1>1, <1>4 DEF Size!Fits, Size!Included
  <2>2. Cardinality(S) = IF k >= 1 THEN k ELSE 1
    BY <1>1, <2>1, AtLeastOne
  <2> QED
    BY <1>1, <1>2, <1>4, <2>2 DEF Size!Rendered
<1> QED
  BY <1>3, <1>4

(* One row always fits, and nothing without the marker does.               *)
LEMMA OneRowFits ==
    ASSUME NEW S \in SUBSET Rows, NEW deferred \in BOOLEAN, NEW room,
           Cardinality(S) = 1 \/ (Cardinality(S) = 0 /\ ~deferred)
    PROVE  Size!Fits(S, deferred, room)
<1> DEFINE k == Size!Packed(S, room - Marker)
<1>1. k \in 0 .. Cardinality(S) /\ Size!Packed(S, room) \in 0 .. Cardinality(S)
      /\ Size!Cardinality(S) = Cardinality(S)
  BY PackedIsANumber, SizeCardinality
<1>2. Size!Max({1, k}) = IF k >= 1 THEN k ELSE 1
  BY <1>1, AtLeastOne
<1> QED
  BY <1>1, <1>2 DEF Size!Fits, Size!Included

SizeTypes ==
    /\ fate \in [Rows -> {"unsettled", "pending", "ours", "away"}]
    /\ attempt \in Nat /\ more \in BOOLEAN
    /\ claim \subseteq Rows /\ stayed \subseteq Rows

LeftOutIsPending == \A r \in stayed : fate[r] = "pending" /\ r \notin claim
NothingHeld == pc \in {"preview", "reserve", "idle"} => \A r \in Rows : fate[r] # "ours"

WasValidated ==
    /\ pc = "recheck" => Size!Fits(claim, FALSE, cap) /\ ~more
    /\ pc = "accepted" => Size!Fits(claim, more, cap)

LastAskForOne ==
    /\ pc # "exhausted"
    /\ pc \in {"preview", "reserve", "validate", "recheck"} => attempt <= Attempts
    /\ pc = "reserve" /\ attempt = Attempts => max = 1
    /\ pc \in {"validate", "recheck"} /\ attempt = Attempts => Cardinality(claim) = 1
    /\ pc = "mismatch" => attempt < Attempts

SizeInv ==
    /\ SizeTypes /\ LeftOutIsPending /\ NothingHeld /\ WasValidated /\ LastAskForOne
    /\ Size!SignpostsTheRest

LEMMA SizeStep ==
    ASSUME SizeInv, [Size!Next]_(Size!vars)
    PROVE  SizeInv'
<1> USE SizeAssumption DEF SizeInv, SizeTypes, LeftOutIsPending, NothingHeld, LastAskForOne,
                           Size!SignpostsTheRest, Size!loop
<1>f. UNCHANGED <<size, claim, more, cap>> =>
          /\ Size!Fits(claim, FALSE, cap)' = Size!Fits(claim, FALSE, cap)
          /\ Size!Fits(claim, more, cap)' = Size!Fits(claim, more, cap)
  BY DEF Size!Fits, Size!Included, Size!Packed, Size!TotalLength
<1>1. CASE Size!Preview
  <2>1. attempt <= Attempts /\ pc' = "reserve" /\ UNCHANGED <<fate, attempt, claim, stayed>>
    BY <1>1 DEF Size!Preview
  <2>2. attempt = Attempts => max' = 1
    BY <1>1, <2>1 DEF Size!Preview, Size!Wanted
  <2>3. more' \in BOOLEAN
    BY <1>1, <2>1 DEF Size!Preview
  <2> QED
    BY <1>1, <2>1, <2>2, <2>3 DEF WasValidated, Size!Preview
<1>2. CASE Size!ReserveNothing
  BY <1>2 DEF WasValidated, Size!ReserveNothing
<1>3. CASE Size!ReserveReminder
  <2>1. pc' = "accepted" /\ claim' = {} /\ more' = FALSE /\ UNCHANGED <<fate, attempt, stayed, cap, size>>
    BY <1>3 DEF Size!ReserveReminder
  <2>2. Size!Fits(claim, more, cap)'
    <3>1. Cardinality({}) = 0 /\ {} \in SUBSET Rows
      BY FS_EmptySet
    <3>2. Size!Fits({}, FALSE, cap)
      BY <3>1, OneRowFits
    <3> QED
      BY <2>1, <3>2 DEF Size!Fits, Size!Included, Size!Packed, Size!TotalLength
  <2> QED
    BY <2>1, <2>2 DEF WasValidated
<1>4. CASE Size!ReserveRows
  <2> DEFINE P == Size!Status("pending")
  <2>1. /\ pc = "reserve" /\ pc' = "validate" /\ P # {} /\ P \in SUBSET Rows
        /\ claim' = IF max = 0 THEN P ELSE Size!FirstOf(P, max)
        /\ stayed' = P \ claim'
        /\ fate' = [r \in Rows |-> IF r \in claim' THEN "ours" ELSE fate[r]]
        /\ UNCHANGED <<attempt, more, max>>
    BY <1>4 DEF Size!ReserveRows, Size!Status
  <2>2. claim' \in SUBSET P
    BY <2>1 DEF Size!FirstOf
  <2>3. attempt = Attempts => Cardinality(claim') = 1
    <3> SUFFICES ASSUME attempt = Attempts PROVE Cardinality(claim') = 1
      OBVIOUS
    <3>1. claim' = Size!FirstOf(P, 1)
      BY <2>1
    <3> HIDE DEF P
    <3> QED
      BY <2>1, <3>1, FirstOfOne
  <2>4. SizeTypes'
    BY <2>1, <2>2
  <2>5. \A r \in stayed' : fate'[r] = "pending" /\ r \notin claim'
    BY <2>1 DEF Size!Status
  <2> QED
    BY <2>1, <2>3, <2>4, <2>5 DEF WasValidated
<1>5. CASE Size!Validate
  <2>1. /\ pc = "validate" /\ UNCHANGED <<size, fate, attempt, max, more, claim, cap, stayed>>
        /\ pc' = IF ~Size!Fits(claim, more, cap) THEN "mismatch"
                 ELSE IF more THEN "accepted" ELSE "recheck"
    BY <1>5 DEF Size!Validate
  <2>2. Size!Fits(claim, more, cap) \/ attempt < Attempts
    BY <2>1, OneRowFits
  <2>3. ~more => Size!Fits(claim, more, cap) = Size!Fits(claim, FALSE, cap)
    BY DEF Size!Fits, Size!Included
  <2> QED
    BY <1>f, <2>1, <2>2, <2>3 DEF WasValidated
<1>6. CASE Size!Recheck
  <2>1. /\ pc = "recheck" /\ UNCHANGED <<size, fate, attempt, max, claim, cap, stayed>>
        /\ more' = (Size!Status("pending") \ claim # {})
        /\ pc' = IF more' /\ ~Size!Fits(claim, TRUE, cap) THEN "mismatch" ELSE "accepted"
    BY <1>6 DEF Size!Recheck
  <2>2. Size!Fits(claim, TRUE, cap) \/ attempt < Attempts
    <3>1. TRUE \in BOOLEAN /\ claim \in SUBSET Rows
      OBVIOUS
    <3>2. Cardinality(claim) = 1 => Size!Fits(claim, TRUE, cap)
      BY <3>1, OneRowFits
    <3>3. attempt <= Attempts /\ (attempt = Attempts => Cardinality(claim) = 1)
      BY <2>1
    <3>4. attempt \in Nat /\ Attempts \in Nat
      OBVIOUS
    <3>5. attempt = Attempts \/ attempt < Attempts
      BY <3>3, <3>4
    <3> QED
      BY <3>2, <3>3, <3>5, Zenon
  <2>3. more' \in BOOLEAN /\ (more' = TRUE \/ more' = FALSE)
    BY <2>1
  <2>4. more' = TRUE => Size!Fits(claim, more, cap)' = Size!Fits(claim, TRUE, cap)
    BY <2>1 DEF Size!Fits, Size!Included, Size!Packed, Size!TotalLength
  <2>5. more' = FALSE => Size!Fits(claim, more, cap)' = Size!Fits(claim, FALSE, cap)
    BY <2>1 DEF Size!Fits, Size!Included, Size!Packed, Size!TotalLength
  <2>6. WasValidated'
    BY <2>1, <2>3, <2>4, <2>5 DEF WasValidated
  <2>7. ~more' => stayed = {}
    BY <2>1 DEF Size!Status
  <2> QED
    BY <2>1, <2>2, <2>3, <2>6, <2>7
<1>7. CASE Size!RecheckFails
  BY <1>7 DEF WasValidated, Size!RecheckFails
<1>8. CASE Size!ReleaseAndRetry
  <2>1. /\ pc = "mismatch" /\ pc' = "preview" /\ attempt' = attempt + 1
        /\ fate' = [r \in Rows |-> IF fate[r] = "ours" THEN "pending" ELSE fate[r]]
        /\ claim' = {} /\ stayed' = {} /\ more' = FALSE
    BY <1>8 DEF Size!ReleaseAndRetry
  <2>2. SizeTypes'
    <3>1. fate' \in [Rows -> {"unsettled", "pending", "ours", "away"}]
      BY <2>1
    <3>2. attempt' \in Nat
      BY <2>1
    <3>3. more' \in BOOLEAN /\ claim' \subseteq Rows /\ stayed' \subseteq Rows
      BY <2>1
    <3> QED
      BY <3>1, <3>2, <3>3
  <2>3. LeftOutIsPending'
    BY <2>1
  <2>4. NothingHeld'
    BY <2>1
  <2>5. attempt' <= Attempts
    BY <2>1
  <2> QED
    BY <2>1, <2>2, <2>3, <2>4, <2>5 DEF WasValidated
<1>9. CASE Size!ReleaseAndStop
  BY <1>9 DEF WasValidated, Size!ReleaseAndStop
<1>10. CASE Size!ReleaseFails
  BY <1>10 DEF WasValidated, Size!ReleaseFails
<1>11. ASSUME NEW r \in Rows, NEW from, NEW to \in {"pending", "away"}, Size!Change(r, from, to),
              from # "ours", pc # "accepted"
       PROVE  SizeInv'
  <2>1. /\ fate' = [fate EXCEPT ![r] = to] /\ stayed' = stayed \ {r}
        /\ UNCHANGED <<size, pc, attempt, max, more, claim, cap>>
    BY <1>11 DEF Size!Change
  <2>2. WasValidated'
    BY <1>11, <1>f, <2>1 DEF WasValidated
  <2> QED
    BY <1>11, <2>1, <2>2
<1>12. CASE UNCHANGED Size!vars
  <2>1. WasValidated'
    BY <1>f, <1>12 DEF WasValidated, Size!vars
  <2> QED
    BY <1>12, <2>1 DEF Size!vars
<1>13. ASSUME Size!Next, NEW r \in Rows,
              Size!Settles(r) \/ Size!TakenElsewhere(r) \/ Size!ReturnedElsewhere(r)
       PROVE  SizeInv'
  <2>1. pc # "accepted"
    BY <1>13 DEF Size!Next, Size!Done
  <2> QED
    BY <1>11, <1>13, <2>1 DEF Size!Settles, Size!TakenElsewhere, Size!ReturnedElsewhere
<1> QED
  BY <1>1, <1>2, <1>3, <1>4, <1>5, <1>6, <1>7, <1>8, <1>9, <1>10, <1>12, <1>13 DEF Size!Next

LEMMA SizeInit == ASSUME Size!Init PROVE SizeInv
<1>1. /\ fate \in [Rows -> {"unsettled", "pending"}]
      /\ pc = "preview" /\ attempt = 1 /\ claim = {} /\ stayed = {} /\ more = FALSE
  BY DEF Size!Init
<1>2. Attempts \in Nat \ {0}
  BY SizeAssumption
<1>3. SizeTypes
  BY <1>1, <1>2 DEF SizeTypes
<1>4. LeftOutIsPending
  BY <1>1, <1>2 DEF LeftOutIsPending
<1>5. NothingHeld
  BY <1>1, <1>2 DEF NothingHeld
<1>6. WasValidated
  BY <1>1, <1>2 DEF WasValidated
<1>7. LastAskForOne
  BY <1>1, <1>2 DEF LastAskForOne
<1>8. Size!SignpostsTheRest
  BY <1>1, <1>2 DEF Size!SignpostsTheRest
<1> QED
  BY <1>3, <1>4, <1>5, <1>6, <1>7, <1>8 DEF SizeInv

(* For any rows, sizes, caps and number of attempts, and however rows      *)
(* settle and move between two calls of the loop: no row of an accepted    *)
(* claim is cut from the message, the rest is signposted, and the loop     *)
(* neither runs out of attempts nor says "nothing" over leased rows.       *)
THEOREM SizedClaimsAreShown ==
    Size!Spec => [](Size!ClaimIsShown /\ Size!SignpostsTheRest /\ Size!NullMeansNothing)
<1>1. Size!Init => SizeInv
  BY SizeInit
<1>2. SizeInv /\ [Size!Next]_(Size!vars) => SizeInv'
  BY SizeStep
<1>3. SizeInv => Size!ClaimIsShown /\ Size!SignpostsTheRest /\ Size!NullMeansNothing
  <2> SUFFICES ASSUME SizeInv PROVE Size!ClaimIsShown /\ Size!NullMeansNothing
    BY DEF SizeInv
  <2>1. Size!ClaimIsShown
    BY FittingIsRendered DEF SizeInv, SizeTypes, WasValidated, Size!ClaimIsShown
  <2>2. Size!NullMeansNothing
    BY DEF SizeInv, NothingHeld, LastAskForOne, Size!NullMeansNothing, Size!Status
  <2> QED
    BY <2>1, <2>2
<1> QED
  BY <1>1, <1>2, <1>3, PTL DEF Size!Spec

(* Both transports put on record what they showed.                         *)
THEOREM TransportsRecordWhatTheyShowed ==
    \/ Size!Spec /\ [](part = "size")
    \/ Hook!Spec /\ [](part = "hook")
    => []RecordedIsShown
<1>1. /\ part = "size"
      /\ Size!ClaimIsShown /\ Size!SignpostsTheRest /\ Size!NullMeansNothing
      => RecordedIsShown
  BY DEF RecordedIsShown
<1>2. part = "hook" /\ Hook!RecordedWasShown /\ Hook!ExitsZero => RecordedIsShown
  BY DEF RecordedIsShown
<1> QED
  BY <1>1, <1>2, SizedClaimsAreShown, HookRecordsWhatItShowed, PTL

-----------------------------------------------------------------------------
(***************************************************************************)
(* The doctor.  Its verdict is a function of what the three reads saw, so  *)
(* the invariant is their types, and the argument the verdict's own.       *)
(***************************************************************************)
DoctorInv ==
    /\ leads \subseteq Hosts /\ sawLeads \subseteq Hosts
    /\ beats \subseteq Doc!Beats /\ sawBeats \subseteq Doc!Beats
    /\ hold \in [Hosts -> Doc!HoldsOf] /\ sawHold \in [Hosts -> Doc!HoldsOf]

LEMMA DoctorStep == DoctorInv /\ [Doc!Next]_(Doc!vars) => DoctorInv'
<1> SUFFICES ASSUME DoctorInv, [Doc!Next]_(Doc!vars)
             PROVE  DoctorInv'
  OBVIOUS
<1> USE DEF DoctorInv
<1>1. ASSUME Doc!WorldChanges PROVE DoctorInv'
  <2> USE DEF Doc!Bounded, Doc!input
  <2>1. ASSUME NEW t \in Doc!Transports, NEW s \in Hosts, NEW at \in Doc!Places, Doc!Beat(t, s, at)
        PROVE  DoctorInv'
    <3>1. [transport |-> t, session |-> s, at |-> at, fresh |-> TRUE] \in Doc!Beats
      BY DEF Doc!Beats
    <3> QED
      BY <1>1, <2>1, <3>1 DEF Doc!WorldChanges, Doc!Beat
  <2>2. ASSUME NEW b \in beats, Doc!Lapses(b) PROVE DoctorInv'
    <3>1. [b EXCEPT !.fresh = FALSE] \in Doc!Beats
      BY DEF Doc!Beats
    <3> QED
      BY <1>1, <2>2, <3>1 DEF Doc!WorldChanges, Doc!Lapses
  <2>3. ASSUME NEW s \in Hosts, Doc!SessionChanges(s) PROVE DoctorInv'
    BY <1>1, <2>3 DEF Doc!WorldChanges, Doc!SessionChanges
  <2>4. CASE Doc!DaemonChanges
    BY <1>1, <2>4 DEF Doc!WorldChanges, Doc!DaemonChanges
  <2>5. ASSUME NEW s \in Hosts, NEW h \in Doc!HoldsOf, Doc!HoldChanges(s, h)
        PROVE  DoctorInv'
    BY <1>1, <2>5 DEF Doc!WorldChanges, Doc!HoldChanges
  <2> QED
    BY <1>1, <2>1, <2>2, <2>3, <2>4, <2>5 DEF Doc!WorldChanges
<1>2. CASE Doc!Report
  BY <1>2 DEF Doc!Report, Doc!world
<1>3. CASE Doc!Diagnose
  BY <1>3 DEF Doc!Diagnose, Doc!world, Doc!HoldsOf
<1>4. CASE Doc!Judge
  BY <1>4 DEF Doc!Judge, Doc!world
<1>5. CASE UNCHANGED Doc!vars
  BY <1>5 DEF Doc!vars
<1> QED
  BY <1>1, <1>2, <1>3, <1>4, <1>5 DEF Doc!Next

(* Nothing that concerns both transports is wrong.                         *)
LEMMA NothingShared ==
    ASSUME DoctorInv, Doc!SharedProblems = {}, sawLeads # {}
    PROVE  sawDaemon /\ \A s \in sawLeads : sawHold[s] = "none"
<1>1. \A c \in Doc!SharedCodes :
         ~(\/ c = "daemon-unreachable" /\ ~sawDaemon
           \/ /\ c = "reminders-suppressed" /\ sawDaemon
              /\ \E s \in sawLeads : sawHold[s] = "muted"
           \/ /\ c = "delivery-diagnosis-unavailable" /\ sawDaemon
              /\ \E s \in sawLeads : sawHold[s] = "unknown")
  BY DEF Doc!SharedProblems
<1>2. sawDaemon
  BY <1>1 DEF Doc!SharedCodes
<1> QED
  BY <1>1, <1>2 DEF Doc!SharedCodes, DoctorInv, Doc!HoldsOf

(* A transport that is not broken has a live record of every lead, here.   *)
LEMMA SoundTransport ==
    ASSUME DoctorInv, NEW t \in Doc!Transports, Doc!Running(t), ~Doc!Broken(t),
           NEW s \in sawLeads
    PROVE  Doc!Proves(t, s)
<1>1. Doc!OwnProblems(t) \cap Doc!Disqualifying = {}
  BY DEF Doc!Broken
<1>2. {Doc!UncoveredCode[t], "heartbeat-stale", "workspace-mismatch", "socket-mismatch",
       "environment-mismatch"} \subseteq Doc!Disqualifying
  BY DEF Doc!Transports, Doc!UncoveredCode, Doc!Disqualifying, Doc!Codes, Doc!SharedCodes,
         Doc!AdvisoryCodes
<1>3. Doc!Configured(t)
  BY DEF Doc!Running, Doc!Configured
<1>4. PICK b \in Doc!Selected(t) : b.session = s
  <2>1. Doc!UncoveredCode[t] \notin Doc!OwnProblems(t)
    BY <1>1, <1>2
  <2>2. Doc!Uncovered(t) = {}
    <3> DEFINE records == UNION {Doc!HeartbeatProblems(b) : b \in Doc!Selected(t)}
               own == IF Doc!Configured(t) /\ Doc!Uncovered(t) # {}
                      THEN {Doc!UncoveredCode[t]} ELSE {}
    <3>1. Doc!OwnProblems(t) = records \cup own
      BY DEF Doc!OwnProblems
    <3> HIDE DEF records
    <3> QED
      BY <1>3, <2>1, <3>1
  <2> QED
    BY <2>2 DEF Doc!Uncovered
<1>5. b \in Doc!Beats /\ b \in sawBeats /\ b.transport = t
  BY DEF Doc!Selected, DoctorInv
<1>6. Doc!HeartbeatProblems(b) \cap Doc!Disqualifying = {}
  BY <1>1 DEF Doc!OwnProblems
<1>7. b.at = "here"
  <2>1. b.at # "here" => Doc!Mismatch[b.at] \in Doc!HeartbeatProblems(b)
    BY DEF Doc!HeartbeatProblems
  <2>2. b.at # "here" => Doc!Mismatch[b.at] \in Doc!Disqualifying
    BY <1>2, <1>5 DEF Doc!Mismatch, Doc!Beats, Doc!Places
  <2> QED
    BY <1>6, <2>1, <2>2
<1>8. b.fresh = TRUE
  BY <1>2, <1>5, <1>6 DEF Doc!HeartbeatProblems, Doc!Beats
<1> QED
  BY <1>4, <1>5, <1>7, <1>8 DEF Doc!Proves, Doc!Beats

LEMMA VerdictIsProven == DoctorInv => Doc!DeliverableIsProven
<1> SUFFICES ASSUME DoctorInv, Doc!Deliverable
             PROVE  /\ sawDaemon /\ \A s \in sawLeads : sawHold[s] = "none"
                    /\ \E t \in Doc!Transports : \A s \in sawLeads : Doc!Proves(t, s)
  BY DEF Doc!DeliverableIsProven
<1>1. PICK t \in Doc!Transports : Doc!Running(t) /\ ~Doc!Broken(t)
  BY DEF Doc!Deliverable, Doc!Listening
<1> QED
  BY <1>1, NothingShared, SoundTransport DEF Doc!Deliverable

LEMMA ExitFollows == DoctorInv => Doc!ExitIsTruthful
<1> SUFFICES ASSUME DoctorInv PROVE Doc!ExitIsTruthful
  OBVIOUS
<1>1. CASE sawLeads = {}
  BY <1>1 DEF Doc!ExitIsTruthful, Doc!ExitCode, Doc!DaemonFails, Doc!TransportFails, Doc!IdleVerdict
<1>2. CASE sawLeads # {}
  <2> SUFFICES ASSUME Doc!ExitCode = 0, ~Doc!Deliverable
               PROVE  /\ sawDaemon /\ \A s \in sawLeads : sawHold[s] = "none"
                      /\ \A t \in Doc!Transports, s \in sawLeads : ~Doc!Proves(t, s)
    BY <1>2 DEF Doc!ExitIsTruthful
  <2>1. Doc!SharedProblems = {} /\ \A t \in Doc!Transports : ~Doc!Configured(t)
    BY <1>2 DEF Doc!ExitCode, Doc!IdleVerdict
  <2>2. ASSUME NEW t \in Doc!Transports, NEW s \in sawLeads, Doc!Proves(t, s) PROVE FALSE
    BY <2>1, <2>2 DEF Doc!Proves, Doc!Configured, Doc!Selected
  <2> QED
    BY <1>2, <2>1, <2>2, NothingShared
<1> QED
  BY <1>1, <1>2

(* For any sessions, records and changes during the run: "deliverable" is  *)
(* said only with a live, rightly bound record of one transport for every  *)
(* lead, and the exit code is 0 only when nothing is known to be wrong.    *)
THEOREM DoctorIsTruthful ==
    Doc!Spec => [](Doc!DeliverableIsProven /\ Doc!ExitIsTruthful)
<1>1. Doc!Init => DoctorInv
  BY DEF Doc!Init, DoctorInv, Doc!NoHold, Doc!HoldsOf
<1>2. DoctorInv /\ [Doc!Next]_(Doc!vars) => DoctorInv'
  BY DoctorStep
<1>3. DoctorInv => Doc!DeliverableIsProven /\ Doc!ExitIsTruthful
  BY VerdictIsProven, ExitFollows
<1> QED
  BY <1>1, <1>2, <1>3, PTL DEF Doc!Spec

-----------------------------------------------------------------------------
(***************************************************************************)
(* Verify's verdict.  "No change" rests on two idle rows past the trigger, *)
(* so the invariant says which idle rows there can be when the trigger did *)
(* change something: once an evaluation has seen the change, there is a    *)
(* row that tells (Seen); an evaluation still in flight that has not seen  *)
(* it writes the first row past the frontier, if any (InFlight); so of two *)
(* idle rows past the frontier the later one comes after a row that tells  *)
(* (Idle), and the window, unless it knows of a gap or a suppressed row,   *)
(* has shown every row since the baseline to be idle (Shown).              *)
(***************************************************************************)
Windows == [positive : Nat, negative : Nat, latest : Nat,
            noChange : SUBSET Nat, gap : BOOLEAN, suppressed : BOOLEAN]

VerdictTypes ==
    /\ history \in Seq(Observe!Results)
    /\ eval \in [Evaluations -> {"idle", "changed", "unchanged"}]
    /\ window \in Windows
    /\ effective \in BOOLEAN /\ world \in BOOLEAN /\ seen \in BOOLEAN
    /\ stage \in {"baseline", "trigger", "fired", "observe", "judged"}

Last == Len(history)
Tells(k) == k \in window.positive + 1 .. Last /\ history[k] # "no-change"
Judging == stage \in {"observe", "judged"}

Unfired == stage \in {"baseline", "trigger"} => ~world /\ ~seen /\ \A t \in Evaluations : eval[t] # "changed"
Fired == stage \in {"fired", "observe", "judged"} => world = effective

InWindow ==
    /\ window.positive <= window.latest /\ window.latest <= Last
    /\ stage # "baseline" => window.latest > 0
    /\ stage \in {"baseline", "trigger", "fired"} => window.latest = window.positive /\ window.noChange = {}
    /\ window.noChange \subseteq {i \in window.negative + 1 .. window.latest : history[i] = "no-change"}
    /\ Judging => window.positive <= window.negative

Seen == seen => \E k \in Nat : Tells(k)
InFlight == world /\ Judging => \A t \in Evaluations : eval[t] = "unchanged" => Last <= window.negative
Idle == world /\ Judging =>
    \A i, j \in window.negative + 1 .. Last :
        i < j /\ history[i] = "no-change" /\ history[j] = "no-change" => \E k \in Nat : k < j /\ Tells(k)
Shown == stage = "observe" /\ ~window.gap /\ ~window.suppressed =>
    \A k \in window.positive + 1 .. window.latest : history[k] = "no-change"

VerdictInv ==
    /\ VerdictTypes /\ Unfired /\ Fired /\ InWindow /\ Seen /\ InFlight /\ Idle /\ Shown
    /\ Observe!NoChangeIsTrue

(* Two different elements of a set of two or more.                         *)
LEMMA TwoOfTwo ==
    ASSUME NEW S \in SUBSET Nat, Cardinality(S) >= 2
    PROVE  \E i, j \in S : i < j
<1> SUFFICES ASSUME \A i, j \in S : i = j PROVE FALSE
  OBVIOUS
<1>1. CASE S = {}
  BY <1>1, FS_EmptySet
<1>2. ASSUME NEW x \in S PROVE FALSE
  <2>1. S = {x}
    OBVIOUS
  <2>2. Cardinality({x}) = 1
    BY FS_Singleton
  <2> QED
    BY <2>1, <2>2
<1> QED
  BY <1>1, <1>2

(* What the judgement of a listing does, whatever window it starts from.   *)
LEMMA JudgeStep ==
    ASSUME NEW w, Observe!Judge(w),
           history \in Seq(Observe!Results), w \in Windows, world = effective,
           w.positive <= w.latest, w.latest <= Last, w.latest > 0, w.positive <= w.negative,
           w.noChange \subseteq {i \in w.negative + 1 .. w.latest : history[i] = "no-change"},
           ~w.gap /\ ~w.suppressed =>
               \A k \in w.positive + 1 .. w.latest : history[k] = "no-change",
           world => \A i, j \in w.negative + 1 .. Last :
               i < j /\ history[i] = "no-change" /\ history[j] = "no-change" =>
                   \E k \in Nat : k < j /\ k \in w.positive + 1 .. Last /\ history[k] # "no-change"
    PROVE  /\ window' \in Windows /\ stage' \in {"observe", "judged"}
           /\ window'.positive = w.positive /\ window'.negative = w.negative
           /\ w.latest <= window'.latest /\ window'.latest <= Last
           /\ window'.noChange \subseteq
                  {i \in w.negative + 1 .. window'.latest : history[i] = "no-change"}
           /\ stage' = "observe" /\ ~window'.gap /\ ~window'.suppressed =>
                  \A k \in w.positive + 1 .. window'.latest : history[k] = "no-change"
           /\ (verdict' = "no-change" => ~effective)
<1> DEFINE a == Observe!Advance(w)
           next == Observe!Count(a)
           tells == \E i \in Observe!Post(w) : history[i] = "triggered"
<1>0. Last \in Nat /\ w.latest \in Nat /\ w.positive \in Nat /\ w.negative \in Nat
  BY DEF Last, Windows
<1>1. CASE tells
  <2>1. window' = w /\ verdict' = "triggered" /\ stage' = "judged"
    BY <1>1 DEF Observe!Judge, Observe!Resolve, Observe!NoVerdict
  <2> QED
    BY <1>0, <2>1
<1>2. CASE ~tells
  <2>1. /\ window' = next
        /\ verdict' = IF Observe!RulesOut(next) THEN "no-change" ELSE "none"
        /\ stage' \in {"observe", "judged"}
    BY <1>2 DEF Observe!Judge, Observe!Resolve, Observe!NoVerdict
  <2> DEFINE gap == w.gap \/ (Observe!Newest(w) > w.latest /\ w.latest \notin Observe!Listed)
             suppressed == w.suppressed \/ \E i \in Observe!Post(w) : history[i] = "suppressed"
  <2>2. Observe!Newest(w) = Last
    BY <1>0 DEF Observe!Newest, Last
  <2>3. gap \in BOOLEAN /\ suppressed \in BOOLEAN
    OBVIOUS
  <2>4. a = [w EXCEPT !.latest = Last, !.gap = gap, !.suppressed = suppressed]
    BY <2>2 DEF Observe!Advance, Windows
  <2> HIDE DEF gap, suppressed
  <2>5. /\ a \in Windows /\ a.latest = Last /\ a.gap = gap /\ a.suppressed = suppressed
        /\ a.positive = w.positive /\ a.negative = w.negative /\ a.noChange = w.noChange
    BY <1>0, <2>3, <2>4 DEF Windows
  <2> HIDE DEF a
  <2>6. /\ next \in Windows /\ next.latest = Last /\ next.gap = gap /\ next.suppressed = suppressed
        /\ next.positive = w.positive /\ next.negative = w.negative
        /\ next.noChange \subseteq {i \in w.negative + 1 .. Last : history[i] = "no-change"}
    <3> DEFINE counted == {i \in Observe!Post(a) : i > a.negative /\ history[i] = "no-change"}
    <3>1. counted \subseteq {i \in w.negative + 1 .. Last : history[i] = "no-change"}
      BY <1>0, <2>5 DEF Observe!Post, Observe!Listed, Last
    <3>2. w.noChange \subseteq {i \in w.negative + 1 .. Last : history[i] = "no-change"}
      BY <1>0
    <3>3. next = IF a.gap \/ a.suppressed THEN a ELSE [a EXCEPT !.noChange = w.noChange \cup counted]
      BY <2>5 DEF Observe!Count, Windows
    <3>4. w.noChange \cup counted \in SUBSET Nat
      BY <1>0, <3>1, <3>2
    <3> HIDE DEF next, counted
    <3> QED
      BY <2>5, <3>1, <3>2, <3>3, <3>4 DEF Windows
  <2> HIDE DEF next
  <2>7. ~gap /\ ~suppressed => \A k \in w.positive + 1 .. Last : history[k] = "no-change"
    <3> SUFFICES ASSUME ~gap, ~suppressed, NEW k \in w.positive + 1 .. Last, k > w.latest
                 PROVE  history[k] = "no-change"
      BY <1>0 DEF gap, suppressed
    <3>1. w.latest \in Observe!Listed
      BY <1>0, <2>2 DEF gap
    <3>2. k \in Observe!Post(w)
      BY <1>0, <3>1, ObserveAssumption DEF Observe!Post, Observe!Listed, Last
    <3>3. history[k] # "triggered" /\ history[k] # "suppressed"
      BY <1>2, <3>2 DEF suppressed
    <3>4. history[k] \in Observe!Results
      BY <1>0 DEF Last
    <3> QED
      BY <3>3, <3>4 DEF Observe!Results
  <2>8. Observe!RulesOut(next) => ~effective
    <3> SUFFICES ASSUME Observe!RulesOut(next), effective PROVE FALSE
      OBVIOUS
    <3>1. PICK i \in next.noChange, j \in next.noChange : i < j
      <4>1. Observe!Cardinality(next.noChange) = Cardinality(next.noChange)
        BY DEF Observe!Cardinality, Cardinality
      <4>2. Cardinality(next.noChange) >= 2
        BY <4>1 DEF Observe!RulesOut
      <4> QED
        BY <2>6, <4>2, TwoOfTwo DEF Windows
    <3>2. PICK k \in Nat : k < j /\ k \in w.positive + 1 .. Last /\ history[k] # "no-change"
      BY <2>6, <3>1
    <3> QED
      BY <2>6, <2>7, <3>2 DEF Observe!RulesOut
  <2> QED
    BY <1>0, <2>1, <2>6, <2>7, <2>8
<1> QED
  BY <1>1, <1>2

LEMMA VerdictStep ==
    ASSUME VerdictInv, [Observe!Next]_(Observe!vars)
    PROVE  VerdictInv'
<1> USE DEF VerdictInv, VerdictTypes, Observe!NoChangeIsTrue
<1>0. /\ Last \in Nat /\ window.latest \in Nat /\ window.positive \in Nat
      /\ window.negative \in Nat /\ window.noChange \in SUBSET Nat
  BY DEF Last, Windows
<1>1. ASSUME NEW t \in Evaluations, Observe!StartObserve(t) PROVE VerdictInv'
  <2>1. /\ eval' = [eval EXCEPT ![t] = IF world THEN "changed" ELSE "unchanged"]
        /\ UNCHANGED <<effective, world, seen, holding, history, stage, window, verdict>>
    BY <1>1 DEF Observe!StartObserve
  <2>2. VerdictTypes'
    BY <2>1
  <2>3. Unfired' /\ InFlight'
    BY <2>1 DEF Unfired, InFlight, Judging, Last
  <2> QED
    BY <2>1, <2>2, <2>3 DEF Fired, InWindow, Seen, Idle, Shown, Judging, Tells, Last
<1>2. ASSUME NEW t \in Evaluations, Observe!EndObserve(t) PROVE VerdictInv'
  <2> DEFINE saw == eval[t] = "changed"
             found == saw # seen
  <2>1. /\ eval[t] # "idle" /\ eval' = [eval EXCEPT ![t] = "idle"]
        /\ seen' = saw
        /\ UNCHANGED <<effective, world, stage, window, verdict>>
    BY <1>2 DEF Observe!EndObserve
  <2>2. PICK r \in Observe!Results :
          history' = Append(history, r) /\ (found => r # "no-change")
    BY <1>2 DEF Observe!EndObserve, Observe!Results
  <2>3. /\ Last' = Last + 1 /\ history'[Last + 1] = r /\ history' \in Seq(Observe!Results)
        /\ \A i \in 1 .. Last : history'[i] = history[i]
    BY <2>2 DEF Last
  <2>4. window.positive <= Last /\ window.latest <= Last
    BY <1>0 DEF InWindow
  <2>5. \A k \in Nat : Tells(k) => k \in 1 .. Last /\ Tells(k)'
    BY <1>0, <2>1, <2>3 DEF Tells
  <2>6. r # "no-change" => \E k \in Nat : Tells(k)'
    <3> SUFFICES ASSUME r # "no-change" PROVE \E k \in Nat : Tells(k)'
      OBVIOUS
    <3> DEFINE k == Last + 1
    <3>1. k \in Nat /\ k \in window.positive + 1 .. Last + 1
      BY <1>0, <2>4
    <3> HIDE DEF k
    <3>2. history'[k] = r
      BY <2>3 DEF k
    <3> QED
      BY <2>1, <2>3, <3>1, <3>2 DEF Tells
  <2>7. VerdictTypes'
    BY <2>1, <2>3
  <2>8. Unfired' /\ Fired'
    BY <2>1 DEF Unfired, Fired
  <2>9. InWindow'
    BY <1>0, <2>1, <2>3, <2>4 DEF InWindow, Judging
  <2>10. Seen'
    <3> SUFFICES ASSUME seen' PROVE \E k \in Nat : Tells(k)'
      BY DEF Seen
    <3>1. CASE seen
      BY <2>5, <3>1 DEF Seen
    <3>2. CASE ~seen
      BY <1>0, <2>1, <2>2, <2>6, <3>2
    <3> QED
      BY <3>1, <3>2
  <2>11. InFlight'
    BY <2>1, ObserveAssumption DEF InFlight
  <2>12. Idle'
    <3> SUFFICES ASSUME world, Judging,
                        NEW i \in window.negative + 1 .. Last + 1,
                        NEW j \in window.negative + 1 .. Last + 1,
                        i < j, history'[i] = "no-change", history'[j] = "no-change"
                 PROVE  \E k \in Nat : k < j /\ Tells(k)'
      BY <2>1, <2>3 DEF Idle, Judging
    <3>1. CASE j <= Last
      <4>1. i \in window.negative + 1 .. Last /\ j \in window.negative + 1 .. Last
            /\ history[i] = "no-change" /\ history[j] = "no-change"
        BY <1>0, <2>3, <3>1
      <4> QED
        BY <2>5, <4>1 DEF Idle
    <3>2. CASE j = Last + 1
      <4>1. ~found
        BY <2>2, <2>3, <3>2
      <4>2. CASE saw
        <5>1. PICK k \in Nat : Tells(k)
          BY <4>1, <4>2 DEF Seen
        <5> QED
          BY <1>0, <2>5, <3>2, <5>1
      <4>3. CASE ~saw
        <5>1. Last <= window.negative
          BY <2>1, <4>3 DEF InFlight
        <5> QED
          BY <1>0, <3>2, <5>1
      <4> QED
        BY <4>2, <4>3
    <3> QED
      BY <1>0, <3>1, <3>2
  <2>13. Shown'
    BY <1>0, <2>1, <2>3, <2>4 DEF Shown
  <2>14. Observe!NoChangeIsTrue'
    BY <2>1
  <2> QED
    BY <2>7, <2>8, <2>9, <2>10, <2>11, <2>12, <2>13, <2>14
<1>3. CASE Observe!BaselineSeen
  <2>1. /\ stage = "baseline" /\ stage' = "trigger" /\ history # <<>>
        /\ window' = [window EXCEPT !.positive = Last, !.latest = Last]
        /\ UNCHANGED <<effective, verdict, world, seen, holding, eval, history>>
    BY <1>3 DEF Observe!BaselineSeen, Observe!daemonVars, Last
  <2>2. Last > 0
    BY <1>0, <2>1 DEF Last
  <2>3. window' \in Windows /\ window'.positive = Last /\ window'.latest = Last
        /\ window'.noChange = window.noChange
    BY <1>0, <2>1 DEF Windows
  <2>4. Unfired'
    BY <2>1 DEF Unfired
  <2>5. InWindow'
    BY <1>0, <2>1, <2>2, <2>3 DEF InWindow, Judging, Last
  <2> QED
    BY <2>1, <2>3, <2>4, <2>5 DEF Unfired, Fired, Seen, InFlight, Idle, Shown, Judging
<1>4. CASE Observe!Fire
  <2>1. /\ stage = "trigger" /\ stage' = "fired" /\ world' = effective
        /\ UNCHANGED <<effective, seen, holding, eval, history, window, verdict>>
    BY <1>4 DEF Observe!Fire
  <2> QED
    BY <2>1 DEF Unfired, Fired, InWindow, Seen, InFlight, Idle, Shown, Judging, Tells, Last
<1>5. ASSUME NEW w \in Windows, stage \in {"fired", "observe"}, Observe!Judge(w),
             UNCHANGED <<effective, world, seen, holding, eval, history>>,
             w = IF stage = "fired" THEN [window EXCEPT !.negative = Last] ELSE window
      PROVE  VerdictInv'
  <2>1. /\ w.positive = window.positive /\ w.latest = window.latest /\ w.noChange = window.noChange
        /\ w.gap = window.gap /\ w.suppressed = window.suppressed
        /\ w.negative = IF stage = "fired" THEN Last ELSE window.negative
    BY <1>5 DEF Windows
  <2>2. world = effective
    BY <1>5 DEF Fired
  <2>3. w.positive <= w.latest /\ w.latest <= Last /\ w.latest > 0 /\ w.positive <= w.negative
    BY <1>0, <1>5, <2>1 DEF InWindow, Judging
  <2>4. w.noChange \subseteq {i \in w.negative + 1 .. w.latest : history[i] = "no-change"}
    BY <1>5, <2>1 DEF InWindow
  <2>5. ~w.gap /\ ~w.suppressed =>
          \A k \in w.positive + 1 .. w.latest : history[k] = "no-change"
    BY <1>0, <1>5, <2>1 DEF Shown, InWindow
  <2>6. world => \A i, j \in w.negative + 1 .. Last :
          i < j /\ history[i] = "no-change" /\ history[j] = "no-change" =>
              \E k \in Nat : k < j /\ k \in w.positive + 1 .. Last /\ history[k] # "no-change"
    BY <1>0, <1>5, <2>1 DEF Idle, Judging, Tells
  <2>7. world => \A u \in Evaluations : eval[u] = "unchanged" => Last <= w.negative
    BY <1>0, <1>5, <2>1 DEF InFlight, Judging
  <2>8. /\ window' \in Windows /\ stage' \in {"observe", "judged"}
        /\ window'.positive = w.positive /\ window'.negative = w.negative
        /\ w.latest <= window'.latest /\ window'.latest <= Last
        /\ window'.noChange \subseteq
               {i \in w.negative + 1 .. window'.latest : history[i] = "no-change"}
        /\ stage' = "observe" /\ ~window'.gap /\ ~window'.suppressed =>
               \A k \in w.positive + 1 .. window'.latest : history[k] = "no-change"
        /\ (verdict' = "no-change" => ~effective)
    BY <1>5, <2>2, <2>3, <2>4, <2>5, <2>6, JudgeStep
  <2>9. Last' = Last /\ window'.latest \in Nat /\ w.positive \in Nat /\ w.negative \in Nat
        /\ w.latest \in Nat
    BY <1>5, <2>8 DEF Last, Windows
  <2>10. VerdictTypes' /\ Unfired' /\ Fired' /\ Observe!NoChangeIsTrue'
    BY <1>5, <2>2, <2>8 DEF Unfired, Fired
  <2>11. InWindow'
    BY <1>0, <1>5, <2>3, <2>8, <2>9 DEF InWindow, Judging
  <2>12. Seen' /\ Idle' /\ InFlight'
    <3>1. \A k : Tells(k)' <=> Tells(k)
      BY <1>5, <2>1, <2>8, <2>9 DEF Tells
    <3>2. Seen'
      BY <1>5, <3>1 DEF Seen
    <3>3. InFlight'
      BY <1>5, <2>7, <2>8, <2>9 DEF InFlight
    <3>4. Idle'
      <4> SUFFICES ASSUME world,
                          NEW i \in w.negative + 1 .. Last, NEW j \in w.negative + 1 .. Last,
                          i < j, history[i] = "no-change", history[j] = "no-change"
                   PROVE  \E k \in Nat : k < j /\ Tells(k)'
        BY <1>5, <2>8, <2>9 DEF Idle
      <4>1. PICK k \in Nat : k < j /\ k \in w.positive + 1 .. Last /\ history[k] # "no-change"
        BY <2>6
      <4> QED
        BY <2>1, <3>1, <4>1 DEF Tells
    <3> QED
      BY <3>2, <3>3, <3>4
  <2>13. Shown'
    BY <1>5, <2>8 DEF Shown
  <2> QED
    BY <2>10, <2>11, <2>12, <2>13
<1>6. CASE Observe!TriggerDone
  <2>1. /\ stage = "fired" /\ Observe!Judge([window EXCEPT !.negative = Last])
        /\ UNCHANGED <<effective, world, seen, holding, eval, history>>
    BY <1>6 DEF Observe!TriggerDone, Observe!daemonVars, Last
  <2>2. [window EXCEPT !.negative = Last] \in Windows
    BY <1>0 DEF Windows
  <2> QED
    BY <1>5, <2>1, <2>2
<1>7. CASE Observe!Poll
  BY <1>5, <1>7 DEF Observe!Poll, Observe!daemonVars
<1>8. CASE UNCHANGED Observe!vars
  BY <1>8 DEF Observe!vars, Unfired, Fired, InWindow, Seen, InFlight, Idle, Shown, Judging, Tells, Last
<1> QED
  BY <1>1, <1>2, <1>3, <1>4, <1>6, <1>7, <1>8 DEF Observe!Next

LEMMA VerdictInit == ASSUME Observe!Init PROVE VerdictInv
<1>1. /\ history = <<>> /\ Last = 0 /\ stage = "baseline" /\ verdict = "none"
      /\ effective \in BOOLEAN /\ world = FALSE /\ seen = FALSE
      /\ eval = [t \in Evaluations |-> "idle"]
  BY DEF Observe!Init, Observe!NoVerdict, Last
<1>2. window \in Windows /\ window.positive = 0 /\ window.latest = 0 /\ window.noChange = {}
  BY DEF Observe!Init, Windows
<1>3. VerdictTypes
  <2>1. history \in Seq(Observe!Results)
    BY <1>1
  <2>2. world \in BOOLEAN /\ seen \in BOOLEAN
    BY <1>1
  <2> QED
    BY <1>1, <1>2, <2>1, <2>2 DEF VerdictTypes
<1>4. InWindow
  BY <1>1, <1>2 DEF InWindow, Judging
<1> QED
  BY <1>1, <1>3, <1>4 DEF VerdictInv, Unfired, Fired, Seen, InFlight, Idle, Shown, Judging,
                          Observe!NoChangeIsTrue

(* While evaluations of the monitor do not overlap, verify never says that *)
(* its trigger changed nothing when it did: for any listing limit, any     *)
(* number of rows and any change held back or evaluation in flight.        *)
THEOREM NoChangeIsSaidTruly == Observe!Spec => []Observe!NoChangeIsTrue
<1>1. Observe!Init => VerdictInv
  BY VerdictInit
<1>2. VerdictInv /\ [Observe!Next]_(Observe!vars) => VerdictInv'
  BY VerdictStep
<1>3. VerdictInv => Observe!NoChangeIsTrue
  BY DEF VerdictInv
<1> QED
  BY <1>1, <1>2, <1>3, PTL DEF Observe!Spec

(* A verdict is never better, or worse, than its evidence: neither         *)
(* verify's nor doctor's.                                                  *)
THEOREM VerdictsFollowTheEvidence ==
    \/ Observe!Spec /\ [](part = "observe")
    \/ Doc!Spec /\ [](part = "doctor")
    => []VerdictsAreTrue
<1>1. part = "observe" /\ Observe!NoChangeIsTrue => VerdictsAreTrue
  BY DEF VerdictsAreTrue
<1>2. part = "doctor" /\ Doc!DeliverableIsProven /\ Doc!ExitIsTruthful => VerdictsAreTrue
  BY DEF VerdictsAreTrue
<1> QED
  BY <1>1, <1>2, NoChangeIsSaidTruly, DoctorIsTruthful, PTL

-----------------------------------------------------------------------------
(***************************************************************************)
(* The sources.  A follower and the baseline can differ only on the keys   *)
(* that went astray: those of which git, or a quiet rebaseline, told       *)
(* nothing, and files that changed between the two reads of an observe.    *)
(* Of such a file both know that it is there: the second read would have   *)
(* failed otherwise.  What the plugins share is a set of observations that *)
(* tells of every difference of two states and of nothing else.            *)
(***************************************************************************)
State == [Keys -> Versions]

SourceTypes ==
    /\ kind \in Source!Kinds /\ world \in State /\ cur \in State /\ replica \in State
    /\ base = Source!NoBase \/ base \in State
    /\ health \in {"ok", "failing"} /\ edge \in {"none", "failing", "recovered"}
    /\ astray \subseteq Keys /\ raced \subseteq Keys

\* A blob has contents, and only files and the trees of commits go astray.
BlobsAreThere == kind \in {"command", "api"} =>
    \A k \in Keys : world[k] # 0 /\ (base # Source!NoBase => base[k] # 0)

AstrayAre == kind \notin {"file", "incoming"} \/ base = Source!NoBase => astray = {}

\* Every observation is of a difference, and says what kind of one; its text is the new
\* one, but for the keys of off, of which it may be any text.
SaysWhatChanged(obs, old, new, off) == \A o \in obs :
    /\ o[1] \in Keys /\ new[o[1]] # old[o[1]] /\ o[3] \in Versions
    /\ o[3] = new[o[1]] \/ (o[1] \in off /\ o[3] # 0 /\ new[o[1]] # 0)
    /\ o[2] \in {"created", "renamed"} => old[o[1]] = 0
    /\ o[2] = "modified" => old[o[1]] # 0 /\ new[o[1]] # 0
    /\ o[2] \notin {"created", "renamed", "modified"} => old[o[1]] # 0 /\ new[o[1]] = 0

\* A poll of files under way: a file is as it was hashed unless it is known to have
\* changed since; and the differences are those told of and those to be told of.
PollInv ==
    /\ pc \in {"idle", "hash", "compare"} /\ (pc # "idle" => kind = "file")
    /\ pc = "idle" => raced = {} /\ cur = Source!Blank
    /\ \A k \in raced : cur[k] # 0
    /\ \A k \in Keys : Source!BetweenReads(k) /\ k \notin raced => world[k] = cur[k]
    /\ pc = "hash" => report = {}
    /\ pc = "compare" =>
        /\ base = Source!NoBase => todo = {} /\ report = {}
        /\ base # Source!NoBase =>
            /\ SaysWhatChanged(report, base, cur, raced)
            /\ \A k \in Keys : base[k] # cur[k] <=> k \in todo \/ k \in Source!Reported(report)

SourceInv == SourceTypes /\ BlobsAreThere /\ AstrayAre /\ PollInv /\ Source!ReportsAddUp

LEMMA DifferencesTell ==
    ASSUME NEW old \in State, NEW new \in State, NEW gone \in [Keys -> {"deleted", "descoped"}]
    PROVE  /\ SaysWhatChanged(Source!Differences(old, new, gone), old, new, {})
           /\ \A k \in Keys : k \in Source!Reported(Source!Differences(old, new, gone)) <=> old[k] # new[k]
<1> DEFINE obs == Source!Differences(old, new, gone)
           there == {<<k, IF old[k] = 0 THEN "created" ELSE "modified", new[k]>> :
                       k \in {x \in Keys : new[x] # 0 /\ new[x] # old[x]}}
           absent == {<<k, gone[k], 0>> : k \in {x \in Keys : new[x] = 0 /\ old[x] # 0}}
<1>1. obs = there \cup absent
  BY DEF Source!Differences
<1>0. \A k \in Keys : old[k] \in Versions /\ new[k] \in Versions
  BY DEF State
<1>2. SaysWhatChanged(there, old, new, {})
  BY <1>0 DEF SaysWhatChanged
<1>3. SaysWhatChanged(absent, old, new, {})
  <2>1. \A k \in Keys : gone[k] \notin {"created", "renamed", "modified"}
    OBVIOUS
  <2> QED
    BY <2>1, SourceAssumption DEF SaysWhatChanged
<1>4. ASSUME NEW k \in Keys, old[k] # new[k]
      PROVE  \E o \in obs : o[1] = k
  <2>1. CASE new[k] # 0
    <3>1. <<k, IF old[k] = 0 THEN "created" ELSE "modified", new[k]>> \in there
      BY <1>4, <2>1
    <3> QED
      BY <3>1, <1>1
  <2>2. CASE new[k] = 0
    <3> DEFINE o == <<k, gone[k], 0>>
    <3>1. o \in absent /\ o[1] = k
      BY <1>4, <2>2
    <3> HIDE DEF o, absent, there
    <3> QED
      BY <3>1, <1>1
  <2> QED
    BY <2>1, <2>2
<1>5. SaysWhatChanged(obs, old, new, {})
  <2> HIDE DEF there, absent
  <2> QED
    BY <1>1, <1>2, <1>3 DEF SaysWhatChanged
<1>6. ASSUME NEW k \in Keys PROVE k \in Source!Reported(obs) <=> old[k] # new[k]
  <2> HIDE DEF obs
  <2>1. ASSUME k \in Source!Reported(obs) PROVE old[k] # new[k]
    <3>1. PICK o \in obs : o[1] = k
      BY <2>1 DEF Source!Reported
    <3> QED
      BY <3>1, <1>5 DEF SaysWhatChanged
  <2>2. ASSUME old[k] # new[k] PROVE k \in Source!Reported(obs)
    <3>1. PICK o \in obs : o[1] = k
      BY <1>4, <2>2
    <3> QED
      BY <3>1 DEF Source!Reported
  <2> QED
    BY <2>1, <2>2
<1> HIDE DEF obs
<1> QED
  BY <1>5, <1>6 DEF obs

(* One changed blob, and the pairing of a removal with an addition.        *)
LEMMA PairedTells ==
    ASSUME NEW obs, NEW old, NEW new, SaysWhatChanged(obs, old, new, {}), NEW from
    PROVE  /\ SaysWhatChanged(Source!Paired(obs, from), old, new, {})
           /\ \A k : k \in Source!Reported(Source!Paired(obs, from))
                       <=> k \in Source!Reported(obs) /\ k # from
<1> DEFINE as(o) == IF o[2] = "created" THEN <<o[1], "renamed", o[3]>> ELSE o
           kept == {x \in obs : x[1] # from}
           p == Source!Paired(obs, from)
<1>1. p = {as(o) : o \in kept}
  BY DEF Source!Paired
<1>2. \A o \in obs : as(o)[1] = o[1] /\ as(o)[3] = o[3]
                     /\ as(o)[2] = IF o[2] = "created" THEN "renamed" ELSE o[2]
  OBVIOUS
<1> HIDE DEF as, p
<1>3. ASSUME NEW q \in p
      PROVE  \E o \in obs : /\ q[1] = o[1] /\ q[3] = o[3] /\ o[1] # from
                            /\ q[2] = IF o[2] = "created" THEN "renamed" ELSE o[2]
  <2>1. PICK o \in kept : q = as(o)
    BY <1>1
  <2> QED
    BY <1>2, <2>1
<1>4. SaysWhatChanged(p, old, new, {})
  BY <1>3 DEF SaysWhatChanged
<1>5. ASSUME NEW o \in obs, o[1] # from
      PROVE  as(o) \in p /\ as(o)[1] = o[1]
  BY <1>1, <1>2, <1>5
<1>6. ASSUME NEW k PROVE k \in Source!Reported(p) <=> k \in Source!Reported(obs) /\ k # from
  <2> HIDE DEF kept
  <2>1. ASSUME k \in Source!Reported(p) PROVE k \in Source!Reported(obs) /\ k # from
    <3>1. PICK q \in p : q[1] = k
      BY <2>1 DEF Source!Reported
    <3>2. PICK o \in obs : q[1] = o[1] /\ o[1] # from
      BY <3>1, <1>3
    <3> QED
      BY <3>1, <3>2 DEF Source!Reported
  <2>2. ASSUME k \in Source!Reported(obs), k # from PROVE k \in Source!Reported(p)
    <3>1. PICK o \in obs : o[1] = k
      BY <2>2 DEF Source!Reported
    <3>2. as(o) \in p /\ as(o)[1] = k
      BY <3>1, <2>2, <1>5
    <3> QED
      BY <3>2 DEF Source!Reported
  <2> QED
    BY <2>1, <2>2
<1> QED
  BY <1>4, <1>6 DEF p

(* A follower who applies what an observe told is at its new state where   *)
(* it was told of, or at another text of what is there, and where it was   *)
(* elsewhere.                                                              *)
Follower(obs, next, off) == \A k \in Keys :
    /\ k \notin Source!Reported(obs) => replica'[k] = replica[k]
    /\ k \in Source!Reported(obs) =>
        replica'[k] = next[k] \/ (k \in off /\ replica'[k] # 0 /\ next[k] # 0)

LEMMA FollowerMoves ==
    ASSUME NEW obs, NEW next \in State, NEW off, base # Source!NoBase, base \in State, replica \in State,
           SaysWhatChanged(obs, base, next, off), Source!Ends(obs, next)
    PROVE  base' = next /\ report' = obs /\ replica' \in State /\ Follower(obs, next, off)
<1> DEFINE told(k) == CHOOSE o \in obs : o[1] = k
<1>1. /\ base' = next /\ report' = obs
      /\ replica' = [k \in Keys |-> IF k \notin Source!Reported(obs) THEN replica[k]
                                    ELSE (CHOOSE o \in obs : o[1] = k)[3]]
  BY DEF Source!Ends
<1>2. ASSUME NEW k \in Keys, k \in Source!Reported(obs)
      PROVE  /\ told(k)[3] \in Versions
             /\ told(k)[3] = next[k] \/ (k \in off /\ told(k)[3] # 0 /\ next[k] # 0)
  <2>1. \E o \in obs : o[1] = k
    BY <1>2 DEF Source!Reported
  <2>2. told(k) \in obs /\ told(k)[1] = k
    BY <2>1
  <2> HIDE DEF told
  <2> QED
    BY <2>2 DEF SaysWhatChanged
<1>3. replica' = [k \in Keys |-> IF k \notin Source!Reported(obs) THEN replica[k] ELSE told(k)[3]]
  BY <1>1
<1> HIDE DEF told
<1>4. Follower(obs, next, off)
  BY <1>2, <1>3 DEF Follower
<1>5. \A k \in Keys : replica[k] \in Versions
  BY DEF State
<1>6. replica' \in State
  BY <1>2, <1>3, <1>5 DEF State
<1> QED
  BY <1>1, <1>4, <1>6

(* What a truthful report gives of news, to a follower who is up to date   *)
(* but for what went astray.                                               *)
LEMMA TellsNewsOf ==
    ASSUME NEW off, base # Source!NoBase, SaysWhatChanged(report', base, base', off),
           \A o \in report' : replica[o[1]] = base[o[1]] \/ Source!Apart(o[1]),
           \A o \in report' : o[1] \in off => o[1] \in astray',
           kind \notin {"file", "incoming"} => astray = {},
           edge' # "none" => heard # Source!Health[edge']
    PROVE  Source!TellsNews
<1>1. ASSUME NEW o \in report', ~Source!Missed(o[1])
      PROVE  CASE o[2] = "created" -> replica[o[1]] = 0
               [] o[2] = "modified" -> /\ replica[o[1]] # 0
                                       /\ replica[o[1]] # o[3] \/ o[1] \in astray \cup astray'
               [] o[2] = "renamed" -> replica[o[1]] # o[3]
               [] OTHER -> replica[o[1]] # 0
  <2>1. \/ replica[o[1]] = base[o[1]]
        \/ o[1] \in astray /\ replica[o[1]] # 0 /\ base[o[1]] # 0
    BY <1>1 DEF Source!Apart, Source!Missed
  <2>2. o[3] = base'[o[1]] \/ o[1] \in astray'
    BY DEF SaysWhatChanged
  <2>3. /\ base'[o[1]] # base[o[1]]
        /\ o[2] \in {"created", "renamed"} => base[o[1]] = 0
        /\ o[2] = "modified" => base[o[1]] # 0 /\ base'[o[1]] # 0
        /\ o[2] \notin {"created", "renamed", "modified"} => base[o[1]] # 0
    BY DEF SaysWhatChanged
  <2>4. o[3] = base'[o[1]] \/ o[3] # 0
    BY DEF SaysWhatChanged
  <2> QED
    BY <2>1, <2>2, <2>3, <2>4
<1>2. ASSUME NEW o \in report'
      PROVE  CASE o[2] = "created" -> replica[o[1]] = 0 \/ Source!Missed(o[1])
               [] o[2] = "modified" ->
                    \/ Source!Missed(o[1])
                    \/ /\ replica[o[1]] # 0
                       /\ replica[o[1]] # o[3] \/ o[1] \in astray \cup astray'
               [] o[2] = "renamed" -> replica[o[1]] # o[3] \/ Source!Missed(o[1])
               [] OTHER -> replica[o[1]] # 0 \/ Source!Missed(o[1])
  BY <1>1
<1> QED
  BY <1>2 DEF Source!TellsNews

Followed(k) == kind \in {"command", "api"} => k = Compared

(* One observe that ends with a new state: what it must tell, and of which *)
(* keys it may keep silent.                                                *)
LEMMA ObserveTold ==
    ASSUME SourceInv, NEW obs, NEW next \in State, NEW off, Source!Ends(obs, next),
           kind' = kind, world' \in State, cur' \in State, astray' \subseteq Keys, raced' \subseteq Keys,
           PollInv',
           kind \in {"command", "api"} => \A k \in Keys : world'[k] # 0 /\ next[k] # 0,
           kind \notin {"file", "incoming"} \/ base = Source!NoBase => astray' = {},
           base # Source!NoBase =>
               /\ SaysWhatChanged(obs, base, next, off)
               /\ \A k \in Source!Reported(obs) : Followed(k) /\ (k \in off => k \in astray')
               /\ \A k \in Keys \ Source!Reported(obs) :
                      /\ Followed(k) => base[k] = next[k] \/ (k \in astray' /\ kind = "incoming")
                      /\ k \in astray => k \in astray',
           health' \in {"ok", "failing"}, edge' \in {"none", "failing", "recovered"},
           heard' = health', edge' # "none" => heard # Source!Health[edge']
    PROVE  SourceInv' /\ Source!TellsNews
<1> USE DEF SourceInv, SourceTypes
<1>1. CASE base = Source!NoBase
  <2>1. base' = next /\ replica' = next /\ report' = {} /\ astray' = {}
    BY <1>1 DEF Source!Ends
  <2>2. SourceTypes'
    BY <2>1
  <2>3. BlobsAreThere' /\ AstrayAre' /\ Source!ReportsAddUp'
    BY <2>1 DEF BlobsAreThere, AstrayAre, Source!ReportsAddUp
  <2>4. Source!TellsNews
    BY <2>1 DEF Source!TellsNews
  <2> QED
    BY <2>2, <2>3, <2>4
<1>2. CASE base # Source!NoBase
  <2>0. base \in State
    BY <1>2
  <2>1. base' = next /\ report' = obs /\ replica' \in State /\ Follower(obs, next, off)
    BY <1>2, <2>0, FollowerMoves
  <2>2. \A k \in Keys : Followed(k) => replica[k] = base[k] \/ Source!Apart(k)
    BY <1>2 DEF Source!ReportsAddUp, Followed
  <2>3. ASSUME NEW k \in Keys, Followed(k)
        PROVE  replica'[k] = base'[k] \/ Source!Apart(k)'
    <3>1. CASE k \in Source!Reported(obs)
      <4>1. replica'[k] = next[k] \/ (k \in astray' /\ replica'[k] # 0 /\ next[k] # 0)
        BY <1>2, <2>1, <3>1 DEF Follower
      <4> QED
        BY <2>1, <4>1 DEF Source!Apart
    <3>2. CASE k \notin Source!Reported(obs)
      <4>1. replica'[k] = replica[k] /\ (replica[k] = base[k] \/ Source!Apart(k))
        BY <2>1, <2>2, <2>3, <3>2 DEF Follower
      <4>2. /\ base[k] = next[k] \/ (k \in astray' /\ kind = "incoming")
            /\ k \in astray => k \in astray'
        BY <1>2, <2>3, <3>2
      <4> QED
        BY <2>1, <4>1, <4>2 DEF Source!Apart
    <3> QED
      BY <3>1, <3>2
  <2>4. Source!ReportsAddUp'
    BY <2>3 DEF Source!ReportsAddUp, Followed
  <2>5. SourceTypes' /\ BlobsAreThere' /\ AstrayAre'
    BY <1>2, <2>1, SourceAssumption DEF BlobsAreThere, AstrayAre, State
  <2>6. Source!TellsNews
    <3>1. \A o \in report' : o[1] \in Source!Reported(obs) /\ o[1] \in Keys
      BY <1>2, <2>1 DEF Source!Reported, SaysWhatChanged
    <3>2. \A o \in report' : /\ replica[o[1]] = base[o[1]] \/ Source!Apart(o[1])
                             /\ o[1] \in off => o[1] \in astray'
      BY <1>2, <2>2, <3>1
    <3>3. SaysWhatChanged(report', base, base', off)
      BY <1>2, <2>1
    <3> QED
      BY <1>2, <3>2, <3>3, TellsNewsOf DEF AstrayAre
  <2> QED
    BY <2>4, <2>5, <2>6
<1> QED
  BY <1>1, <1>2

LEMMA RejectedIsSilent ==
    ASSUME SourceInv, Source!Rejects, cur' \in State, raced' \subseteq Keys, PollInv'
    PROVE  SourceInv' /\ Source!TellsNews
BY DEF SourceInv, SourceTypes, BlobsAreThere, AstrayAre, Source!ReportsAddUp, Source!Apart,
       Source!Rejects, Source!TellsNews, Source!still, Source!kept

LEMMA SilentKeeps ==
    ASSUME SourceInv, UNCHANGED <<kind, Source!kept, edge, turn>>, PollInv',
           world' \in State, cur' \in State, raced' \subseteq Keys,
           kind \in {"command", "api"} => \A k \in Keys : world'[k] # 0
    PROVE  SourceInv' /\ Source!TellsNews
BY DEF SourceInv, SourceTypes, BlobsAreThere, AstrayAre, Source!ReportsAddUp, Source!Apart,
       Source!TellsNews, Source!kept

LEMMA BlankIsState == Source!Blank \in State
BY SourceAssumption DEF Source!Blank, State

\* Between polls there is no poll to know anything of.
LEMMA IdleKnowsNothing ==
    ASSUME pc' = "idle", raced' = {}, cur' = Source!Blank
    PROVE  PollInv'
BY DEF PollInv, Source!BetweenReads, Source!Blank

\* The observes of the other sources are one step.
LEMMA OnlyFilesPoll ==
    ASSUME SourceInv, kind # "file"
    PROVE  pc = "idle" /\ cur = Source!Blank /\ raced = {}
BY DEF SourceInv, PollInv

(* The steps of a poll of files that end nothing.                          *)
LEMMA PollGoesOn ==
    ASSUME SourceInv,
           \/ Source!Glob \/ Source!Compare
           \/ \E k \in Keys : Source!HashFile(k) \/ Source!TellPresent(k) \/ Source!TellAbsent(k)
    PROVE  SourceInv' /\ Source!TellsNews
<1> USE DEF SourceInv, SourceTypes, Source!still
<1>1. /\ UNCHANGED <<kind, world, base, Source!kept, edge, turn, raced>>
      /\ kind = "file" /\ kind' = "file"
  BY DEF Source!Glob, Source!Compare, Source!HashFile, Source!TellPresent, Source!TellAbsent, PollInv,
         Source!kept
<1>2. CASE Source!Glob
  <2>1. pc' = "hash" /\ cur' = Source!Blank /\ report' = {} /\ raced = {}
    BY <1>2 DEF Source!Glob, PollInv
  <2>2. PollInv'
    BY <1>1, <2>1 DEF PollInv, Source!BetweenReads, Source!Blank
  <2> QED
    BY <1>1, <2>1, <2>2, BlankIsState, SilentKeeps DEF BlobsAreThere
<1>3. ASSUME NEW k \in Keys, Source!HashFile(k) PROVE SourceInv' /\ Source!TellsNews
  <2>1. /\ pc = "hash" /\ pc' = "hash" /\ cur' = [cur EXCEPT ![k] = world[k]] /\ world[k] # 0
        /\ report' = report
    BY <1>3 DEF Source!HashFile
  <2>2. cur' \in State /\ \A l \in Keys : cur'[l] = IF l = k THEN world[k] ELSE cur[l]
    BY <2>1 DEF State
  <2>3. PollInv'
    BY <1>1, <2>1, <2>2 DEF PollInv, Source!BetweenReads
  <2> QED
    BY <1>1, <2>2, <2>3, SilentKeeps DEF BlobsAreThere
<1>4. CASE Source!Compare
  <2>1. /\ pc = "hash" /\ pc' = "compare" /\ cur' = cur /\ report' = {}
        /\ todo' = IF base = Source!NoBase THEN {} ELSE {k \in Keys : cur[k] # base[k]}
    BY <1>4 DEF Source!Compare, PollInv
  <2>2. PollInv'
    BY <1>1, <2>1 DEF PollInv, Source!BetweenReads, SaysWhatChanged, Source!Reported
  <2> QED
    BY <1>1, <2>1, <2>2, SilentKeeps DEF BlobsAreThere
<1>5. ASSUME NEW k \in Keys, Source!TellPresent(k) \/ Source!TellAbsent(k)
      PROVE  SourceInv' /\ Source!TellsNews
  <2>1. /\ pc = "compare" /\ pc' = "compare" /\ cur' = cur /\ k \in todo /\ todo' = todo \ {k}
    BY <1>5 DEF Source!TellPresent, Source!TellAbsent
  <2>2. base # Source!NoBase /\ base[k] # cur[k] /\ base \in State
    BY <2>1 DEF PollInv
  <2>3. PICK o : /\ report' = report \cup {o} /\ o[1] = k /\ o[3] \in Versions
                 /\ o[3] = cur[k] \/ (k \in raced /\ o[3] # 0 /\ cur[k] # 0)
                 /\ o[2] \in {"created", "renamed"} => base[k] = 0
                 /\ o[2] = "modified" => base[k] # 0 /\ cur[k] # 0
                 /\ o[2] \notin {"created", "renamed", "modified"} => base[k] # 0 /\ cur[k] = 0
    <3>1. CASE Source!TellPresent(k)
      <4> DEFINE o == <<k, IF base[k] = 0 THEN "created" ELSE "modified", world[k]>>
      <4>1. report' = report \cup {o} /\ cur[k] # 0 /\ world[k] # 0
        BY <3>1 DEF Source!TellPresent
      <4>2. Source!BetweenReads(k)
        BY <2>1, <4>1 DEF Source!BetweenReads
      <4>3. world[k] = cur[k] \/ k \in raced
        BY <4>2 DEF PollInv
      <4>4. /\ o[1] = k /\ o[3] = world[k] /\ world[k] \in Versions
            /\ o[2] = IF base[k] = 0 THEN "created" ELSE "modified"
        BY DEF State
      <4> HIDE DEF o
      <4> QED
        BY <4>1, <4>3, <4>4
    <3>2. CASE Source!TellAbsent(k)
      <4> DEFINE o == <<k, IF world[k] = 0 THEN "deleted" ELSE "descoped", 0>>
      <4>1. report' = report \cup {o} /\ cur[k] = 0
        BY <2>1, <3>2 DEF Source!TellAbsent
      <4>2. o[1] = k /\ o[3] = 0 /\ o[2] \in {"deleted", "descoped"}
        OBVIOUS
      <4> HIDE DEF o
      <4> QED
        BY <2>2, <4>1, <4>2, SourceAssumption
    <3> QED
      BY <1>5, <3>1, <3>2
  <2>4. SaysWhatChanged(report', base, cur, raced)
    <3>1. SaysWhatChanged(report, base, cur, raced)
      BY <2>1, <2>2 DEF PollInv
    <3> QED
      BY <2>2, <2>3, <3>1 DEF SaysWhatChanged
  <2>5. \A l : l \in Source!Reported(report') <=> l \in Source!Reported(report) \/ l = k
    BY <2>3 DEF Source!Reported
  <2>6. \A l \in Keys : base[l] # cur[l] <=> l \in todo' \/ l \in Source!Reported(report')
    BY <2>1, <2>2, <2>5 DEF PollInv
  <2>7. \A l \in Keys : Source!BetweenReads(l)' => Source!BetweenReads(l)
    BY <2>1 DEF Source!BetweenReads
  <2>8. PollInv'
    BY <1>1, <2>1, <2>2, <2>4, <2>6, <2>7 DEF PollInv
  <2> QED
    BY <1>1, <2>1, <2>8, SilentKeeps DEF BlobsAreThere
<1> QED
  BY <1>2, <1>3, <1>4, <1>5

LEMMA FileStep == SourceInv /\ Source!FileEnds => SourceInv' /\ Source!TellsNews
<1> SUFFICES ASSUME SourceInv, Source!FileEnds PROVE SourceInv' /\ Source!TellsNews
  OBVIOUS
<1> USE DEF SourceInv, SourceTypes
<1>1. /\ pc = "compare" /\ todo = {} /\ pc' = "idle" /\ cur' = Source!Blank /\ raced' = {}
      /\ Source!Ends(report, cur) /\ edge' = "none" /\ heard' = heard
      /\ kind' = kind /\ world' = world /\ health' = health
      /\ astray' = (astray \ Source!Reported(report)) \cup (raced \cap Source!Reported(report))
  BY DEF Source!FileEnds, Source!Tells, Source!NextFingerprints, Source!still
<1>2. kind = "file" /\ PollInv' /\ cur' \in State /\ raced' \subseteq Keys
  BY <1>1, BlankIsState, IdleKnowsNothing DEF PollInv
<1>3. base = Source!NoBase => astray' = {}
  <2>1. base = Source!NoBase => report = {} /\ astray = {}
    BY <1>1 DEF PollInv, AstrayAre
  <2> QED
    BY <1>1, <2>1 DEF Source!Reported
<1>4. base # Source!NoBase =>
               /\ SaysWhatChanged(report, base, cur, raced)
               /\ \A k \in Source!Reported(report) : Followed(k) /\ (k \in raced => k \in astray')
               /\ \A k \in Keys \ Source!Reported(report) :
                      /\ Followed(k) => base[k] = cur[k] \/ (k \in astray' /\ kind = "incoming")
                      /\ k \in astray => k \in astray'
  BY <1>1, <1>2 DEF PollInv, Followed
<1>5. heard' = health' /\ heard = health
  BY <1>1 DEF Source!ReportsAddUp
<1>6. /\ health' \in {"ok", "failing"} /\ world' \in State /\ kind \notin {"command", "api"}
      /\ kind \in {"file", "incoming"} /\ astray' \subseteq Keys /\ cur \in State
  BY <1>1, <1>2
<1> QED
  BY <1>1, <1>2, <1>3, <1>4, <1>5, <1>6, ObserveTold

\* An observe of another source leaves no poll behind it.
LEMMA NoPoll ==
    ASSUME SourceInv, kind # "file", UNCHANGED Source!poll
    PROVE  PollInv' /\ cur' = cur /\ raced' \subseteq Keys
<1>1. pc = "idle" /\ cur = Source!Blank /\ raced = {}
  BY OnlyFilesPoll
<1>2. pc' = "idle" /\ cur' = Source!Blank /\ raced' = {}
  BY <1>1 DEF Source!poll
<1> QED
  BY <1>1, <1>2, IdleKnowsNothing

LEMMA BlobStep ==
    ASSUME SourceInv, Source!CommandSucceeds \/ Source!ApiAnswers
    PROVE  SourceInv' /\ Source!TellsNews
<1> DEFINE obs == IF base # Source!NoBase /\ Source!Changed(base, world)
                  THEN {<<Compared, "modified", world[Compared]>>} ELSE {}
<1> USE DEF SourceInv, SourceTypes
<1>1. /\ kind \in {"command", "api"} /\ Source!Ends(obs, world)
      /\ UNCHANGED <<kind, world, astray, Source!poll>>
      /\ \E e \in {"none", "recovered"} :
            Source!Tells(e) /\ (e = "recovered" => health = "failing" /\ health' = "ok")
                            /\ (e = "none" => health' = health)
  BY DEF Source!CommandSucceeds, Source!ApiAnswers, Source!still
<1>2. astray = {} /\ heard = health
  BY <1>1 DEF AstrayAre, Source!ReportsAddUp
<1>3. /\ edge' \in {"none", "failing", "recovered"} /\ heard' = health' /\ health' \in {"ok", "failing"}
      /\ edge' # "none" => heard # Source!Health[edge']
  BY <1>1, <1>2 DEF Source!Tells, Source!Health
<1>4. base # Source!NoBase =>
               /\ SaysWhatChanged(obs, base, world, {})
               /\ \A k \in Source!Reported(obs) : Followed(k) /\ (k \in {} => k \in astray')
               /\ \A k \in Keys \ Source!Reported(obs) :
                      /\ Followed(k) => base[k] = world[k] \/ (k \in astray' /\ kind = "incoming")
                      /\ k \in astray => k \in astray'
  <2> SUFFICES ASSUME base # Source!NoBase
               PROVE  /\ SaysWhatChanged(obs, base, world, {})
                      /\ \A k \in Source!Reported(obs) : Followed(k)
                      /\ \A k \in Keys \ Source!Reported(obs) : Followed(k) => base[k] = world[k]
    BY <1>2
  <2>1. base[Compared] # 0 /\ world[Compared] # 0 /\ Compared \in Keys
    BY <1>1, SourceAssumption DEF BlobsAreThere
  <2>2. CASE base[Compared] # world[Compared]
    <3> DEFINE o == <<Compared, "modified", world[Compared]>>
    <3>1. obs = {o} /\ o[1] = Compared /\ o[2] = "modified" /\ o[3] = world[Compared]
      BY <2>2 DEF Source!Changed
    <3> HIDE DEF o, obs
    <3>2. Source!Reported(obs) = {Compared}
      BY <3>1 DEF Source!Reported
    <3>3. SaysWhatChanged(obs, base, world, {})
      <4>1. world[Compared] \in Versions
        BY <2>1 DEF State
      <4> QED
        BY <2>1, <2>2, <3>1, <4>1 DEF SaysWhatChanged
    <3> QED
      BY <1>1, <3>2, <3>3 DEF Followed
  <2>3. CASE base[Compared] = world[Compared]
    <3>1. obs = {}
      BY <2>3 DEF Source!Changed
    <3> QED
      BY <1>1, <2>3, <3>1 DEF SaysWhatChanged, Followed, Source!Reported
  <2> QED
    BY <2>2, <2>3
<1>5. \A k \in Keys : world[k] # 0
  BY <1>1 DEF BlobsAreThere
<1>6. PollInv' /\ raced' \subseteq Keys /\ cur' = cur /\ kind # "incoming"
  BY <1>1, NoPoll
<1>7. kind' = kind /\ world' = world /\ astray' = {} /\ astray' \subseteq Keys
  BY <1>1, <1>2
<1> HIDE DEF obs
<1> QED
  BY <1>1, <1>3, <1>4, <1>5, <1>6, <1>7, ObserveTold

LEMMA KeyedStep ==
    ASSUME SourceInv, Source!KeyedSucceeds
    PROVE  SourceInv' /\ Source!TellsNews
<1> DEFINE gone == [k \in Keys |-> "descoped"]
           obs == IF base = Source!NoBase THEN {} ELSE Source!Differences(base, world, gone)
<1> USE DEF SourceInv, SourceTypes
<1>1. /\ kind = "keyed" /\ Source!Ends(obs, world) /\ health' = "ok"
      /\ UNCHANGED <<kind, world, astray, Source!poll>>
      /\ Source!Tells(IF health = "failing" THEN "recovered" ELSE "none")
  BY DEF Source!KeyedSucceeds, Source!still
<1>2. astray = {} /\ heard = health
  BY <1>1 DEF AstrayAre, Source!ReportsAddUp
<1>3. /\ edge' \in {"none", "failing", "recovered"} /\ heard' = health' /\ health' \in {"ok", "failing"}
      /\ edge' # "none" => heard # Source!Health[edge']
  BY <1>1, <1>2 DEF Source!Tells, Source!Health
<1>4. ASSUME base # Source!NoBase
      PROVE  SaysWhatChanged(obs, base, world, {}) /\ \A k \in Keys : k \in Source!Reported(obs) <=> base[k] # world[k]
  <2>1. gone \in [Keys -> {"deleted", "descoped"}] /\ base \in State /\ world \in State
    BY <1>4
  <2> HIDE DEF gone
  <2> QED
    BY <2>1, <1>4, DifferencesTell
<1> HIDE DEF obs
<1>5. \A k : Followed(k)
  BY <1>1 DEF Followed
<1>6. base # Source!NoBase =>
               /\ SaysWhatChanged(obs, base, world, {})
               /\ \A k \in Source!Reported(obs) : Followed(k) /\ (k \in {} => k \in astray')
               /\ \A k \in Keys \ Source!Reported(obs) :
                      /\ Followed(k) => base[k] = world[k] \/ (k \in astray' /\ kind = "incoming")
                      /\ k \in astray => k \in astray'
  BY <1>2, <1>4, <1>5
<1>7. /\ kind \notin {"command", "api"} /\ PollInv' /\ raced' \subseteq Keys /\ cur' = cur
      /\ kind' = kind /\ world' = world /\ astray' = {} /\ astray' \subseteq Keys
  BY <1>1, <1>2, NoPoll
<1> QED
  BY <1>1, <1>3, <1>6, <1>7, ObserveTold

LEMMA RefStep ==
    ASSUME SourceInv, Source!RefAdvances
    PROVE  SourceInv' /\ Source!TellsNews
<1> DEFINE gone == [k \in Keys |-> "deleted"]
           all == IF base = Source!NoBase THEN {} ELSE Source!Differences(base, world, gone)
<1> USE DEF SourceInv, SourceTypes
<1>1. /\ kind = "incoming" /\ Source!Tells("none")
      /\ UNCHANGED <<kind, world, health, Source!poll>>
  BY DEF Source!RefAdvances, Source!still
<1>2. \/ Source!Ends(all, world) /\ astray' = astray \ Source!Reported(all)
      \/ \E from \in all : /\ from[2] = "deleted"
                           /\ Source!Ends(Source!Paired(all, from[1]), world)
                           /\ astray' = (astray \ Source!Reported(all)) \cup {from[1]}
  BY DEF Source!RefAdvances
<1>3. heard = health /\ heard' = health' /\ edge' = "none" /\ health' \in {"ok", "failing"}
  BY <1>1 DEF Source!Tells, Source!ReportsAddUp
<1>4. ASSUME base # Source!NoBase
      PROVE  SaysWhatChanged(all, base, world, {}) /\ \A k \in Keys : k \in Source!Reported(all) <=> base[k] # world[k]
  <2>1. gone \in [Keys -> {"deleted", "descoped"}] /\ base \in State /\ world \in State
    BY <1>4
  <2> HIDE DEF gone
  <2> QED
    BY <2>1, <1>4, DifferencesTell
<1>5. base = Source!NoBase => all = {} /\ astray = {}
  BY DEF AstrayAre
<1> HIDE DEF all
<1>6. \A k : Followed(k)
  BY <1>1 DEF Followed
<1>7. /\ kind \notin {"command", "api"} /\ kind' = kind /\ world' = world /\ world \in State
      /\ kind \in {"file", "incoming"}
  BY <1>1
<1>8. PollInv' /\ raced' \subseteq Keys /\ cur' = cur
  BY <1>1, NoPoll
<1>9. CASE Source!Ends(all, world) /\ astray' = astray \ Source!Reported(all)
  <2>1. astray' \subseteq Keys /\ (base = Source!NoBase => astray' = {})
    BY <1>5, <1>9
  <2>2. base # Source!NoBase =>
               /\ SaysWhatChanged(all, base, world, {})
               /\ \A k \in Source!Reported(all) : Followed(k) /\ (k \in {} => k \in astray')
               /\ \A k \in Keys \ Source!Reported(all) :
                      /\ Followed(k) => base[k] = world[k] \/ (k \in astray' /\ kind = "incoming")
                      /\ k \in astray => k \in astray'
    BY <1>4, <1>6, <1>9
  <2> QED
    BY <1>1, <1>3, <1>7, <1>8, <1>9, <2>1, <2>2, ObserveTold
<1>10. ASSUME NEW from \in all, from[2] = "deleted", Source!Ends(Source!Paired(all, from[1]), world),
              astray' = (astray \ Source!Reported(all)) \cup {from[1]}
       PROVE  SourceInv' /\ Source!TellsNews
  <2> DEFINE obs == Source!Paired(all, from[1])
  <2>1. base # Source!NoBase
    BY <1>5
  <2>2. from[1] \in Keys /\ SaysWhatChanged(all, base, world, {})
    BY <1>4, <1>10, <2>1 DEF SaysWhatChanged
  <2>3. SaysWhatChanged(obs, base, world, {})
        /\ \A k : k \in Source!Reported(obs) <=> k \in Source!Reported(all) /\ k # from[1]
    BY <2>2, PairedTells
  <2>4. astray' \subseteq Keys
    BY <1>10, <2>2
  <2> HIDE DEF obs
  <2>5. base # Source!NoBase =>
               /\ SaysWhatChanged(obs, base, world, {})
               /\ \A k \in Source!Reported(obs) : Followed(k) /\ (k \in {} => k \in astray')
               /\ \A k \in Keys \ Source!Reported(obs) :
                      /\ Followed(k) => base[k] = world[k] \/ (k \in astray' /\ kind = "incoming")
                      /\ k \in astray => k \in astray'
    <3>1. \A k \in Keys \ Source!Reported(obs) : k \notin Source!Reported(all) \/ k = from[1]
      BY <2>3
    <3>2. \A k \in Keys \ Source!Reported(obs) :
              /\ base[k] = world[k] \/ k \in astray'
              /\ k \in astray => k \in astray'
      BY <1>4, <1>10, <2>1, <3>1
    <3> QED
      BY <1>1, <1>6, <2>3, <3>2
  <2>6. Source!Ends(obs, world)
    BY <1>10 DEF obs
  <2> QED
    BY <1>1, <1>3, <1>7, <1>8, <2>1, <2>4, <2>5, <2>6, ObserveTold
<1> QED
  BY <1>2, <1>9, <1>10

LEMMA SourceStep ==
    SourceInv /\ [Source!Next]_(Source!vars) => SourceInv' /\ [Source!TellsNews]_<<part, shared>>
<1> SUFFICES ASSUME SourceInv, [Source!Next]_(Source!vars)
             PROVE  SourceInv' /\ (turn' = turn \/ Source!TellsNews)
  BY DEF Source!TellsNews
<1> USE DEF SourceInv, SourceTypes, Source!still
<1>1. ASSUME NEW k \in Keys, NEW v \in Versions, Source!WorldChanges(k, v)
      PROVE  SourceInv' /\ Source!TellsNews
  <2>1. /\ UNCHANGED <<kind, Source!kept, pc, todo, cur, report, edge, turn>>
        /\ world' = [world EXCEPT ![k] = v] /\ (kind \in {"command", "api"} => v # 0)
        /\ raced' = IF Source!BetweenReads(k) THEN raced \cup {k} ELSE raced
    BY <1>1 DEF Source!WorldChanges
  <2>2. world' \in State /\ \A l \in Keys : world'[l] = IF l = k THEN v ELSE world[l]
    BY <2>1 DEF State
  <2>3. kind \in {"command", "api"} => \A l \in Keys : world'[l] # 0
    BY <2>1, <2>2 DEF BlobsAreThere
  <2>4. PollInv'
    <3>1. /\ pc = "idle" => raced' = {}
          /\ \A l \in raced' : cur[l] # 0
      BY <2>1 DEF PollInv, Source!BetweenReads, Source!Blank
    <3>2. ASSUME NEW l \in Keys, Source!BetweenReads(l), l \notin raced' PROVE world'[l] = cur[l]
      BY <2>1, <2>2, <3>2 DEF PollInv
    <3>3. \A l : Source!BetweenReads(l)' <=> Source!BetweenReads(l)
      BY <2>1 DEF Source!BetweenReads
    <3>4. SaysWhatChanged(report, base, cur, raced) => SaysWhatChanged(report, base, cur, raced')
      BY <2>1 DEF SaysWhatChanged
    <3> QED
      BY <2>1, <3>1, <3>2, <3>3, <3>4 DEF PollInv, Source!kept
  <2> QED
    BY <2>1, <2>2, <2>3, <2>4, SilentKeeps
<1>2. ASSUME NEW s \in SUBSET Keys, Source!GlobsEdited(s)
      PROVE  SourceInv' /\ Source!TellsNews
  <2>1. UNCHANGED <<kind, world, Source!kept, Source!poll, report, edge, turn>>
    BY <1>2 DEF Source!GlobsEdited
  <2>2. PollInv'
    BY <2>1 DEF PollInv, Source!BetweenReads, Source!kept, Source!poll
  <2> QED
    BY <2>1, <2>2, SilentKeeps DEF BlobsAreThere, Source!poll
<1>3. ASSUME \/ Source!Glob \/ Source!Compare
             \/ \E k \in Keys : Source!HashFile(k) \/ Source!TellPresent(k) \/ Source!TellAbsent(k)
      PROVE  SourceInv' /\ Source!TellsNews
  BY <1>3, PollGoesOn
<1>4. ASSUME Source!ReadFails PROVE SourceInv' /\ Source!TellsNews
  <2>1. Source!Rejects /\ pc' = "idle" /\ cur' = Source!Blank /\ raced' = {}
    BY <1>4 DEF Source!ReadFails
  <2> QED
    BY <2>1, BlankIsState, IdleKnowsNothing, RejectedIsSilent
<1>5. ASSUME Source!FileEnds PROVE SourceInv' /\ Source!TellsNews
  BY <1>5, FileStep
<1>6. ASSUME Source!CommandFails PROVE SourceInv' /\ Source!TellsNews
  <2>1. /\ UNCHANGED <<kind, world, base, replica, astray, Source!poll>> /\ health' = "failing"
        /\ report' = {} /\ Source!Tells(IF health = "failing" THEN "none" ELSE "failing")
        /\ kind # "file"
    BY <1>6 DEF Source!CommandFails, Source!CarriedOver
  <2>2. heard = health
    BY DEF Source!ReportsAddUp
  <2>3. /\ edge' \in {"none", "failing"} /\ heard' = health'
        /\ edge' # "none" => heard # Source!Health[edge']
    BY <2>1, <2>2 DEF Source!Tells, Source!Health
  <2>4. Source!TellsNews
    BY <2>1, <2>3 DEF Source!TellsNews
  <2>5. PollInv' /\ cur' = cur /\ raced' \subseteq Keys
    BY <2>1, NoPoll
  <2> QED
    BY <2>1, <2>3, <2>4, <2>5 DEF BlobsAreThere, AstrayAre, Source!ReportsAddUp, Source!Apart
<1>7. ASSUME Source!CommandSucceeds \/ Source!ApiAnswers PROVE SourceInv' /\ Source!TellsNews
  BY <1>7, BlobStep
<1>8. ASSUME Source!KeyedSucceeds PROVE SourceInv' /\ Source!TellsNews
  BY <1>8, KeyedStep
<1>9. ASSUME Source!ObserveRejects PROVE SourceInv' /\ Source!TellsNews
  <2>1. Source!Rejects /\ kind # "file" /\ UNCHANGED Source!poll
    BY <1>9 DEF Source!ObserveRejects
  <2> QED
    BY <2>1, NoPoll, RejectedIsSilent
<1>10. ASSUME Source!RefAdvances PROVE SourceInv' /\ Source!TellsNews
  BY <1>10, RefStep
<1>11. ASSUME Source!Rebaseline PROVE SourceInv' /\ Source!TellsNews
  <2>1. /\ UNCHANGED <<kind, world, health, replica, Source!poll>> /\ kind = "incoming"
        /\ base \in State /\ base' = world /\ report' = {} /\ edge' = "none" /\ heard' = heard
        /\ astray' = astray \cup {k \in Keys : base[k] # world[k]}
    BY <1>11 DEF Source!Rebaseline, Source!Tells
  <2>2. PollInv' /\ cur' = cur /\ raced' \subseteq Keys
    BY <2>1, NoPoll
  <2>3. ASSUME NEW k \in Keys PROVE replica'[k] = base'[k] \/ Source!Apart(k)'
    <3>1. replica[k] = base[k] \/ k \in astray
      BY <2>1, SourceAssumption DEF Source!ReportsAddUp, Source!Apart, State
    <3> QED
      BY <2>1, <3>1 DEF Source!Apart
  <2>4. Source!ReportsAddUp'
    BY <2>1, <2>3 DEF Source!ReportsAddUp
  <2>5. Source!TellsNews
    BY <2>1 DEF Source!TellsNews
  <2>6. SourceTypes' /\ BlobsAreThere' /\ AstrayAre'
    BY <2>1, <2>2, SourceAssumption DEF BlobsAreThere, AstrayAre, State
  <2> QED
    BY <2>2, <2>4, <2>5, <2>6
<1>12. CASE UNCHANGED Source!vars
  BY <1>12 DEF Source!vars, BlobsAreThere, AstrayAre, PollInv, Source!BetweenReads, Source!ReportsAddUp,
               Source!Apart, Source!still, Source!kept, Source!poll
<1> QED
  BY <1>1, <1>2, <1>3, <1>4, <1>5, <1>6, <1>7, <1>8, <1>9, <1>10, <1>11, <1>12 DEF Source!Next

LEMMA SourceInit == Source!Init => SourceInv
<1> SUFFICES ASSUME Source!Init PROVE SourceInv
  OBVIOUS
<1>1. /\ kind \in Source!Kinds /\ base = Source!NoBase /\ health = "ok" /\ heard = "ok"
      /\ astray = {} /\ raced = {} /\ pc = "idle" /\ replica = Source!Blank /\ cur = Source!Blank
      /\ edge = "none"
      /\ world \in [Keys -> IF kind \in {"command", "api"} THEN Versions \ {0} ELSE Versions]
  BY DEF Source!Init
<1>2. world \in State /\ (kind \in {"command", "api"} => \A k \in Keys : world[k] # 0)
  BY <1>1 DEF State
<1>3. PollInv
  BY <1>1 DEF PollInv, Source!BetweenReads, Source!Blank
<1> QED
  BY <1>1, <1>2, <1>3, BlankIsState
     DEF SourceInv, SourceTypes, BlobsAreThere, AstrayAre, Source!ReportsAddUp

(* The observations of a source add up: whoever applies them to the first  *)
(* baseline is where the stored baseline is, of any source, however the    *)
(* world, the globs and the answers change in the middle of a poll.  Only  *)
(* a quiet rebaseline, a rename and a file that changed between its two    *)
(* reads leave them apart, and the last never as to whether it is there.   *)
THEOREM SourcesAddUp == Source!Spec => []Source!ReportsAddUp
<1>1. SourceInv => Source!ReportsAddUp
  BY DEF SourceInv
<1> QED
  BY <1>1, SourceInit, SourceStep, PTL DEF Source!Spec

(* Every report is news to whoever applied the earlier ones, but for what  *)
(* a quiet rebaseline or a rename kept from them and for the text of a     *)
(* file that changed between the two reads of this poll or an earlier one. *)
THEOREM SourcesTellNews == Source!Spec /\ [](part = "source") => ReportsAreNews
<1>1. [Source!TellsNews]_<<part, shared>> /\ part = "source"
      => [part = "source" => Source!TellsNews]_<<part, shared>>
  OBVIOUS
<1> QED
  BY <1>1, SourceInit, SourceStep, PTL DEF Source!Spec, ReportsAreNews

-----------------------------------------------------------------------------
(***************************************************************************)
(* The composite snapshot.  A worker ends early only when the batch is     *)
(* aborted, so a batch whose workers all ended without an abort has taken  *)
(* every piece; and the budget is compared with a total that never lags    *)
(* behind the pieces accepted so far.                                      *)
(***************************************************************************)
Fetches == {"waiting", "requested", "reading", "body", "done", "failed"}

WholeTypes ==
    /\ nextIndex \in Nat \ {0} /\ fetch \in [Pieces -> Fetches] /\ read \in [Pieces -> Nat]
    /\ aborted \in BOOLEAN /\ workers \in Nat /\ totalBytes \in Nat
    /\ outcome \in {"none", "rejected", "resolved"} /\ started = {}

\* Who fetches what: pieces are taken in order, by a worker each.
PoolInv ==
    /\ \A p \in Pieces : fetch[p] = "waiting" <=> p >= nextIndex
    /\ Cardinality(Whole!InFlight) <= workers
    /\ ~aborted /\ nextIndex \in Pieces => workers > 0

\* A failure is an abort, an abort is an outcome, and a snapshot is whole.
OutcomeInv ==
    /\ \A p \in Pieces : fetch[p] = "failed" => aborted
    /\ aborted => outcome # "none"
    /\ outcome = "resolved" => \A p \in Pieces : fetch[p] = "done"

Lengths == [p \in Pieces |-> Whole!Length(p)]
Accepted == Whole!SumFunctionOnSet(Lengths, Whole!Are("done"))

BudgetInv ==
    /\ Accepted \in Nat /\ Accepted <= totalBytes /\ Accepted <= MaxTotal
    /\ outcome = "resolved" => Accepted + Cardinality(Pieces) - 1 <= MaxTotal

WholeInv == WholeTypes /\ PoolInv /\ OutcomeInv /\ BudgetInv

LEMMA WholeCardinality == \A S : Whole!Cardinality(S) = Cardinality(S)
BY DEF Whole!Cardinality, Cardinality

LEMMA PiecesAreNumbers ==
    /\ Pieces \subseteq Nat /\ IsFiniteSet(Pieces)
    /\ \A p \in Pieces, q \in Nat : q >= 1 /\ q <= p => q \in Pieces
    /\ Pieces # {} => 1 \in Pieces /\ Cardinality(Pieces) >= 1
    /\ \A p \in Pieces : p >= 1
    /\ Cardinality(Pieces) \in Nat
<1>1. PICK n \in Nat : Pieces = 1 .. n
  BY WholeAssumption, FS_CardinalityType
<1>2. IsFiniteSet(1 .. n) /\ Cardinality(1 .. n) = IF 1 > n THEN 0 ELSE n - 1 + 1
  BY FS_Interval
<1> QED
  BY <1>1, <1>2

LEMMA InFlightIs ==
    /\ Whole!InFlight = {p \in Pieces : fetch[p] \in {"requested", "reading", "body"}}
    /\ IsFiniteSet(Whole!InFlight) /\ Cardinality(Whole!InFlight) \in Nat
<1>1. Whole!InFlight = {p \in Pieces : fetch[p] \in {"requested", "reading", "body"}}
  BY DEF Whole!InFlight, Whole!Are
<1>2. IsFiniteSet(Whole!InFlight)
  BY <1>1, PiecesAreNumbers, FS_Subset
<1> QED
  BY <1>1, <1>2, FS_CardinalityType

LEMMA InFlightIsNext ==
    /\ Whole!InFlight' = {p \in Pieces : fetch'[p] \in {"requested", "reading", "body"}}
    /\ IsFiniteSet(Whole!InFlight') /\ Cardinality(Whole!InFlight') \in Nat
<1>1. Whole!InFlight' = {p \in Pieces : fetch'[p] \in {"requested", "reading", "body"}}
  BY DEF Whole!InFlight, Whole!Are
<1>2. IsFiniteSet(Whole!InFlight')
  BY <1>1, PiecesAreNumbers, FS_Subset
<1> QED
  BY <1>1, <1>2, FS_CardinalityType

(* The pieces in flight, when one of them starts, goes on, or ends.        *)
LEMMA OneFetchMoves ==
    ASSUME WholeTypes, NEW p \in Pieces, NEW s \in Fetches, Whole!Set(p, s)
    PROVE  /\ fetch' \in [Pieces -> Fetches] /\ fetch'[p] = s
           /\ \A q \in Pieces \ {p} : fetch'[q] = fetch[q]
           /\ Cardinality(Whole!InFlight') <= Cardinality(Whole!InFlight) + 1
           /\ p \in Whole!InFlight => Cardinality(Whole!InFlight') <= Cardinality(Whole!InFlight)
           /\ p \in Whole!InFlight /\ s \in {"done", "failed"} =>
                  Cardinality(Whole!InFlight') = Cardinality(Whole!InFlight) - 1
<1> DEFINE F == Whole!InFlight
           G == Whole!InFlight'
<1>1. fetch' = [fetch EXCEPT ![p] = s] /\ fetch \in [Pieces -> Fetches]
  BY DEF Whole!Set, WholeTypes
<1>2. /\ F = {q \in Pieces : fetch[q] \in {"requested", "reading", "body"}}
      /\ G = {q \in Pieces : fetch'[q] \in {"requested", "reading", "body"}}
      /\ IsFiniteSet(F) /\ Cardinality(F) \in Nat
  BY InFlightIs, InFlightIsNext
<1> HIDE DEF F, G
<1>3. \/ s \in {"done", "failed"} /\ G = F \ {p}
      \/ s \in {"requested", "reading", "body"} /\ G = F \cup {p}
      \/ s = "waiting" /\ G = F \ {p}
  BY <1>1, <1>2 DEF Fetches
<1>4. /\ Cardinality(F \cup {p}) = IF p \in F THEN Cardinality(F) ELSE Cardinality(F) + 1
      /\ Cardinality(F \ {p}) = IF p \in F THEN Cardinality(F) - 1 ELSE Cardinality(F)
  BY <1>2, FS_AddElement, FS_RemoveElement
<1>5. CASE s \in {"done", "failed"}
  <2>1. G = F \ {p} /\ Cardinality(G) = IF p \in F THEN Cardinality(F) - 1 ELSE Cardinality(F)
    BY <1>3, <1>4, <1>5
  <2> QED
    BY <1>1, <1>2, <2>1 DEF F, G
<1>6. CASE s \in {"requested", "reading", "body"}
  <2>1. G = F \cup {p} /\ Cardinality(G) = IF p \in F THEN Cardinality(F) ELSE Cardinality(F) + 1
    BY <1>3, <1>4, <1>6
  <2> QED
    BY <1>1, <1>2, <1>6, <2>1 DEF F, G
<1>7. CASE s = "waiting"
  <2>1. G = F \ {p} /\ Cardinality(G) = IF p \in F THEN Cardinality(F) - 1 ELSE Cardinality(F)
    BY <1>3, <1>4, <1>7
  <2> QED
    BY <1>1, <1>2, <1>7, <2>1 DEF F, G
<1> QED
  BY <1>5, <1>6, <1>7 DEF Fetches

LEMMA WholeSum == \A f, S : Whole!SumFunctionOnSet(f, S) = SumFunctionOnSet(f, S)
BY DEF Whole!SumFunctionOnSet, Whole!FoldFunctionOnSet, Whole!MapThenFoldSet,
       SumFunctionOnSet, FoldFunctionOnSet, MapThenFoldSet

LEMMA DoneIs ==
    /\ Whole!Are("done") = {p \in Pieces : fetch[p] = "done"} /\ IsFiniteSet(Whole!Are("done"))
    /\ Whole!Are("done")' = {p \in Pieces : fetch'[p] = "done"}
    /\ Accepted = SumFunctionOnSet(Lengths, Whole!Are("done"))
    /\ Accepted' = SumFunctionOnSet(Lengths', Whole!Are("done")')
    /\ Lengths' = [p \in Pieces |-> read'[p] + 1]
    /\ Lengths = [p \in Pieces |-> read[p] + 1]
<1>1. Whole!Are("done") = {p \in Pieces : fetch[p] = "done"}
      /\ Whole!Are("done")' = {p \in Pieces : fetch'[p] = "done"}
  BY DEF Whole!Are
<1>2. IsFiniteSet(Whole!Are("done"))
  BY <1>1, PiecesAreNumbers, FS_Subset
<1> QED
  BY <1>1, <1>2, WholeSum DEF Accepted, Lengths, Whole!Length

LEMMA AcceptedSame ==
    ASSUME \A p \in Pieces : (fetch'[p] = "done" <=> fetch[p] = "done")
                             /\ (fetch[p] = "done" => read'[p] = read[p])
    PROVE  Accepted' = Accepted
<1>1. Whole!Are("done")' = Whole!Are("done")
  BY DoneIs
<1>2. \A p \in Whole!Are("done") : Lengths'[p] = Lengths[p]
  BY DoneIs
<1>3. SumFunctionOnSet(Lengths', Whole!Are("done")) = SumFunctionOnSet(Lengths, Whole!Are("done"))
  <2> DEFINE f == Lengths
             g == Lengths'
             D == Whole!Are("done")
  <2>1. IsFiniteSet(D) /\ \A p \in D : g[p] = f[p]
    BY <1>2, DoneIs
  <2> HIDE DEF f, g, D
  <2>2. SumFunctionOnSet(g, D) = SumFunctionOnSet(f, D)
    BY <2>1, SumOfSame
  <2> QED
    BY <2>2 DEF f, g, D
<1> QED
  BY <1>1, <1>3, DoneIs

LEMMA AcceptedGrows ==
    ASSUME WholeTypes, NEW p \in Pieces, fetch[p] # "done",
           fetch'[p] = "done", \A q \in Pieces \ {p} : fetch'[q] = fetch[q], read' = read
    PROVE  Accepted' = Accepted + Whole!Length(p)
<1> DEFINE f == Lengths
           D == Whole!Are("done")
<1>1. Whole!Are("done")' = D \cup {p} /\ p \notin D /\ IsFiniteSet(D)
  BY DoneIs
<1>2. Lengths' = f /\ f[p] = Whole!Length(p)
  BY DoneIs DEF Whole!Length
<1>3. \A q \in D \cup {p} : f[q] \in Nat
  BY DoneIs DEF WholeTypes
<1>4. Accepted = SumFunctionOnSet(f, D) /\ Accepted' = SumFunctionOnSet(f, D \cup {p})
  BY <1>1, <1>2, DoneIs
<1> HIDE DEF f, D
<1>5. SumFunctionOnSet(f, D \cup {p}) = SumFunctionOnSet(f, D) + f[p]
  BY <1>1, <1>3, SumAdds
<1> QED
  BY <1>2, <1>4, <1>5

(* A fetch that throws takes its worker with it.                           *)
LEMMA FailureKeeps ==
    ASSUME WholeInv, NEW p \in Pieces, p \in Whole!InFlight, Whole!Fails(p),
           UNCHANGED <<nextIndex, started>>, totalBytes' \in Nat, totalBytes' >= totalBytes,
           read' \in [Pieces -> Nat], \A q \in Pieces \ {p} : read'[q] = read[q]
    PROVE  WholeInv'
<1> USE DEF WholeInv
<1>1. /\ Whole!Set(p, "failed") /\ workers' = workers - 1 /\ aborted' = TRUE
      /\ outcome' = IF outcome = "none" THEN "rejected" ELSE outcome
  BY DEF Whole!Fails
<1>2. /\ fetch' \in [Pieces -> Fetches] /\ fetch'[p] = "failed"
      /\ \A q \in Pieces \ {p} : fetch'[q] = fetch[q]
      /\ Cardinality(Whole!InFlight') = Cardinality(Whole!InFlight) - 1
  BY <1>1, OneFetchMoves DEF Fetches
<1>3. fetch[p] \in {"requested", "reading", "body"} /\ Cardinality(Whole!InFlight) \in Nat
      /\ Cardinality(Whole!InFlight) >= 1 /\ Cardinality(Whole!InFlight') \in Nat
  <2>1. Cardinality(Whole!InFlight') \in Nat /\ Cardinality(Whole!InFlight) \in Nat
    BY InFlightIs, InFlightIsNext
  <2> QED
    BY <1>2, <2>1, InFlightIs
<1>4. WholeTypes'
  <2>1. workers' \in Nat
    BY <1>1, <1>3 DEF PoolInv, WholeTypes
  <2> QED
    BY <1>1, <1>2, <2>1 DEF WholeTypes
<1>5. PoolInv'
  <2>1. Cardinality(Whole!InFlight') <= workers'
    BY <1>1, <1>2, <1>3 DEF PoolInv, WholeTypes
  <2> QED
    BY <1>1, <1>2, <1>3, <2>1 DEF PoolInv
<1>6. OutcomeInv'
  BY <1>1, <1>2, <1>3 DEF OutcomeInv
<1>7. BudgetInv'
  <2>1. Accepted' = Accepted
    BY <1>2, <1>3, AcceptedSame
  <2>2. outcome' = "resolved" => outcome = "resolved"
    BY <1>1 DEF WholeTypes
  <2> QED
    BY <2>1, <2>2 DEF BudgetInv, WholeTypes
<1> QED
  BY <1>4, <1>5, <1>6, <1>7

(* A fetch goes on.                                                        *)
LEMMA ProgressKeeps ==
    ASSUME WholeInv, NEW p \in Pieces, p \in Whole!InFlight, NEW s \in {"reading", "body"},
           Whole!Set(p, s), UNCHANGED <<nextIndex, read, aborted, workers, totalBytes, outcome, started>>
    PROVE  WholeInv'
<1> USE DEF WholeInv
<1>1. /\ fetch' \in [Pieces -> Fetches] /\ fetch'[p] = s
      /\ \A q \in Pieces \ {p} : fetch'[q] = fetch[q]
      /\ Cardinality(Whole!InFlight') <= Cardinality(Whole!InFlight)
  BY OneFetchMoves DEF Fetches
<1>2. fetch[p] \in {"requested", "reading", "body"} /\ Cardinality(Whole!InFlight) \in Nat
      /\ Cardinality(Whole!InFlight') \in Nat
  BY InFlightIs, InFlightIsNext
<1>3. WholeTypes'
  BY <1>1 DEF WholeTypes
<1>4. PoolInv'
  <2>1. Cardinality(Whole!InFlight') <= workers'
    BY <1>1, <1>2 DEF PoolInv, WholeTypes
  <2> QED
    BY <1>1, <1>2, <2>1 DEF PoolInv
<1>5. OutcomeInv'
  BY <1>1, <1>2 DEF OutcomeInv
<1>6. BudgetInv'
  <2>1. Accepted' = Accepted
    BY <1>1, <1>2, AcceptedSame
  <2> QED
    BY <2>1 DEF BudgetInv
<1> QED
  BY <1>3, <1>4, <1>5, <1>6

LEMMA WholeStep == WholeInv /\ [Whole!Next]_(Whole!vars) => WholeInv'
<1> SUFFICES ASSUME WholeInv, [Whole!Next]_(Whole!vars) PROVE WholeInv'
  OBVIOUS
<1> USE DEF WholeInv
<1>1. ASSUME Whole!WorkerTakes PROVE WholeInv'
  <2>0. /\ Cardinality(Whole!InFlight) < workers /\ UNCHANGED <<read, aborted, totalBytes, outcome>>
        /\ Cardinality(Whole!InFlight) \in Nat /\ Cardinality(Whole!InFlight') \in Nat
    BY <1>1, WholeCardinality, InFlightIs, InFlightIsNext DEF Whole!WorkerTakes
  <2>1. CASE Whole!TakesAnother
    <3>1. /\ ~aborted /\ nextIndex \in Pieces /\ Whole!Set(nextIndex, "requested")
          /\ nextIndex' = nextIndex + 1 /\ started' = started /\ workers' = workers
      BY <1>1, <2>1 DEF Whole!WorkerTakes, Whole!TakesAnother
    <3>2. /\ fetch' \in [Pieces -> Fetches] /\ fetch'[nextIndex] = "requested"
          /\ \A q \in Pieces \ {nextIndex} : fetch'[q] = fetch[q]
          /\ Cardinality(Whole!InFlight') <= Cardinality(Whole!InFlight) + 1
      BY <3>1, OneFetchMoves DEF Fetches
    <3>3. fetch[nextIndex] = "waiting"
      BY <3>1 DEF PoolInv, WholeTypes
    <3>4. WholeTypes'
      BY <2>0, <3>1, <3>2 DEF WholeTypes
    <3>5. PoolInv'
      <4>1. Cardinality(Whole!InFlight') <= workers' /\ workers' > 0
        BY <2>0, <3>1, <3>2 DEF WholeTypes
      <4>2. ASSUME NEW q \in Pieces PROVE fetch'[q] = "waiting" <=> q >= nextIndex'
        BY <3>1, <3>2, PiecesAreNumbers DEF PoolInv, WholeTypes
      <4> QED
        BY <4>1, <4>2 DEF PoolInv
    <3>6. OutcomeInv'
      BY <2>0, <3>1, <3>2, <3>3 DEF OutcomeInv
    <3>7. BudgetInv'
      <4>1. Accepted' = Accepted
        BY <2>0, <3>2, <3>3, AcceptedSame
      <4> QED
        BY <4>1, <2>0 DEF BudgetInv
    <3> QED
      BY <3>4, <3>5, <3>6, <3>7
  <2>2. CASE ~Whole!TakesAnother
    <3>1. workers' = workers - 1 /\ UNCHANGED <<fetch, nextIndex, started>>
          /\ (aborted \/ nextIndex \notin Pieces)
      BY <1>1, <2>2 DEF Whole!WorkerTakes, Whole!TakesAnother
    <3>2. Whole!InFlight' = Whole!InFlight /\ Accepted' = Accepted
      BY <2>0, <3>1, AcceptedSame DEF Whole!InFlight, Whole!Are
    <3>3. workers' \in Nat /\ Cardinality(Whole!InFlight') <= workers'
      BY <2>0, <3>1, <3>2 DEF WholeTypes
    <3> QED
      BY <2>0, <3>1, <3>2, <3>3 DEF WholeTypes, PoolInv, OutcomeInv, BudgetInv
  <2> QED
    BY <2>1, <2>2
<1>2. ASSUME NEW p \in Pieces, Whole!FetchThrows(p) PROVE WholeInv'
  BY <1>2, FailureKeeps, InFlightIs DEF Whole!FetchThrows, WholeTypes
<1>3. ASSUME NEW p \in Pieces, NEW d, Whole!Headers(p, d) PROVE WholeInv'
  <2>1. p \in Whole!InFlight
    BY <1>3, InFlightIs DEF Whole!Headers
  <2>2. CASE d > MaxBody
    BY <1>3, <2>1, <2>2, FailureKeeps DEF Whole!Headers, WholeTypes
  <2>3. CASE ~(d > MaxBody)
    BY <1>3, <2>1, <2>3, ProgressKeeps DEF Whole!Headers
  <2> QED
    BY <2>2, <2>3
<1>4. ASSUME NEW p \in Pieces, Whole!ReadChunk(p) PROVE WholeInv'
  <2>1. fetch[p] = "reading" /\ p \in Whole!InFlight
    BY <1>4, InFlightIs DEF Whole!ReadChunk
  <2>2. /\ read' \in [Pieces -> Nat] /\ \A q \in Pieces \ {p} : read'[q] = read[q]
        /\ UNCHANGED <<nextIndex, totalBytes, started>>
    BY <1>4 DEF Whole!ReadChunk, WholeTypes
  <2>3. CASE Whole!Fails(p)
    BY <2>1, <2>2, <2>3, FailureKeeps DEF WholeTypes
  <2>4. CASE UNCHANGED <<fetch, workers, aborted, outcome>>
    <3>1. Accepted' = Accepted /\ Whole!InFlight' = Whole!InFlight
      BY <2>1, <2>2, <2>4, AcceptedSame DEF Whole!InFlight, Whole!Are
    <3> QED
      BY <2>2, <2>4, <3>1 DEF WholeTypes, PoolInv, OutcomeInv, BudgetInv
  <2> QED
    BY <1>4, <2>3, <2>4 DEF Whole!ReadChunk
<1>5. ASSUME NEW p \in Pieces, Whole!EndOfBody(p) PROVE WholeInv'
  BY <1>5, ProgressKeeps, InFlightIs DEF Whole!EndOfBody
<1>6. ASSUME NEW p \in Pieces, NEW status, Whole!PartArrives(p, status) PROVE WholeInv'
  <2>1. /\ fetch[p] = "body" /\ p \in Whole!InFlight /\ UNCHANGED <<nextIndex, read, started>>
        /\ Whole!Length(p) \in Nat
    BY <1>6, InFlightIs DEF Whole!PartArrives, Whole!Length, WholeTypes
  <2>2. CASE Whole!Fails(p) /\ totalBytes' = totalBytes
    BY <2>1, <2>2, FailureKeeps DEF WholeTypes
  <2>3. CASE Whole!Fails(p) /\ totalBytes' = Whole!Counted(p)
    <3>1. totalBytes' \in Nat /\ totalBytes' >= totalBytes
      BY <2>1, <2>3 DEF Whole!Counted, WholeTypes
    <3> QED
      BY <2>1, <2>3, <3>1, FailureKeeps DEF WholeTypes
  <2>4. CASE /\ totalBytes' = Whole!Counted(p) /\ ~(totalBytes' > MaxTotal)
             /\ Whole!Set(p, "done") /\ UNCHANGED <<workers, aborted, outcome>>
    <3>1. /\ fetch' \in [Pieces -> Fetches] /\ fetch'[p] = "done"
          /\ \A q \in Pieces \ {p} : fetch'[q] = fetch[q]
          /\ Cardinality(Whole!InFlight') <= Cardinality(Whole!InFlight)
      BY <2>1, <2>4, OneFetchMoves DEF Fetches
    <3>2. Cardinality(Whole!InFlight) \in Nat /\ Cardinality(Whole!InFlight') \in Nat
      BY InFlightIs, InFlightIsNext
    <3>3. Accepted' = Accepted + Whole!Length(p)
      BY <2>1, <3>1, AcceptedGrows
    <3>4. WholeTypes'
      BY <2>1, <2>4, <3>1 DEF WholeTypes, Whole!Counted
    <3>5. PoolInv'
      <4>1. Cardinality(Whole!InFlight') <= workers'
        BY <2>4, <3>1, <3>2 DEF PoolInv, WholeTypes
      <4> QED
        BY <2>1, <2>4, <3>1, <4>1 DEF PoolInv
    <3>6. OutcomeInv'
      BY <2>1, <2>4, <3>1 DEF OutcomeInv
    <3>7. BudgetInv'
      <4>1. totalBytes' = totalBytes + Whole!Length(p) /\ totalBytes' <= MaxTotal
        BY <2>1, <2>4, WholeAssumption DEF Whole!Counted, WholeTypes
      <4>2. outcome' # "resolved"
        BY <2>1, <2>4 DEF OutcomeInv
      <4> QED
        BY <2>1, <3>3, <4>1, <4>2, WholeAssumption DEF BudgetInv, WholeTypes
    <3> QED
      BY <3>4, <3>5, <3>6, <3>7
  <2> QED
    BY <1>6, <2>2, <2>3, <2>4 DEF Whole!PartArrives
<1>7. ASSUME Whole!AllSettled PROVE WholeInv'
  <2>1. /\ workers = 0 /\ outcome = "none" /\ outcome' \in {"rejected", "resolved"}
        /\ UNCHANGED <<nextIndex, fetch, read, aborted, workers, totalBytes, started>>
        /\ outcome' = "resolved" => ~(totalBytes + Cardinality(Pieces) - 1 > MaxTotal)
    BY <1>7, WholeCardinality DEF Whole!AllSettled, Whole!RenderedBytes
  <2>2. Whole!InFlight = {}
    <3>1. Cardinality(Whole!InFlight) = 0
      BY <2>1, InFlightIs DEF PoolInv
    <3> QED
      BY <3>1, InFlightIs, FS_EmptySet
  <2>3. ~aborted /\ nextIndex \notin Pieces
    BY <2>1 DEF OutcomeInv, PoolInv, WholeTypes
  <2>4. ASSUME NEW p \in Pieces PROVE fetch[p] = "done"
    <3>1. fetch[p] \notin {"requested", "reading", "body", "failed"}
      BY <2>2, <2>3, InFlightIs DEF OutcomeInv
    <3>2. fetch[p] # "waiting"
      <4>1. nextIndex \in Nat /\ nextIndex >= 1 /\ p \in Nat
        BY PiecesAreNumbers DEF WholeTypes
      <4> QED
        BY <2>3, <4>1, PiecesAreNumbers DEF PoolInv
    <3> QED
      BY <3>1, <3>2 DEF WholeTypes, Fetches
  <2>5. Accepted' = Accepted /\ Whole!InFlight' = Whole!InFlight
    BY <2>1, AcceptedSame DEF Whole!InFlight, Whole!Are
  <2>6. BudgetInv'
    BY <2>1, <2>5, PiecesAreNumbers, WholeAssumption DEF WholeTypes, BudgetInv
  <2> QED
    BY <2>1, <2>4, <2>5, <2>6 DEF WholeTypes, PoolInv, OutcomeInv
<1>8. CASE UNCHANGED Whole!vars
  <2>1. Accepted' = Accepted /\ Whole!InFlight' = Whole!InFlight
    BY <1>8, AcceptedSame DEF Whole!vars, Whole!InFlight, Whole!Are
  <2> QED
    BY <1>8, <2>1 DEF Whole!vars, WholeTypes, PoolInv, OutcomeInv, BudgetInv
<1> QED
  BY <1>1, <1>2, <1>3, <1>4, <1>5, <1>6, <1>7, <1>8 DEF Whole!Next

LEMMA WholeInit == Whole!Init => WholeInv
<1> SUFFICES ASSUME Whole!Init PROVE WholeInv
  OBVIOUS
<1>1. /\ nextIndex = 1 /\ fetch = [p \in Pieces |-> "waiting"] /\ read = [p \in Pieces |-> 0]
      /\ aborted = FALSE /\ totalBytes = 0 /\ outcome = "none" /\ started = {}
      /\ workers = Whole!Min({MaxConcurrency, Cardinality(Pieces)})
  BY WholeCardinality DEF Whole!Init
<1>2. workers \in Nat /\ (Pieces # {} => workers > 0)
  <2> DEFINE S == {MaxConcurrency, Cardinality(Pieces)}
  <2>1. Whole!Min(S) \in S
    <3>1. \E m \in S : \A k \in S : m <= k
      BY WholeAssumption, PiecesAreNumbers
    <3> HIDE DEF S
    <3> QED
      BY <3>1 DEF Whole!Min
  <2> QED
    BY <1>1, <2>1, WholeAssumption, PiecesAreNumbers
<1>3. Whole!InFlight = {} /\ Accepted = 0
  <2>1. Whole!InFlight = {} /\ Whole!Are("done") = {}
    BY <1>1 DEF Whole!InFlight, Whole!Are
  <2> QED
    BY <2>1, DoneIs, SumOfNothing
<1>4. IsFiniteSet({}) /\ Cardinality({}) = 0
  BY FS_EmptySet
<1>5. WholeTypes /\ OutcomeInv
  <2>1. nextIndex \in Nat \ {0}
    BY <1>1
  <2> QED
    BY <1>1, <1>2, <2>1 DEF WholeTypes, OutcomeInv, Fetches
<1>6. PoolInv
  BY <1>1, <1>2, <1>3, <1>4, PiecesAreNumbers DEF PoolInv
<1>7. BudgetInv
  BY <1>1, <1>3, <1>4, WholeAssumption DEF BudgetInv
<1> QED
  BY <1>5, <1>6, <1>7 DEF WholeInv

(* A composite snapshot has every piece or is none, stays in its budget,   *)
(* and sends no request once a piece has failed, for any number of pieces, *)
(* workers and bytes.                                                      *)
THEOREM SnapshotsAreWhole ==
    Whole!Spec => [](Whole!CompleteOrNothing /\ Whole!NothingStartsAfterFailure)
<1>1. WholeInv => Whole!CompleteOrNothing /\ Whole!NothingStartsAfterFailure
  BY WholeCardinality DEF WholeInv, WholeTypes, OutcomeInv, BudgetInv, Whole!CompleteOrNothing,
                          Whole!NothingStartsAfterFailure, Whole!Are,
                          Accepted, Lengths
<1> QED
  BY <1>1, WholeInit, WholeStep, PTL DEF Whole!Spec

(* The observations of a source add up to its baseline, and a composite    *)
(* snapshot has every piece or is none.                                    *)
THEOREM ObservationsAreComplete ==
    \/ Source!Spec /\ [](part = "source")
    \/ Whole!Spec /\ [](part = "composite")
    => []ObservationsAddUp
<1>1. part = "source" /\ Source!ReportsAddUp => ObservationsAddUp
  BY DEF ObservationsAddUp
<1>2. part = "composite" /\ Whole!CompleteOrNothing /\ Whole!NothingStartsAfterFailure
      => ObservationsAddUp
  BY DEF ObservationsAddUp
<1> QED
  BY <1>1, <1>2, SourcesAddUp, SnapshotsAreWhole, PTL
-----------------------------------------------------------------------------
(***************************************************************************)
(* The retry outbox.  What Admit has found to fit stays so until Commit,   *)
(* since the write lock keeps every other process from the rows; and the   *)
(* records of a call are of no earlier call, since each call that is under *)
(* way has a number of its own and has stored nothing.                     *)
(***************************************************************************)
Steps == {"idle", "waiting", "admitting", "inserting"}
Outcomes == {"unmade", "open", "stored", "invalid", "full", "busy", "lost"}
CallRecord == [step : Steps, id : Nat, items : Seq(Outbox!Item)]

OutboxTypes ==
    /\ IsFiniteSet(rows) /\ \A r \in rows : r.bytes \in Nat /\ r.id \in 1 .. Batches
    /\ call \in [Procs -> CallRecord] /\ made \in [1 .. Batches -> Outcomes]
    /\ writer \in Procs \cup {"none"}

\* A call under way has a number of its own.
CallsApart ==
    /\ \A p \in Procs : call[p].step # "idle" => call[p].id \in 1 .. Batches /\ made[call[p].id] = "open"
    /\ \A p, q \in Procs : p # q /\ call[p].step # "idle" /\ call[q].step # "idle" => call[p].id # call[q].id

\* The write lock, and what its holder has inserted.
OneWriter ==
    /\ \A p \in Procs : call[p].step \in {"admitting", "inserting"} <=> writer = p
    /\ IsFiniteSet(staged)
    /\ writer = "none" => staged = {}
    /\ \A p \in Procs : call[p].step = "admitting" => staged = {}
    /\ \A p \in Procs : call[p].step = "inserting" =>
          /\ Outbox!Fits(p) /\ Cardinality(staged) <= Len(call[p].items)
          /\ staged = {Outbox!Row(p, i) : i \in 1 .. Cardinality(staged)}

OutboxInv == OutboxTypes /\ CallsApart /\ OneWriter /\ Outbox!AllOrNothing /\ Outbox!Bounded

LEMMA OutboxCardinality == \A S : Outbox!Cardinality(S) = Cardinality(S)
BY DEF Outbox!Cardinality, Cardinality

LEMMA BytesSum == \A S : Outbox!Bytes(S) = SumFunctionOnSet([r \in S |-> r.bytes], S)
BY DEF Outbox!Bytes, Outbox!SumFunctionOnSet, Outbox!FoldFunctionOnSet, Outbox!MapThenFoldSet,
       SumFunctionOnSet, FoldFunctionOnSet, MapThenFoldSet

LEMMA BytesAdd ==
    ASSUME NEW S, IsFiniteSet(S), NEW T, IsFiniteSet(T), S \cap T = {},
           \A r \in S \cup T : r.bytes \in Nat
    PROVE  Outbox!Bytes(S \cup T) = Outbox!Bytes(S) + Outbox!Bytes(T)
<1> DEFINE f == [r \in S \cup T |-> r.bytes]
           g == [r \in S |-> r.bytes]
           h == [r \in T |-> r.bytes]
<1>1. (\A r \in S \cup T : f[r] \in Nat) /\ (\A r \in S : g[r] = f[r]) /\ (\A r \in T : h[r] = f[r])
  OBVIOUS
<1>2. /\ Outbox!Bytes(S \cup T) = SumFunctionOnSet(f, S \cup T)
      /\ Outbox!Bytes(S) = SumFunctionOnSet(g, S) /\ Outbox!Bytes(T) = SumFunctionOnSet(h, T)
  BY BytesSum
<1> HIDE DEF f, g, h
<1>3. SumFunctionOnSet(g, S) = SumFunctionOnSet(f, S)
  BY <1>1, SumOfSame
<1>4. SumFunctionOnSet(h, T) = SumFunctionOnSet(f, T)
  BY <1>1, SumOfSame
<1>5. SumFunctionOnSet(f, S \cup T) = SumFunctionOnSet(f, S) + SumFunctionOnSet(f, T)
  BY <1>1, SumOfUnion
<1> QED
  BY <1>2, <1>3, <1>4, <1>5

(* The records of a batch that was all inserted fit behind those there.    *)
LEMMA BatchFits ==
    ASSUME OutboxInv, NEW p \in Procs, call[p].step = "inserting",
           Cardinality(staged) = Len(call[p].items), rows' = rows \cup staged
    PROVE  Outbox!Bounded'
<1> DEFINE items == call[p].items
<1> USE DEF OutboxInv
<1>1. items \in Seq(Outbox!Item) /\ DOMAIN items = 1 .. Len(items)
  BY DEF OutboxTypes, CallRecord
<1>2. staged = {Outbox!Row(p, i) : i \in DOMAIN items} /\ Outbox!Fits(p) /\ IsFiniteSet(staged)
  BY <1>1 DEF OneWriter
<1>3. \A i \in DOMAIN items : /\ Outbox!Row(p, i).route = items[i].route
                              /\ Outbox!Row(p, i).bytes = items[i].bytes
                              /\ Outbox!Row(p, i).id = call[p].id
  BY DEF Outbox!Row
<1>4. \A i \in DOMAIN items : items[i].bytes \in Nat
  <2>1. \A i \in DOMAIN items : items[i] \in Outbox!Item
    BY <1>1
  <2> HIDE DEF items
  <2> QED
    BY <2>1, OutboxAssumption DEF Outbox!Item
<1>5. call[p].id \in 1 .. Batches /\ made[call[p].id] = "open"
  BY DEF CallsApart
<1> SUFFICES ASSUME NEW route \in Routes
             PROVE  /\ Cardinality(Outbox!Used(route)') <= MaxRecords
                    /\ Outbox!Bytes(Outbox!Used(route)') <= MaxBytes
  <2>1. \A route : Outbox!Bytes(Outbox!Used(route))' = Outbox!Bytes(Outbox!Used(route)')
    BY DEF Outbox!Bytes
  <2> QED
    BY <2>1, OutboxCardinality DEF Outbox!Bounded
<1> DEFINE old == Outbox!Used(route)
           new == Outbox!Added(p, route)
<1>6. old \subseteq rows /\ IsFiniteSet(old) /\ Cardinality(old) <= MaxRecords /\ Outbox!Bytes(old) <= MaxBytes
  <2>1. old \subseteq rows
    BY DEF Outbox!Used
  <2>2. Cardinality(old) <= MaxRecords /\ Outbox!Bytes(old) <= MaxBytes
    BY OutboxCardinality DEF Outbox!Bounded
  <2> HIDE DEF old
  <2>3. IsFiniteSet(old)
    BY <2>1, FS_Subset DEF OutboxTypes
  <2> QED
    BY <2>1, <2>2, <2>3
<1>7. Outbox!Used(route)' = old \cup new
  <2>1. Outbox!Used(route)' = {r \in rows \cup staged : r.route = route}
    BY DEF Outbox!Used
  <2>2. {r \in staged : r.route = route} = new
    BY <1>2, <1>3 DEF Outbox!Added
  <2> QED
    BY <2>1, <2>2 DEF Outbox!Used
<1>8. new \subseteq staged
  BY <1>2 DEF Outbox!Added
<1>9. CASE \A i \in DOMAIN items : items[i].route # route
  <2>1. new = {}
    BY <1>9 DEF Outbox!Added
  <2> HIDE DEF old, new
  <2>2. Outbox!Used(route)' = old
    BY <1>7, <2>1
  <2> QED
    BY <1>6, <2>2
<1>10. CASE \E i \in DOMAIN items : items[i].route = route
  <2>1. Cardinality(old) + Cardinality(new) <= MaxRecords
        /\ Outbox!Bytes(old) + Outbox!Bytes(new) <= MaxBytes
    BY <1>2, <1>10, OutboxCardinality DEF Outbox!Fits
  <2>2. \A r \in staged : r.bytes \in Nat /\ r.id = call[p].id
    BY <1>2, <1>3, <1>4
  <2>3. \A r \in rows : made[r.id] = "stored" /\ r.bytes \in Nat
    BY DEF Outbox!AllOrNothing, OutboxTypes
  <2> HIDE DEF old, new
  <2>4. old \cap new = {} /\ \A r \in old \cup new : r.bytes \in Nat
    BY <1>5, <1>6, <1>8, <2>2, <2>3
  <2>5. IsFiniteSet(new)
    BY <1>2, <1>8, FS_Subset
  <2>6. Outbox!Bytes(old \cup new) = Outbox!Bytes(old) + Outbox!Bytes(new)
    BY <1>6, <2>4, <2>5, BytesAdd
  <2>7. Cardinality(old \cup new) = Cardinality(old) + Cardinality(new)
    <3>1. Cardinality(old \cup new) = Cardinality(old) + Cardinality(new) - Cardinality(old \cap new)
      BY <1>6, <2>5, FS_Union
    <3>2. Cardinality(old \cap new) = 0
      BY <2>4, FS_EmptySet
    <3>3. Cardinality(old) \in Nat /\ Cardinality(new) \in Nat
      BY <1>6, <2>5, FS_CardinalityType
    <3> QED
      BY <3>1, <3>2, <3>3
  <2> QED
    BY <1>7, <2>1, <2>6, <2>7
<1> QED
  BY <1>9, <1>10

(* The other properties of a step that leaves the rows alone.              *)
LEMMA RowsStay ==
    ASSUME OutboxInv, rows' = rows, \A r \in rows : made'[r.id] = "stored"
    PROVE  Outbox!AllOrNothing' /\ Outbox!Bounded' /\ IsFiniteSet(rows')
           /\ \A r \in rows' : r.bytes \in Nat /\ r.id \in 1 .. Batches
<1>1. \A route : Outbox!Used(route)' = Outbox!Used(route)
                 /\ Outbox!Bytes(Outbox!Used(route))' = Outbox!Bytes(Outbox!Used(route))
  BY DEF Outbox!Used, Outbox!Bytes
<1> QED
  BY <1>1 DEF OutboxInv, OutboxTypes, Outbox!AllOrNothing, Outbox!Bounded

(* A process whose call stays keeps its place in the transaction.          *)
LEMMA FitsStays ==
    ASSUME NEW p, rows' = rows, call'[p].items = call[p].items, call'[p].id = call[p].id
    PROVE  /\ Outbox!Fits(p)' = Outbox!Fits(p)
           /\ \A i : Outbox!Row(p, i)' = Outbox!Row(p, i)
<1>1. \A i : Outbox!Row(p, i)' = Outbox!Row(p, i)
  BY DEF Outbox!Row
<1>2. \A route : /\ Outbox!Used(route)' = Outbox!Used(route)
                 /\ Outbox!Added(p, route)' = Outbox!Added(p, route)
  BY <1>1 DEF Outbox!Used, Outbox!Added
<1>3. \A route : /\ Outbox!Bytes(Outbox!Used(route))' = Outbox!Bytes(Outbox!Used(route))
                 /\ Outbox!Bytes(Outbox!Added(p, route))' = Outbox!Bytes(Outbox!Added(p, route))
  BY <1>2 DEF Outbox!Bytes
<1>4. Outbox!Fits(p)' = Outbox!Fits(p)
  BY <1>2, <1>3 DEF Outbox!Fits
<1> QED
  BY <1>1, <1>4

(* A call that ends, however it does.                                      *)
LEMMA EndsKeeps ==
    ASSUME OutboxInv, NEW p \in Procs, call[p].step # "idle", NEW how \in Outcomes, Outbox!Ends(p, how)
    PROVE  /\ call' \in [Procs -> CallRecord] /\ made' \in [1 .. Batches -> Outcomes]
           /\ call'[p].step = "idle" /\ \A q \in Procs \ {p} : call'[q] = call[q]
           /\ made'[call[p].id] = how /\ \A r \in rows : made'[r.id] = "stored"
           /\ CallsApart'
<1> USE DEF OutboxInv
<1>1. call \in [Procs -> CallRecord] /\ made \in [1 .. Batches -> Outcomes]
  BY DEF OutboxTypes
<1>2. call' = [call EXCEPT ![p] = Outbox!Idle] /\ made' = [made EXCEPT ![call[p].id] = how]
  BY DEF Outbox!Ends
<1>3. Outbox!Idle \in CallRecord /\ Outbox!Idle.step = "idle"
  <2>1. <<>> \in Seq(Outbox!Item)
    OBVIOUS
  <2> QED
    BY <2>1 DEF Outbox!Idle, CallRecord, Steps
<1>4. call' \in [Procs -> CallRecord] /\ made' \in [1 .. Batches -> Outcomes]
  BY <1>1, <1>2, <1>3
<1>5. call'[p].step = "idle" /\ \A q \in Procs \ {p} : call'[q] = call[q]
  BY <1>1, <1>2, <1>3
<1>6. call[p].id \in 1 .. Batches /\ made[call[p].id] = "open"
  BY DEF CallsApart
<1>7. made'[call[p].id] = how /\ \A b \in 1 .. Batches : b # call[p].id => made'[b] = made[b]
  BY <1>1, <1>2, <1>6
<1>8. \A r \in rows : made'[r.id] = "stored"
  <2>1. \A r \in rows : r.id \in 1 .. Batches /\ made[r.id] = "stored"
    BY DEF OutboxTypes, Outbox!AllOrNothing
  <2> QED
    BY <1>6, <1>7, <2>1
<1>9. CallsApart'
  BY <1>5, <1>7 DEF CallsApart
<1> QED
  BY <1>4, <1>5, <1>7, <1>8, <1>9

LEMMA OutboxStep ==
    ASSUME OutboxInv, Outbox!Next
    PROVE  OutboxInv'
<1>1. PICK p \in Procs : \/ \E items \in Outbox!Calls : Outbox!Enqueue(p, items)
                        \/ Outbox!Begin(p) \/ Outbox!Busy(p) \/ Outbox!Admit(p)
                        \/ Outbox!Insert(p) \/ Outbox!Commit(p) \/ Outbox!Crash(p)
  BY DEF Outbox!Next
<1>2. call \in [Procs -> CallRecord] /\ made \in [1 .. Batches -> Outcomes] /\ writer \in Procs \cup {"none"}
  BY DEF OutboxInv, OutboxTypes
<1>3. \A r \in rows : r.id \in 1 .. Batches /\ made[r.id] = "stored"
  BY DEF OutboxInv, OutboxTypes, Outbox!AllOrNothing
<1>4. CallsApart /\ OneWriter
  BY DEF OutboxInv
<1>5. \A q \in Procs : rows' = rows /\ call'[q] = call[q] =>
          Outbox!Fits(q)' = Outbox!Fits(q) /\ \A i : Outbox!Row(q, i)' = Outbox!Row(q, i)
  BY FitsStays
<1>6. CASE \E items \in Outbox!Calls : Outbox!Enqueue(p, items)
  <2>1. PICK items \in Outbox!Calls : Outbox!Enqueue(p, items)
    BY <1>6
  <2>2. PICK b \in 1 .. Batches :
            /\ made[b] = "unmade"
            /\ \/ /\ made' = [made EXCEPT ![b] = "open"]
                  /\ call' = [call EXCEPT ![p] = [step |-> "waiting", id |-> b, items |-> items]]
               \/ made' = [made EXCEPT ![b] = "invalid"] /\ call' = call
    BY <2>1 DEF Outbox!Enqueue
  <2>3. call[p].step = "idle" /\ UNCHANGED <<rows, writer, staged>>
    BY <2>1 DEF Outbox!Enqueue
  <2>4. items \in Seq(Outbox!Item)
    <3>1. PICK n \in 1 .. 2 : items \in [1 .. n -> Outbox!Item]
      BY DEF Outbox!Calls
    <3> QED
      BY <3>1
  <2>5. [step |-> "waiting", id |-> b, items |-> items] \in CallRecord
    BY <2>4 DEF CallRecord, Steps
  <2>6. call' \in [Procs -> CallRecord] /\ made' \in [1 .. Batches -> Outcomes]
    BY <1>2, <2>2, <2>5 DEF Outcomes
  <2>7. /\ \A q \in Procs : call'[q] # call[q] => q = p /\ call'[q].step = "waiting" /\ call'[q].id = b /\ made'[b] = "open"
        /\ \A c \in 1 .. Batches : c # b => made'[c] = made[c]
    <3>1. \A c \in 1 .. Batches : c # b => made'[c] = made[c]
      BY <1>2, <2>2
    <3>2. \A q \in Procs : call'[q] # call[q] => q = p /\ call'[q].step = "waiting" /\ call'[q].id = b
      BY <1>2, <2>2
    <3>3. (\E q \in Procs : call'[q] # call[q]) => made'[b] = "open"
      BY <1>2, <2>2
    <3> QED
      BY <3>1, <3>2, <3>3
  <2>8. CallsApart'
    BY <1>4, <2>2, <2>7 DEF CallsApart
  <2>9. \A r \in rows : made'[r.id] = "stored"
    BY <1>3, <2>2, <2>7
  <2>10. OneWriter'
    BY <1>4, <1>5, <2>3, <2>7 DEF OneWriter
  <2> QED
    BY <1>2, <2>3, <2>6, <2>8, <2>9, <2>10, RowsStay DEF OutboxInv, OutboxTypes
<1>7. CASE Outbox!Begin(p)
  <2>1. /\ call[p].step = "waiting" /\ writer = "none" /\ writer' = p
        /\ call' = [call EXCEPT ![p].step = "admitting"] /\ UNCHANGED <<rows, staged, made>>
    BY <1>7 DEF Outbox!Begin
  <2>2. /\ call' \in [Procs -> CallRecord]
        /\ call'[p].step = "admitting" /\ call'[p].id = call[p].id
        /\ \A q \in Procs \ {p} : call'[q] = call[q]
    BY <1>2, <2>1 DEF CallRecord, Steps
  <2>3. CallsApart'
    BY <1>4, <2>1, <2>2 DEF CallsApart
  <2>4. \A q \in Procs : call[q].step \notin {"admitting", "inserting"}
    BY <1>4, <2>1, OutboxAssumption DEF OneWriter
  <2>5. OneWriter'
    <3>1. \A q \in Procs : call'[q].step \in {"admitting", "inserting"} <=> writer' = q
      BY <2>1, <2>2, <2>4
    <3>2. staged' = {} /\ IsFiniteSet(staged')
      BY <1>4, <2>1 DEF OneWriter
    <3>3. \A q \in Procs : call'[q].step # "inserting"
      BY <2>2, <2>4
    <3> QED
      BY <3>1, <3>2, <3>3 DEF OneWriter
  <2>6. \A r \in rows : made'[r.id] = "stored"
    BY <1>3, <2>1
  <2> QED
    BY <1>2, <2>1, <2>2, <2>3, <2>5, <2>6, RowsStay DEF OutboxInv, OutboxTypes
<1>8. CASE Outbox!Busy(p)
  <2>1. call[p].step = "waiting" /\ Outbox!Ends(p, "busy") /\ UNCHANGED <<rows, writer, staged>>
    BY <1>8 DEF Outbox!Busy
  <2>2. /\ call' \in [Procs -> CallRecord] /\ made' \in [1 .. Batches -> Outcomes]
        /\ call'[p].step = "idle" /\ \A q \in Procs \ {p} : call'[q] = call[q]
        /\ \A r \in rows : made'[r.id] = "stored"
        /\ CallsApart'
    BY <2>1, EndsKeeps DEF Outcomes
  <2>3. OneWriter'
    BY <1>4, <1>5, <2>1, <2>2 DEF OneWriter
  <2> QED
    BY <1>2, <2>1, <2>2, <2>3, RowsStay DEF OutboxInv, OutboxTypes
<1>9. CASE Outbox!Admit(p)
  <2>1. call[p].step = "admitting" /\ UNCHANGED <<rows, staged>> /\ writer = p /\ staged = {}
    BY <1>4, <1>9 DEF Outbox!Admit, OneWriter
  <2>2. CASE Outbox!Fits(p)
    <3>1. call' = [call EXCEPT ![p].step = "inserting"] /\ UNCHANGED <<writer, made>>
      BY <1>9, <2>2 DEF Outbox!Admit
    <3>2. /\ call' \in [Procs -> CallRecord]
          /\ call'[p].step = "inserting" /\ call'[p].id = call[p].id /\ call'[p].items = call[p].items
          /\ \A q \in Procs \ {p} : call'[q] = call[q]
      BY <1>2, <3>1 DEF CallRecord, Steps
    <3>3. CallsApart'
      BY <1>4, <2>1, <3>1, <3>2 DEF CallsApart
    <3>4. Outbox!Fits(p)'
      BY <2>1, <2>2, <3>2, FitsStays
    <3>5. OneWriter'
      <4>1. \A q \in Procs : call'[q].step \in {"admitting", "inserting"} <=> writer' = q
        BY <1>4, <2>1, <3>1, <3>2 DEF OneWriter
      <4>2. Cardinality(staged') = 0 /\ staged' = {} /\ IsFiniteSet(staged')
        BY <2>1, FS_EmptySet
      <4>3. Len(call'[p].items) \in Nat
        BY <3>2 DEF CallRecord
      <4>4. \A q \in Procs : call'[q].step = "inserting" => q = p
        BY <2>1, <3>1, <4>1
      <4>5. \A q \in Procs : call'[q].step # "inserting" \/ staged' = {Outbox!Row(q, i)' : i \in 1 .. 0}
        BY <4>2
      <4> QED
        BY <3>4, <4>1, <4>2, <4>3, <4>4, <4>5 DEF OneWriter
    <3>6. \A r \in rows : made'[r.id] = "stored"
      BY <1>3, <3>1
    <3> QED
      BY <1>2, <2>1, <3>1, <3>2, <3>3, <3>5, <3>6, RowsStay DEF OutboxInv, OutboxTypes
  <2>3. CASE ~Outbox!Fits(p)
    <3>1. Outbox!Ends(p, "full") /\ writer' = "none"
      BY <1>9, <2>3 DEF Outbox!Admit
    <3>2. /\ call' \in [Procs -> CallRecord] /\ made' \in [1 .. Batches -> Outcomes]
          /\ call'[p].step = "idle" /\ \A q \in Procs \ {p} : call'[q] = call[q]
          /\ \A r \in rows : made'[r.id] = "stored"
          /\ CallsApart'
      BY <2>1, <3>1, EndsKeeps DEF Outcomes
    <3>3. OneWriter'
      BY <1>4, <2>1, <3>1, <3>2, OutboxAssumption DEF OneWriter
    <3> QED
      BY <1>2, <2>1, <3>1, <3>2, <3>3, RowsStay DEF OutboxInv, OutboxTypes
  <2> QED
    BY <2>2, <2>3
<1>10. CASE Outbox!Insert(p)
  <2> DEFINE k == Cardinality(staged)
  <2>1. /\ call[p].step = "inserting" /\ staged' = staged \cup {Outbox!Row(p, k + 1)}
        /\ UNCHANGED <<rows, writer, call, made>> /\ k < Len(call[p].items)
    BY <1>10, OutboxCardinality DEF Outbox!Insert
  <2>2. /\ staged = {Outbox!Row(p, i) : i \in 1 .. k} /\ IsFiniteSet(staged)
        /\ Outbox!Fits(p) /\ writer = p
    BY <1>4, <2>1 DEF OneWriter
  <2>3. k \in Nat
    BY <2>2, FS_CardinalityType
  <2>4. Outbox!Row(p, k + 1) \notin staged
    <3>1. \A i : Outbox!Row(p, i).at = i
      BY DEF Outbox!Row
    <3> HIDE DEF k
    <3>2. \A i \in 1 .. k : Outbox!Row(p, i) # Outbox!Row(p, k + 1)
      <4>1. \A i \in 1 .. k : i # k + 1
        BY <2>3
      <4> QED
        BY <3>1, <4>1
    <3> QED
      BY <2>2, <3>2
  <2>5. IsFiniteSet(staged') /\ Cardinality(staged') = k + 1
    BY <2>1, <2>2, <2>4, FS_AddElement
  <2>6. staged' = {Outbox!Row(p, i) : i \in 1 .. (k + 1)}
    <3> HIDE DEF k
    <3>1. 1 .. (k + 1) = (1 .. k) \cup {k + 1}
      BY <2>3
    <3> QED
      BY <2>1, <2>2, <3>1
  <2>7. \A q \in Procs : Outbox!Fits(q)' = Outbox!Fits(q) /\ \A i : Outbox!Row(q, i)' = Outbox!Row(q, i)
    BY <1>5, <2>1
  <2>8. k + 1 <= Len(call[p].items)
    <3>1. Len(call[p].items) \in Nat
      BY <1>2 DEF CallRecord
    <3> HIDE DEF k
    <3> QED
      BY <2>1, <2>3, <3>1
  <2>9. OneWriter'
    <3>1. \A q \in Procs : q # p => call'[q].step \notin {"admitting", "inserting"}
      BY <1>4, <2>1, <2>2 DEF OneWriter
    <3>2. \A q \in Procs : call'[q].step \in {"admitting", "inserting"} <=> writer' = q
      BY <1>4, <2>1 DEF OneWriter
    <3>3. writer' # "none"
      BY <2>1, <2>2, OutboxAssumption
    <3>4. /\ Outbox!Fits(p)' /\ Cardinality(staged)' <= Len(call'[p].items)
          /\ staged' = {Outbox!Row(p, i)' : i \in 1 .. Cardinality(staged)'}
      <4>1. staged' = {Outbox!Row(p, i)' : i \in 1 .. (k + 1)}
        <5> HIDE DEF k
        <5>1. \A i : Outbox!Row(p, i)' = Outbox!Row(p, i)
          BY <2>7
        <5> QED
          BY <2>6, <5>1
      <4>2. Cardinality(staged)' = k + 1 /\ call'[p] = call[p]
        BY <2>1, <2>5
      <4>3. Outbox!Fits(p)'
        BY <2>2, <2>7
      <4> HIDE DEF k
      <4> QED
        BY <2>8, <4>1, <4>2, <4>3
    <3> QED
      BY <2>1, <2>5, <3>1, <3>2, <3>3, <3>4 DEF OneWriter
  <2>10. CallsApart'
    BY <1>4, <2>1 DEF CallsApart
  <2>11. \A r \in rows : made'[r.id] = "stored"
    BY <1>3, <2>1
  <2> QED
    BY <1>2, <2>1, <2>9, <2>10, <2>11, RowsStay DEF OutboxInv, OutboxTypes
<1>11. CASE Outbox!Commit(p)
  <2>1. /\ call[p].step = "inserting" /\ Cardinality(staged) = Len(call[p].items)
        /\ rows' = rows \cup staged /\ staged' = {} /\ writer' = "none" /\ Outbox!Ends(p, "stored")
    BY <1>11, OutboxCardinality DEF Outbox!Commit
  <2>2. /\ call' \in [Procs -> CallRecord] /\ made' \in [1 .. Batches -> Outcomes]
        /\ call'[p].step = "idle" /\ \A q \in Procs \ {p} : call'[q] = call[q]
        /\ made'[call[p].id] = "stored"
        /\ \A r \in rows : made'[r.id] = "stored"
        /\ CallsApart'
    BY <2>1, EndsKeeps DEF Outcomes
  <2>3. Outbox!Bounded'
    BY <2>1, BatchFits
  <2>4. /\ IsFiniteSet(staged) /\ staged = {Outbox!Row(p, i) : i \in 1 .. Len(call[p].items)}
        /\ writer = p
    BY <1>4, <2>1 DEF OneWriter
  <2>5. \A i \in 1 .. Len(call[p].items) : Outbox!Row(p, i).id = call[p].id /\ Outbox!Row(p, i).bytes \in Nat
    <3>1. \A i \in 1 .. Len(call[p].items) : call[p].items[i] \in Outbox!Item
      BY <1>2 DEF CallRecord
    <3>2. \A i \in 1 .. Len(call[p].items) : call[p].items[i].bytes \in Nat
      BY <3>1, OutboxAssumption DEF Outbox!Item
    <3> QED
      BY <3>2 DEF Outbox!Row
  <2>6. \A r \in rows' : r.id \in 1 .. Batches /\ r.bytes \in Nat /\ made'[r.id] = "stored"
    <3>1. \A r \in staged : r.id = call[p].id /\ r.bytes \in Nat
      BY <2>4, <2>5
    <3>2. call[p].id \in 1 .. Batches
      BY <1>4, <2>1 DEF CallsApart
    <3>3. \A r \in rows : r.bytes \in Nat
      BY DEF OutboxInv, OutboxTypes
    <3> QED
      BY <1>3, <2>1, <2>2, <3>1, <3>2, <3>3
  <2>7. IsFiniteSet(rows')
    <3>1. IsFiniteSet(rows)
      BY DEF OutboxInv, OutboxTypes
    <3> QED
      BY <2>1, <2>4, <3>1, FS_Union
  <2>8. OneWriter'
    <3>1. \A q \in Procs : call'[q].step \notin {"admitting", "inserting"} /\ writer' # q
      BY <1>4, <2>1, <2>2, <2>4, OutboxAssumption DEF OneWriter
    <3>2. IsFiniteSet(staged')
      BY <2>1, FS_EmptySet
    <3> QED
      BY <2>1, <3>1, <3>2 DEF OneWriter
  <2> QED
    BY <2>1, <2>2, <2>3, <2>6, <2>7, <2>8 DEF OutboxInv, OutboxTypes, Outbox!AllOrNothing
<1>12. CASE Outbox!Crash(p)
  <2>1. /\ call[p].step # "idle" /\ Outbox!Ends(p, "lost") /\ rows' = rows
        /\ IF writer = p THEN writer' = "none" /\ staged' = {} ELSE UNCHANGED <<writer, staged>>
    BY <1>12 DEF Outbox!Crash
  <2>2. /\ call' \in [Procs -> CallRecord] /\ made' \in [1 .. Batches -> Outcomes]
        /\ call'[p].step = "idle" /\ \A q \in Procs \ {p} : call'[q] = call[q]
        /\ \A r \in rows : made'[r.id] = "stored"
        /\ CallsApart'
    BY <2>1, EndsKeeps DEF Outcomes
  <2>3. writer' \in Procs \cup {"none"}
    BY <1>2, <2>1
  <2>4. OneWriter'
    <3>1. CASE writer = p
      <4>1. \A q \in Procs : call'[q].step \notin {"admitting", "inserting"} /\ writer' # q
        BY <1>4, <2>1, <2>2, <3>1, OutboxAssumption DEF OneWriter
      <4>2. IsFiniteSet(staged')
        BY <2>1, <3>1, FS_EmptySet
      <4> QED
        BY <2>1, <3>1, <4>1, <4>2 DEF OneWriter
    <3>2. CASE writer # p
      BY <1>4, <1>5, <2>1, <2>2, <3>2 DEF OneWriter
    <3> QED
      BY <3>1, <3>2
  <2> QED
    BY <2>1, <2>2, <2>3, <2>4, RowsStay DEF OutboxInv, OutboxTypes
<1> QED
  BY <1>1, <1>6, <1>7, <1>8, <1>9, <1>10, <1>11, <1>12

LEMMA OutboxInit ==
    ASSUME Outbox!Init
    PROVE  OutboxInv
<1>1. /\ rows = {} /\ writer = "none" /\ staged = {}
      /\ call = [p \in Procs |-> Outbox!Idle] /\ made = [b \in 1 .. Batches |-> "unmade"]
  BY DEF Outbox!Init
<1>2. Outbox!Idle \in CallRecord /\ Outbox!Idle.step = "idle"
  <2>1. <<>> \in Seq(Outbox!Item)
    OBVIOUS
  <2> QED
    BY <2>1 DEF Outbox!Idle, CallRecord, Steps
<1>3. IsFiniteSet(rows) /\ Cardinality({}) = 0 /\ IsFiniteSet({})
  BY <1>1, FS_EmptySet
<1>4. OutboxTypes
  BY <1>1, <1>2, <1>3 DEF OutboxTypes, Outcomes
<1>5. CallsApart /\ OneWriter /\ Outbox!AllOrNothing
  BY <1>1, <1>2, <1>3, OutboxAssumption DEF CallsApart, OneWriter, Outbox!AllOrNothing
<1>6. Outbox!Bounded
  <2>1. \A route : Outbox!Used(route) = {}
    BY <1>1 DEF Outbox!Used
  <2>2. Outbox!Bytes({}) = 0
    BY BytesSum, SumOfNothing
  <2> QED
    BY <1>3, <2>1, <2>2, OutboxCardinality, OutboxAssumption DEF Outbox!Bounded
<1> QED
  BY <1>4, <1>5, <1>6 DEF OutboxInv

LEMMA OutboxStays == OutboxInv /\ UNCHANGED Outbox!vars => OutboxInv'
<1> SUFFICES ASSUME OutboxInv, UNCHANGED Outbox!vars PROVE OutboxInv'
  OBVIOUS
<1>1. rows' = rows /\ writer' = writer /\ staged' = staged /\ call' = call /\ made' = made
  BY DEF Outbox!vars
<1>2. OneWriter'
  BY <1>1, FitsStays DEF OutboxInv, OneWriter
<1>3. \A r \in rows : made'[r.id] = "stored"
  BY <1>1 DEF OutboxInv, Outbox!AllOrNothing
<1> QED
  BY <1>1, <1>2, <1>3, RowsStay DEF OutboxInv, OutboxTypes, CallsApart

(* Admission keeps every workspace and monitor within its bounds of        *)
(* records and bytes, for any number of processes that enqueue at the same *)
(* time and die at any point, and a call that was refused, or whose        *)
(* process died, leaves none of its records (store.ts,                     *)
(* enqueueMaterializationRetries).                                         *)
THEOREM OutboxKeepsItsBounds == Outbox!Spec => [](Outbox!Bounded /\ Outbox!AllOrNothing)
<1>1. OutboxInv => Outbox!Bounded /\ Outbox!AllOrNothing
  BY DEF OutboxInv
<1> QED
  BY <1>1, OutboxInit, OutboxStays, OutboxStep, PTL DEF Outbox!Spec
-----------------------------------------------------------------------------
(***************************************************************************)
(* Opening an old database.  The scoped rows are a partition of what the   *)
(* old table held, each batch in its order (Lists, and a loop that counts  *)
(* up); who has the transaction works on a copy of what is committed; and  *)
(* a row is dispatched as a whole, so that each key is either as it was    *)
(* upgraded and none of it told, or empty and all of it told.              *)
(***************************************************************************)
Lists(s, S) ==
    /\ s \in Seq(Nat) /\ \A i, j \in 1 .. Len(s) : i < j => s[i] < s[j]
    /\ S = {s[i] : i \in 1 .. Len(s)}

Found(m, w, k) == {o \in Observations : origin[o] = [m |-> m, w |-> w, k |-> k]}
FoundBy(m, k) == {o \in Observations : origin[o].m = m /\ origin[o].k = k}
IsTold(o) == \E i \in 1 .. Len(dispatched) : dispatched[i].o = o

Places == {"start", "rows", "drop", "create", "insert", "commit", "ready", "down"}
Origins == [m : Monitors, w : Workspaces, k : Database!Kinds]
Batched == [Database!RowKeys -> [Database!Kinds -> Seq(Nat)]]

DbTypes ==
    /\ home \in [Procs -> Workspaces] /\ origin \in [Observations -> Origins]
    /\ place \in [Procs -> Places] /\ holder \in Procs \cup {"none"}
    /\ legacy = [p \in Procs |-> legacy[p]]
    /\ disk.table \in {"legacy", "scoped"} /\ disk.rows \in Batched /\ work.rows \in Batched
    /\ disk = [table |-> disk.table, old |-> disk.old, rows |-> disk.rows]
    /\ work = [table |-> work.table, old |-> work.old, rows |-> work.rows]
    /\ dispatched \in Seq([o : Observations, w : Workspaces])

Upgraded(rs) == \A m \in Monitors, w \in Workspaces, k \in Database!Kinds : Lists(rs[<<m, w>>][k], Found(m, w, k))

\* What the holder of the transaction has of the old table, and has made of it.
Upgrading ==
    /\ \A p \in Procs : place[p] \in {"rows", "drop", "create", "insert", "commit"} <=> holder = p
    /\ \A p \in Procs : place[p] = "rows" => work = disk
    /\ \A p \in Procs : place[p] \in {"drop", "create", "insert"} => disk.table = "legacy" /\ legacy[p] = disk.old
    /\ \A p \in Procs : place[p] = "insert" => work.table = "scoped"
    /\ \A p \in Procs : place[p] = "commit" =>
          \/ work = disk /\ disk.table = "scoped"
          \/ disk.table = "legacy" /\ work.table = "scoped" /\ Upgraded(work.rows)

OldHolds ==
    disk.table = "legacy" =>
      /\ dispatched = <<>> /\ disk.rows = Database!ScopedEmpty
      /\ \A m \in Monitors, k \in Database!Kinds : Lists(disk.old[m][k], FoundBy(m, k))

Untold(m, w) ==
    \A k \in Database!Kinds : /\ Lists(disk.rows[<<m, w>>][k], Found(m, w, k))
                              /\ \A o \in Found(m, w, k) : ~IsTold(o)
AllTold(m, w) ==
    /\ disk.rows[<<m, w>>] = Database!Empty
    /\ \A k \in Database!Kinds : \A o \in Found(m, w, k) : IsTold(o)
NewHolds ==
    disk.table = "scoped" => \A m \in Monitors, w \in Workspaces : Untold(m, w) \/ AllTold(m, w)

ToldOnce == \A i, j \in 1 .. Len(dispatched) : dispatched[i].o = dispatched[j].o => i = j

DbInv == DbTypes /\ Upgrading /\ OldHolds /\ NewHolds /\ ToldOnce /\ Database!DispatchedAtHome

(* The loop of Pushed has a run, bucket by bucket.                         *)
LEMMA PushedExists ==
    ASSUME NEW s \in Seq(Nat), NEW S
    PROVE  \E f : /\ Database!Pushed(s, S) = f[Len(s)] /\ f[0] = <<>>
                  /\ \A i \in 1 .. Len(s) :
                       f[i] = IF s[i] \in S THEN Append(f[i - 1], s[i]) ELSE f[i - 1]
<1> DEFINE n == Len(s)
           Value(f, i) == IF i = 0 THEN <<>>
                          ELSE IF s[i] \in S THEN Append(f[i - 1], s[i]) ELSE f[i - 1]
           Run(f, m) == f = [i \in 0 .. m |-> Value(f, i)]
           R == {m \in 0 .. n : \E f : Run(f, m)}
<1>1. n \in Nat
  OBVIOUS
<1>2. 0 \in R
  <2> DEFINE f == [i \in 0 .. 0 |-> <<>>]
  <2>1. \A i \in 0 .. 0 : Value(f, i) = <<>>
    OBVIOUS
  <2>2. Run(f, 0)
    <3> HIDE DEF Value
    <3> QED
      BY <2>1
  <2> HIDE DEF Run
  <2> QED
    BY <1>1, <2>2
<1>3. ASSUME NEW m \in 1 .. n, m - 1 \in R PROVE m \in R
  <2>1. PICK f : Run(f, m - 1)
    BY <1>3
  <2> DEFINE g == [i \in 0 .. m |-> IF i = m THEN Value(f, m) ELSE f[i]]
  <2>2. \A i \in 0 .. m : i # m => g[i] = f[i] /\ i \in 0 .. (m - 1)
    OBVIOUS
  <2>3. \A i \in 0 .. m : Value(g, i) = Value(f, i)
    <3>1. \A i \in 1 .. m : g[i - 1] = f[i - 1]
      OBVIOUS
    <3> HIDE DEF g
    <3> QED
      BY <3>1
  <2>4. \A i \in 0 .. (m - 1) : f[i] = Value(f, i)
    <3> HIDE DEF Value
    <3> QED
      BY <2>1
  <2>5. Run(g, m)
    <3>1. \A i \in 0 .. m : g[i] = Value(g, i)
      <4>1. g[m] = Value(f, m)
        <5> HIDE DEF Value
        <5> QED
          OBVIOUS
      <4> HIDE DEF Value, g
      <4> QED
        BY <2>2, <2>3, <2>4, <4>1
    <3>2. g = [i \in 0 .. m |-> g[i]]
      OBVIOUS
    <3> HIDE DEF Value, g
    <3> QED
      BY <3>1, <3>2
  <2> HIDE DEF Run
  <2> QED
    BY <2>5
<1>4. n \in R
  <2> HIDE DEF R, n
  <2> QED
    BY <1>1, <1>2, <1>3, CountUp
<1> DEFINE f == CHOOSE f : Run(f, n)
<1>5. Run(f, n)
  <2> HIDE DEF Run
  <2> QED
    BY <1>4
<1>6. Database!Pushed(s, S) = f[n]
  BY DEF Database!Pushed
<1>7. \A i \in 0 .. n : f[i] = Value(f, i)
  <2> HIDE DEF Value, f
  <2> QED
    BY <1>5
<1>8. f[0] = <<>> /\ \A i \in 1 .. n : f[i] = IF s[i] \in S THEN Append(f[i - 1], s[i]) ELSE f[i - 1]
  <2> HIDE DEF f
  <2> QED
    BY <1>1, <1>7
<1> HIDE DEF f
<1> QED
  BY <1>6, <1>8

(* What is pushed is in order, and all of S that there was.                *)
LEMMA PushedLists ==
    ASSUME NEW s, NEW T, Lists(s, T), NEW S
    PROVE  Lists(Database!Pushed(s, S), T \cap S)
<1>1. s \in Seq(Nat) /\ Len(s) \in Nat /\ \A i \in 1 .. Len(s) : s[i] \in Nat
  BY DEF Lists
<1>2. PICK f : /\ Database!Pushed(s, S) = f[Len(s)] /\ f[0] = <<>>
               /\ \A i \in 1 .. Len(s) :
                    f[i] = IF s[i] \in S THEN Append(f[i - 1], s[i]) ELSE f[i - 1]
  BY <1>1, PushedExists
<1> DEFINE Upto(i) == {s[j] : j \in 1 .. i} \cap S
           R == {i \in 0 .. Len(s) : Lists(f[i], Upto(i))}
<1>3. 0 \in R
  <2>1. <<>> \in Seq(Nat) /\ Len(<<>>) = 0 /\ Upto(0) = {}
    OBVIOUS
  <2>2. Lists(f[0], Upto(0))
    BY <1>2, <2>1 DEF Lists
  <2> QED
    BY <1>1, <2>2
<1>4. ASSUME NEW i \in 1 .. Len(s), i - 1 \in R PROVE i \in R
  <2>1. Lists(f[i - 1], Upto(i - 1))
    BY <1>4
  <2>2. {s[j] : j \in 1 .. i} = {s[j] : j \in 1 .. (i - 1)} \cup {s[i]}
    <3>1. 1 .. i = (1 .. (i - 1)) \cup {i}
      OBVIOUS
    <3> QED
      BY <3>1
  <2>3. CASE s[i] \notin S
    <3>1. Upto(i) = Upto(i - 1) /\ f[i] = f[i - 1]
      BY <1>2, <2>2, <2>3
    <3> HIDE DEF Upto
    <3>2. Lists(f[i], Upto(i))
      BY <2>1, <3>1
    <3> QED
      BY <3>2
  <2>4. CASE s[i] \in S
    <3> DEFINE b == f[i - 1]
    <3>1. b \in Seq(Nat) /\ Len(b) \in Nat /\ \A j \in 1 .. Len(b) : b[j] \in Nat /\ b[j] \in Upto(i - 1)
      <4>1. b \in Seq(Nat) /\ Upto(i - 1) = {b[j] : j \in 1 .. Len(b)}
        BY <2>1 DEF Lists
      <4> HIDE DEF b, Upto
      <4> QED
        BY <4>1
    <3>2. f[i] = Append(b, s[i]) /\ f[i] \in Seq(Nat) /\ Len(f[i]) = Len(b) + 1
          /\ f[i][Len(b) + 1] = s[i] /\ \A j \in 1 .. Len(b) : f[i][j] = b[j]
      <4>1. f[i] = Append(b, s[i]) /\ s[i] \in Nat
        BY <1>1, <1>2, <2>4
      <4> HIDE DEF b
      <4> QED
        BY <3>1, <4>1
    <3>3. \A x \in Upto(i - 1) : x < s[i]
      <4>1. \A j \in 1 .. (i - 1) : j \in 1 .. Len(s) /\ j < i
        BY <1>1
      <4> QED
        BY <4>1 DEF Lists
    <3>4. \A j \in 1 .. Len(f[i]) : j = Len(b) + 1 \/ j \in 1 .. Len(b)
      BY <3>1, <3>2
    <3>5. \A j, k \in 1 .. Len(f[i]) : j < k => f[i][j] < f[i][k]
      <4>1. \A j, k \in 1 .. Len(b) : j < k => b[j] < b[k]
        BY <2>1 DEF Lists
      <4> HIDE DEF b, Upto
      <4> QED
        BY <3>1, <3>2, <3>3, <3>4, <4>1
    <3>6. {f[i][j] : j \in 1 .. Len(f[i])} = {b[j] : j \in 1 .. Len(b)} \cup {s[i]}
      <4>1. Len(b) + 1 \in 1 .. Len(f[i]) /\ \A j \in 1 .. Len(b) : j \in 1 .. Len(f[i])
        BY <3>1, <3>2
      <4> HIDE DEF b
      <4> QED
        BY <3>2, <3>4, <4>1
    <3>7. Upto(i) = Upto(i - 1) \cup {s[i]}
      BY <2>2, <2>4
    <3>8. Upto(i - 1) = {b[j] : j \in 1 .. Len(b)}
      BY <2>1 DEF Lists
    <3>9. Lists(f[i], Upto(i))
      <4> HIDE DEF b, Upto
      <4> QED
        BY <3>2, <3>5, <3>6, <3>7, <3>8 DEF Lists
    <3> HIDE DEF Upto
    <3> QED
      BY <3>9
  <2> QED
    BY <2>3, <2>4
<1>5. Len(s) \in R
  <2> HIDE DEF R
  <2> QED
    BY <1>1, <1>3, <1>4, CountUp
<1>6. Upto(Len(s)) = T \cap S
  BY DEF Lists
<1> QED
  BY <1>2, <1>5, <1>6

(* The batches of the old table, and of the rows made of it.               *)
LEMMA OldRows ==
    ASSUME NEW m \in Monitors, NEW k \in Database!Kinds, origin \in [Observations -> Origins]
    PROVE  Lists(Database!Held(m, k), FoundBy(m, k))
<1> DEFINE s == [o \in Observations |-> o]
<1>1. PICK n \in Nat : Observations = 1 .. n
  BY DatabaseAssumption, FS_CardinalityType
<1>2. s \in Seq(Nat) /\ Len(s) = n
  BY <1>1
<1>3. \A i \in 1 .. n : s[i] = i
  BY <1>1
<1> HIDE DEF s
<1>4. Lists(s, Observations)
  BY <1>1, <1>2, <1>3 DEF Lists
<1>5. Lists(Database!Pushed(s, FoundBy(m, k)), Observations \cap FoundBy(m, k))
  BY <1>4, PushedLists
<1>6. Observations \cap FoundBy(m, k) = FoundBy(m, k)
  BY DEF FoundBy
<1>7. Database!Held(m, k) = Database!Pushed(s, FoundBy(m, k))
  BY DEF Database!Held, FoundBy, s
<1> QED
  BY <1>5, <1>6, <1>7

LEMMA PartsOfRows ==
    ASSUME origin \in [Observations -> Origins], NEW old,
           \A m \in Monitors, k \in Database!Kinds : Lists(old[m][k], FoundBy(m, k)),
           NEW rs, rs = [key \in Database!RowKeys |-> Database!Partition(old[key[1]], key[2])]
    PROVE  rs \in Batched /\ Upgraded(rs)
<1>1. ASSUME NEW m \in Monitors, NEW w \in Workspaces, NEW k \in Database!Kinds
      PROVE  Lists(rs[<<m, w>>][k], Found(m, w, k))
  <2> DEFINE S == {o \in Observations : origin[o].w = w}
  <2>1. Lists(Database!Pushed(old[m][k], S), FoundBy(m, k) \cap S)
    BY PushedLists
  <2>2. FoundBy(m, k) \cap S = Found(m, w, k)
    BY DEF FoundBy, Found, Origins
  <2>3. <<m, w>> \in Database!RowKeys
    BY DEF Database!RowKeys
  <2>4. rs[<<m, w>>][k] = Database!Pushed(old[m][k], S)
    BY <2>3 DEF Database!Partition
  <2> QED
    BY <2>1, <2>2, <2>4
<1>2. \A key \in Database!RowKeys : \E m \in Monitors, w \in Workspaces : key = <<m, w>>
  BY DEF Database!RowKeys
<1>3. \A key \in Database!RowKeys, k \in Database!Kinds : rs[key][k] \in Seq(Nat)
  BY <1>1, <1>2 DEF Lists
<1>4. \A key \in Database!RowKeys : rs[key] = [k \in Database!Kinds |-> rs[key][k]]
  BY DEF Database!Partition
<1>5. \A key \in Database!RowKeys : rs[key] \in [Database!Kinds -> Seq(Nat)]
  <2> TAKE key \in Database!RowKeys
  <2>1. rs[key] = [k \in Database!Kinds |-> rs[key][k]] /\ \A k \in Database!Kinds : rs[key][k] \in Seq(Nat)
    BY <1>3, <1>4
  <2> DEFINE of == rs[key]
  <2> HIDE DEF of
  <2>2. of = [k \in Database!Kinds |-> of[k]] /\ \A k \in Database!Kinds : of[k] \in Seq(Nat)
    BY <2>1 DEF of
  <2>3. of \in [Database!Kinds -> Seq(Nat)]
    BY <2>2
  <2> QED
    BY <2>3 DEF of
<1>6. rs \in Batched
  <2>1. rs = [key \in Database!RowKeys |-> rs[key]]
    OBVIOUS
  <2> QED
    BY <1>5, <2>1 DEF Batched
<1> QED
  BY <1>1, <1>6 DEF Upgraded

LEMMA EmptyRows == Database!ScopedEmpty \in Batched /\ Database!Empty \in [Database!Kinds -> Seq(Nat)]
                   /\ \A key \in Database!RowKeys : Database!ScopedEmpty[key] = Database!Empty
<1>1. <<>> \in Seq(Nat)
  OBVIOUS
<1> QED
  BY <1>1 DEF Database!ScopedEmpty, Database!Empty, Batched

(* What holds of the committed database and of what was told stays so in   *)
(* the steps that touch neither.                                           *)
LEMMA DiskStays ==
    ASSUME DbInv, disk' = disk, dispatched' = dispatched, home' = home, origin' = origin
    PROVE  OldHolds' /\ NewHolds' /\ ToldOnce' /\ Database!DispatchedAtHome'
           /\ home' \in [Procs -> Workspaces] /\ origin' \in [Observations -> Origins]
           /\ disk'.table \in {"legacy", "scoped"} /\ disk'.rows \in Batched
           /\ disk' = [table |-> disk'.table, old |-> disk'.old, rows |-> disk'.rows]
           /\ dispatched' \in Seq([o : Observations, w : Workspaces])
<1>1. OldHolds'
  BY DEF DbInv, OldHolds, FoundBy
<1>2. NewHolds'
  <2>1. \A o : IsTold(o)' = IsTold(o)
    BY DEF IsTold
  <2>2. \A m, w, k : Found(m, w, k)' = Found(m, w, k)
    BY DEF Found
  <2>3. \A m, w : Untold(m, w)' = Untold(m, w) /\ AllTold(m, w)' = AllTold(m, w)
    BY <2>1, <2>2 DEF Untold, AllTold
  <2> QED
    BY <2>3 DEF DbInv, NewHolds
<1>3. ToldOnce' /\ Database!DispatchedAtHome'
  BY DEF DbInv, ToldOnce, Database!DispatchedAtHome
<1> QED
  BY <1>1, <1>2, <1>3 DEF DbInv, DbTypes

(* A tick that has something to dispatch finds the row as it was upgraded, *)
(* and none of it told.                                                    *)
LEMMA TickFinds ==
    ASSUME DbInv, NEW p \in Procs, NEW m \in Monitors, Database!Tick(p, m)
    PROVE  disk.table = "scoped" /\ Untold(m, home[p])
<1> DEFINE key == <<m, home[p]>>
<1>1. home[p] \in Workspaces /\ key \in Database!RowKeys
  BY DEF DbInv, DbTypes, Database!RowKeys
<1>2. disk.rows[key] # Database!Empty
  <2>1. disk.rows[key]["debounce"] \o disk.rows[key]["rollup"] # <<>>
    BY DEF Database!Tick
  <2>2. Database!Empty["debounce"] \o Database!Empty["rollup"] = <<>>
    <3>1. Database!Empty["debounce"] = <<>> /\ Database!Empty["rollup"] = <<>>
      BY DEF Database!Empty, Database!Kinds
    <3>2. <<>> \o <<>> = <<>>
      OBVIOUS
    <3> QED
      BY <3>1, <3>2
  <2> QED
    BY <2>1, <2>2
<1>3. disk.table = "scoped"
  <2>1. ASSUME disk.table = "legacy" PROVE FALSE
    <3>1. disk.rows[key] = Database!Empty
      BY <1>1, <2>1, EmptyRows DEF DbInv, OldHolds
    <3> QED
      BY <1>2, <3>1
  <2> QED
    BY <2>1 DEF DbInv, DbTypes
<1>4. Untold(m, home[p]) \/ AllTold(m, home[p])
  BY <1>1, <1>3 DEF DbInv, NewHolds
<1> QED
  BY <1>2, <1>3, <1>4 DEF AllTold

(* What a tick dispatches: the batches of its row, one after the other.    *)
LEMMA SeqOf ==
    ASSUME NEW T, NEW n \in Nat, NEW f \in [1 .. n -> T]
    PROVE  f \in Seq(T) /\ Len(f) = n
OBVIOUS

Telling(p, m, w, n, out) ==
    /\ w = home[p] /\ n = Len(dispatched)
    /\ n \in Nat /\ out \in Seq(Nat) /\ Len(dispatched') = n + Len(out)
    /\ \A i \in 1 .. n : dispatched'[i] = dispatched[i]
    /\ \A i \in 1 .. Len(out) : dispatched'[n + i].o = out[i] /\ dispatched'[n + i].w = w
    /\ dispatched' \in Seq([o : Observations, w : Workspaces])
    /\ \A i \in 1 .. Len(out) : /\ out[i] \in Observations /\ ~IsTold(out[i])
                                /\ \E k \in Database!Kinds : out[i] \in Found(m, w, k)
    /\ \A i, j \in 1 .. Len(out) : i < j => /\ out[i] # out[j]
                                            /\ origin[out[i]] = origin[out[j]] => out[i] < out[j]
    /\ \A k \in Database!Kinds : \A o \in Found(m, w, k) : \E i \in 1 .. Len(out) : out[i] = o

LEMMA TickTells ==
    ASSUME DbInv, NEW p \in Procs, NEW m \in Monitors, Database!Tick(p, m)
    PROVE  \E w, n, out : Telling(p, m, w, n, out)
<1>0. PICK w, n, out : /\ w = home[p] /\ n = Len(dispatched)
                       /\ out = disk.rows[<<m, w>>]["debounce"] \o disk.rows[<<m, w>>]["rollup"]
  OBVIOUS
<1>1. PICK deb, rol : deb = disk.rows[<<m, w>>]["debounce"] /\ rol = disk.rows[<<m, w>>]["rollup"]
  OBVIOUS
<1>2. Untold(m, w)
  BY <1>0, TickFinds
<1>3. /\ Lists(deb, Found(m, w, "debounce")) /\ \A o \in Found(m, w, "debounce") : ~IsTold(o)
      /\ Lists(rol, Found(m, w, "rollup")) /\ \A o \in Found(m, w, "rollup") : ~IsTold(o)
  BY <1>1, <1>2 DEF Untold, Database!Kinds
<1>4. /\ dispatched' = dispatched \o [i \in DOMAIN out |-> [o |-> out[i], w |-> w]]
      /\ dispatched \in Seq([o : Observations, w : Workspaces]) /\ w \in Workspaces
  BY <1>0 DEF Database!Tick, DbInv, DbTypes
<1>5. deb \in Seq(Nat) /\ rol \in Seq(Nat) /\ Len(deb) \in Nat /\ Len(rol) \in Nat
  BY <1>3 DEF Lists
<1>6. /\ out \in Seq(Nat) /\ Len(out) = Len(deb) + Len(rol) /\ DOMAIN out = 1 .. Len(out)
      /\ \A i \in 1 .. Len(deb) : out[i] = deb[i]
      /\ \A i \in 1 .. Len(rol) : out[Len(deb) + i] = rol[i]
      /\ \A i \in 1 .. Len(out) : i \in 1 .. Len(deb) \/ \E j \in 1 .. Len(rol) : i = Len(deb) + j
  <2>1. out = deb \o rol
    BY <1>0, <1>1
  <2>2. /\ out \in Seq(Nat) /\ Len(out) = Len(deb) + Len(rol) /\ DOMAIN out = 1 .. Len(out)
        /\ Len(deb) \in Nat /\ Len(rol) \in Nat
        /\ \A i \in 1 .. Len(deb) : out[i] = deb[i]
        /\ \A i \in 1 .. Len(rol) : out[Len(deb) + i] = rol[i]
        /\ \A i \in 1 .. Len(out) : i \in 1 .. Len(deb) \/ \E j \in 1 .. Len(rol) : i = Len(deb) + j
    <3> DEFINE N == Nat
    <3>1. deb \in Seq(N) /\ rol \in Seq(N)
      BY <1>5
    <3> HIDE DEF N
    <3>2. /\ out \in Seq(N) /\ Len(out) = Len(deb) + Len(rol) /\ DOMAIN out = 1 .. Len(out)
          /\ \A i \in 1 .. Len(deb) : out[i] = deb[i]
          /\ \A i \in 1 .. Len(rol) : out[Len(deb) + i] = rol[i]
      BY <2>1, <3>1, Concat
    <3>3. ASSUME NEW i \in 1 .. Len(out), i \notin 1 .. Len(deb)
          PROVE  \E j \in 1 .. Len(rol) : i = Len(deb) + j
      <4>1. i - Len(deb) \in 1 .. Len(rol) /\ i = Len(deb) + (i - Len(deb))
        BY <1>5, <3>2, <3>3
      <4> QED
        BY <4>1
    <3> QED
      BY <1>5, <3>2, <3>3 DEF N
  <2> QED
    BY <2>2, Zenon
<1>8. /\ \A i \in 1 .. Len(deb) : deb[i] \in Found(m, w, "debounce")
      /\ \A i \in 1 .. Len(rol) : rol[i] \in Found(m, w, "rollup")
  BY <1>3 DEF Lists
<1>9. /\ \A i \in 1 .. Len(deb) : deb[i] \in Observations /\ origin[deb[i]].k = "debounce"
      /\ \A i \in 1 .. Len(rol) : rol[i] \in Observations /\ origin[rol[i]].k = "rollup"
  BY <1>8 DEF Found
<1>10. \A i \in 1 .. Len(out) : /\ out[i] \in Observations /\ ~IsTold(out[i])
                              /\ \E k \in Database!Kinds : out[i] \in Found(m, w, k)
  <2>1. ASSUME NEW i \in 1 .. Len(deb)
        PROVE  /\ out[i] \in Observations /\ ~IsTold(out[i])
               /\ \E k \in Database!Kinds : out[i] \in Found(m, w, k)
    <3>1. out[i] = deb[i] /\ deb[i] \in Found(m, w, "debounce") /\ deb[i] \in Observations
      BY <1>6, <1>8, <1>9
    <3> QED
      BY <1>3, <3>1 DEF Database!Kinds
  <2>2. ASSUME NEW j \in 1 .. Len(rol)
        PROVE  /\ out[Len(deb) + j] \in Observations /\ ~IsTold(out[Len(deb) + j])
               /\ \E k \in Database!Kinds : out[Len(deb) + j] \in Found(m, w, k)
    <3>1. out[Len(deb) + j] = rol[j] /\ rol[j] \in Found(m, w, "rollup") /\ rol[j] \in Observations
      BY <1>6, <1>8, <1>9
    <3> QED
      BY <1>3, <3>1 DEF Database!Kinds
  <2> QED
    BY <1>6, <2>1, <2>2
<1>11. ASSUME NEW i \in 1 .. Len(out), NEW j \in 1 .. Len(out), i < j
       PROVE  out[i] # out[j] /\ (origin[out[i]] = origin[out[j]] => out[i] < out[j])
  <2>0. /\ \A x, y \in 1 .. Len(deb) : x < y => deb[x] < deb[y]
        /\ \A x, y \in 1 .. Len(rol) : x < y => rol[x] < rol[y]
    BY <1>3 DEF Lists
  <2>1. CASE j \in 1 .. Len(deb)
    <3>1. i \in 1 .. Len(deb)
      BY <1>11, <2>1
    <3>2. deb[i] < deb[j] /\ deb[i] \in Nat /\ deb[j] \in Nat
      BY <1>5, <1>11, <2>0, <2>1, <3>1
    <3>3. out[i] = deb[i] /\ out[j] = deb[j]
      BY <1>6, <2>1, <3>1
    <3> QED
      BY <3>2, <3>3
  <2>2. CASE i \in 1 .. Len(deb) /\ j \notin 1 .. Len(deb)
    <3>1. PICK b \in 1 .. Len(rol) : j = Len(deb) + b
      BY <1>6, <2>2
    <3>2. out[i] = deb[i] /\ out[j] = rol[b]
      BY <1>6, <2>2, <3>1
    <3>3. origin[out[i]].k = "debounce" /\ origin[out[j]].k = "rollup"
      BY <1>9, <2>2, <3>1, <3>2
    <3>4. origin[out[i]] # origin[out[j]]
      BY <3>3
    <3> QED
      BY <3>4
  <2>3. CASE i \notin 1 .. Len(deb)
    <3>1. PICK a \in 1 .. Len(rol) : i = Len(deb) + a
      BY <1>6, <2>3
    <3>2. j \notin 1 .. Len(deb)
      BY <1>5, <1>11, <3>1
    <3>3. PICK b \in 1 .. Len(rol) : j = Len(deb) + b
      BY <1>6, <3>2
    <3>4. a < b
      BY <1>5, <1>11, <3>1, <3>3
    <3>5. rol[a] < rol[b] /\ rol[a] # rol[b]
      <4>1. rol[a] < rol[b] /\ rol[a] \in Nat /\ rol[b] \in Nat
        BY <1>5, <2>0, <3>4
      <4> QED
        BY <4>1
    <3>6. out[i] = rol[a] /\ out[j] = rol[b]
      BY <1>6, <3>1, <3>3
    <3> QED
      BY <3>5, <3>6, Zenon
  <2> QED
    BY <2>1, <2>2, <2>3
<1>12. \A k \in Database!Kinds : \A o \in Found(m, w, k) : \E i \in 1 .. Len(out) : out[i] = o
  <2>1. ASSUME NEW o \in Found(m, w, "debounce") PROVE \E i \in 1 .. Len(out) : out[i] = o
    <3>1. PICK i \in 1 .. Len(deb) : deb[i] = o
      BY <1>3 DEF Lists
    <3>2. i \in 1 .. Len(out)
      BY <1>5, <1>6
    <3> QED
      BY <1>6, <3>1, <3>2
  <2>2. ASSUME NEW o \in Found(m, w, "rollup") PROVE \E i \in 1 .. Len(out) : out[i] = o
    <3>1. PICK i \in 1 .. Len(rol) : rol[i] = o
      BY <1>3 DEF Lists
    <3>2. Len(deb) + i \in 1 .. Len(out)
      BY <1>5, <1>6
    <3> QED
      BY <1>6, <3>1, <3>2
  <2> QED
    BY <2>1, <2>2 DEF Database!Kinds
<1>13. /\ n \in Nat /\ Len(dispatched') = n + Len(out)
       /\ \A i \in 1 .. n : dispatched'[i] = dispatched[i]
       /\ \A i \in 1 .. Len(out) : dispatched'[n + i].o = out[i] /\ dispatched'[n + i].w = w
       /\ dispatched' \in Seq([o : Observations, w : Workspaces])
  <2> DEFINE new == [i \in 1 .. Len(out) |-> [o |-> out[i], w |-> w]]
  <2>1. new \in Seq([o : Observations, w : Workspaces]) /\ Len(new) = Len(out)
        /\ \A i \in 1 .. Len(out) : new[i] = [o |-> out[i], w |-> w]
    <3>1. \A i \in 1 .. Len(out) : [o |-> out[i], w |-> w] \in [o : Observations, w : Workspaces]
      BY <1>4, <1>10
    <3>2. Len(out) \in Nat
      BY <1>6
    <3> DEFINE T == [o : Observations, w : Workspaces]
    <3>3. \A i \in 1 .. Len(out) : new[i] \in T
      BY <3>1
    <3>4. \A i \in 1 .. Len(out) : new[i] = [o |-> out[i], w |-> w]
      OBVIOUS
    <3>5. new = [i \in 1 .. Len(out) |-> new[i]]
      OBVIOUS
    <3> HIDE DEF new, T
    <3>6. new \in Seq(T) /\ Len(new) = Len(out)
      <4>1. new \in [1 .. Len(out) -> T]
        BY <3>3, <3>5
      <4> QED
        BY <3>2, <4>1, SeqOf, Zenon
    <3> QED
      BY <3>4, <3>6 DEF T
  <2>2. dispatched' = dispatched \o new
    BY <1>4, <1>6
  <2> HIDE DEF new
  <2>3. /\ dispatched' \in Seq([o : Observations, w : Workspaces]) /\ n \in Nat
        /\ Len(dispatched') = n + Len(new)
        /\ \A i \in 1 .. n : dispatched'[i] = dispatched[i]
        /\ \A i \in 1 .. Len(new) : dispatched'[n + i] = new[i]
    <3> DEFINE T == [o : Observations, w : Workspaces]
    <3> HIDE DEF T
    <3>1. dispatched \in Seq(T) /\ new \in Seq(T)
      BY <1>4, <2>1 DEF T
    <3>2. dispatched' \in Seq(T) /\ n \in Nat /\ Len(dispatched') = n + Len(new)
          /\ (\A i \in 1 .. n : dispatched'[i] = dispatched[i])
          /\ \A i \in 1 .. Len(new) : dispatched'[n + i] = new[i]
      BY <1>0, <2>2, <3>1, Concat
    <3> QED
      BY <3>2 DEF T
  <2>4. \A i \in 1 .. Len(out) : dispatched'[n + i] = [o |-> out[i], w |-> w]
    BY <2>1, <2>3
  <2>5. \A i \in 1 .. Len(out) : dispatched'[n + i].o = out[i] /\ dispatched'[n + i].w = w
    <3> TAKE i \in 1 .. Len(out)
    <3> DEFINE it == dispatched'[n + i]
    <3>1. it = [o |-> out[i], w |-> w]
      BY <2>4
    <3> HIDE DEF it
    <3>2. it.o = out[i] /\ it.w = w
      BY <3>1
    <3> QED
      BY <3>2 DEF it
  <2> QED
    BY <2>1, <2>3, <2>5
<1>14. \A i, j \in 1 .. Len(out) :
         i < j => /\ out[i] # out[j]
                  /\ origin[out[i]] = origin[out[j]] => out[i] < out[j]
  BY <1>11
<1>15. w = home[p] /\ n = Len(dispatched) /\ out \in Seq(Nat)
  BY <1>0, <1>6
<1>16. Telling(p, m, w, n, out)
  BY <1>10, <1>12, <1>13, <1>14, <1>15, Zenon DEF Telling
<1> QED
  BY <1>16

LEMMA TickKeeps ==
    ASSUME DbInv, NEW p \in Procs, NEW m \in Monitors, Database!Tick(p, m)
    PROVE  /\ OldHolds' /\ NewHolds' /\ ToldOnce' /\ Database!DispatchedAtHome'
           /\ dispatched' \in Seq([o : Observations, w : Workspaces])
           /\ disk'.table \in {"legacy", "scoped"} /\ disk'.rows \in Batched
           /\ disk' = [table |-> disk'.table, old |-> disk'.old, rows |-> disk'.rows]
<1>0. PICK w, n, out : Telling(p, m, w, n, out)
  BY TickTells
<1>1. /\ w = home[p] /\ n = Len(dispatched)
      /\ n \in Nat /\ out \in Seq(Nat) /\ Len(dispatched') = n + Len(out)
      /\ \A i \in 1 .. n : dispatched'[i] = dispatched[i]
      /\ \A i \in 1 .. Len(out) : dispatched'[n + i].o = out[i] /\ dispatched'[n + i].w = w
      /\ dispatched' \in Seq([o : Observations, w : Workspaces])
      /\ \A i \in 1 .. Len(out) : /\ out[i] \in Observations /\ ~IsTold(out[i])
                                  /\ \E k \in Database!Kinds : out[i] \in Found(m, w, k)
      /\ \A i, j \in 1 .. Len(out) : i < j => /\ out[i] # out[j]
                                              /\ origin[out[i]] = origin[out[j]] => out[i] < out[j]
      /\ \A k \in Database!Kinds : \A o \in Found(m, w, k) : \E i \in 1 .. Len(out) : out[i] = o
  BY <1>0 DEF Telling
<1>2. disk.table = "scoped" /\ Untold(m, w)
  BY <1>1, TickFinds
<1>3. /\ disk' = [disk EXCEPT !.rows[<<m, w>>] = Database!Empty]
      /\ home' = home /\ origin' = origin
  BY <1>1 DEF Database!Tick, Database!givens
<1>4. disk = [table |-> disk.table, old |-> disk.old, rows |-> disk.rows] /\ disk.rows \in Batched
      /\ w \in Workspaces /\ origin \in [Observations -> Origins]
  BY <1>1 DEF DbInv, DbTypes
<1>5. /\ disk'.table = "scoped" /\ disk'.rows = [disk.rows EXCEPT ![<<m, w>>] = Database!Empty]
      /\ disk' = [table |-> disk'.table, old |-> disk'.old, rows |-> disk'.rows]
  <2>1. disk' = [disk EXCEPT !.rows = [disk.rows EXCEPT ![<<m, w>>] = Database!Empty]]
    BY <1>3
  <2> DEFINE rs == [disk.rows EXCEPT ![<<m, w>>] = Database!Empty]
  <2> HIDE DEF rs
  <2>2. disk' = [table |-> disk.table, old |-> disk.old, rows |-> rs]
    <3>1. disk' = [disk EXCEPT !.rows = rs]
      BY <2>1 DEF rs
    <3> QED
      BY <1>4, <3>1
  <2> QED
    BY <1>2, <2>2 DEF rs
<1>6. disk'.rows \in Batched /\ disk'.rows[<<m, w>>] = Database!Empty
      /\ \A key \in Database!RowKeys : key # <<m, w>> => disk'.rows[key] = disk.rows[key]
  <2>1. <<m, w>> \in Database!RowKeys
    BY <1>4 DEF Database!RowKeys
  <2> QED
    BY <1>4, <1>5, <2>1, EmptyRows DEF Batched
<1>7. ToldOnce /\ Database!DispatchedAtHome /\ NewHolds /\ dispatched \in Seq([o : Observations, w : Workspaces])
  BY DEF DbInv, DbTypes
<1>8. Len(out) \in Nat /\ \A i \in 1 .. Len(dispatched') : i \in 1 .. n \/ \E j \in 1 .. Len(out) : i = n + j
  <2>1. Len(out) \in Nat
    BY <1>1
  <2>2. ASSUME NEW i \in 1 .. Len(dispatched'), i \notin 1 .. n PROVE i - n \in 1 .. Len(out) /\ i = n + (i - n)
    BY <1>1, <2>1, <2>2
  <2> QED
    BY <2>1, <2>2
<1>9. \A i \in 1 .. n : IsTold(dispatched[i].o)
  BY <1>1 DEF IsTold
<1>10. \A i \in 1 .. Len(out) : origin[out[i]].w = w /\ origin[out[i]].m = m
  <2> TAKE i \in 1 .. Len(out)
  <2>1. PICK k \in Database!Kinds : out[i] \in Found(m, w, k)
    BY <1>1
  <2> QED
    BY <2>1 DEF Found
<1>11. ToldOnce'
  <2>1. \A i, j \in 1 .. n : dispatched[i].o = dispatched[j].o => i = j
    BY <1>1, <1>7 DEF ToldOnce
  <2>2. \A i, j \in 1 .. Len(out) : out[i] = out[j] => i = j
    <3>1. \A i, j \in 1 .. Len(out) : i < j \/ j < i \/ i = j
      BY <1>8
    <3> QED
      BY <1>1, <3>1
  <2>3. ASSUME NEW i \in 1 .. Len(dispatched'), NEW j \in 1 .. Len(dispatched'),
               dispatched'[i].o = dispatched'[j].o
        PROVE  i = j
    <3>1. CASE i \in 1 .. n /\ j \in 1 .. n
      BY <1>1, <2>1, <2>3, <3>1
    <3>2. CASE i \in 1 .. n /\ j \notin 1 .. n
      <4>1. PICK b \in 1 .. Len(out) : j = n + b
        BY <1>8, <3>2
      <4>2. dispatched'[i] = dispatched[i] /\ dispatched'[j].o = out[b]
        BY <1>1, <3>2, <4>1
      <4> QED
        BY <1>1, <1>9, <2>3, <3>2, <4>2
    <3>3. CASE i \notin 1 .. n /\ j \in 1 .. n
      <4>1. PICK a \in 1 .. Len(out) : i = n + a
        BY <1>8, <3>3
      <4>2. dispatched'[j] = dispatched[j] /\ dispatched'[i].o = out[a]
        BY <1>1, <3>3, <4>1
      <4> QED
        BY <1>1, <1>9, <2>3, <3>3, <4>2
    <3>4. CASE i \notin 1 .. n /\ j \notin 1 .. n
      <4>1. PICK a \in 1 .. Len(out) : i = n + a
        BY <1>8, <3>4
      <4>2. PICK b \in 1 .. Len(out) : j = n + b
        BY <1>8, <3>4
      <4>3. dispatched'[i].o = out[a] /\ dispatched'[j].o = out[b]
        BY <1>1, <4>1, <4>2
      <4> QED
        BY <2>2, <2>3, <4>1, <4>2, <4>3
    <3> QED
      BY <3>1, <3>2, <3>3, <3>4
  <2> QED
    BY <2>3 DEF ToldOnce
<1>12. Database!DispatchedAtHome'
  <2>0. DOMAIN dispatched' = 1 .. Len(dispatched') /\ DOMAIN dispatched = 1 .. n
    <3> DEFINE T == [o : Observations, w : Workspaces]
    <3>1. dispatched' \in Seq(T) /\ dispatched \in Seq(T)
      BY <1>1, <1>7
    <3> HIDE DEF T
    <3> QED
      BY <1>1, <3>1
  <2>1. ASSUME NEW i \in 1 .. Len(dispatched') PROVE dispatched'[i].w = origin[dispatched'[i].o].w
    <3>1. CASE i \in 1 .. n
      BY <1>1, <1>7, <2>0, <3>1 DEF Database!DispatchedAtHome
    <3>2. CASE i \notin 1 .. n
      <4>1. PICK a \in 1 .. Len(out) : i = n + a
        BY <1>8, <3>2
      <4>2. dispatched'[i].o = out[a] /\ dispatched'[i].w = w
        BY <1>1, <4>1
      <4> QED
        BY <1>10, <4>2
    <3> QED
      BY <3>1, <3>2
  <2>2. ASSUME NEW i \in 1 .. Len(dispatched'), NEW j \in 1 .. Len(dispatched'), i < j,
               origin[dispatched'[i].o] = origin[dispatched'[j].o]
        PROVE  dispatched'[i].o < dispatched'[j].o
    <3>1. CASE j \in 1 .. n
      <4>1. i \in 1 .. n
        BY <1>1, <2>2, <3>1
      <4>2. dispatched'[i] = dispatched[i] /\ dispatched'[j] = dispatched[j]
        BY <1>1, <3>1, <4>1
      <4> QED
        BY <1>7, <2>0, <2>2, <3>1, <4>1, <4>2 DEF Database!DispatchedAtHome
    <3>2. CASE i \in 1 .. n /\ j \notin 1 .. n
      <4>1. PICK b \in 1 .. Len(out) : j = n + b
        BY <1>8, <3>2
      <4>2. dispatched'[i] = dispatched[i] /\ dispatched'[j].o = out[b]
        BY <1>1, <3>2, <4>1
      <4>3. PICK k \in Database!Kinds : out[b] \in Found(m, w, k)
        BY <1>1
      <4>4. dispatched[i].o \in Observations
        <5> DEFINE T == [o : Observations, w : Workspaces]
        <5>1. dispatched[i] \in T
          <6> HIDE DEF T
          <6>1. dispatched \in Seq(T) /\ i \in 1 .. Len(dispatched)
            BY <1>1, <1>7, <3>2 DEF T
          <6> QED
            BY <6>1
        <5> QED
          BY <5>1
      <4>5. dispatched[i].o \in Found(m, w, k)
        BY <2>2, <4>2, <4>3, <4>4 DEF Found
      <4>6. ~IsTold(dispatched[i].o)
        BY <1>2, <4>5 DEF Untold
      <4> QED
        BY <1>9, <3>2, <4>6
    <3>3. CASE i \notin 1 .. n
      <4>1. PICK a \in 1 .. Len(out) : i = n + a
        BY <1>8, <3>3
      <4>2. j \notin 1 .. n
        BY <1>1, <2>2, <4>1
      <4>3. PICK b \in 1 .. Len(out) : j = n + b
        BY <1>8, <4>2
      <4>4. a < b
        BY <1>1, <1>8, <2>2, <4>1, <4>3
      <4>5. dispatched'[i].o = out[a] /\ dispatched'[j].o = out[b]
        BY <1>1, <4>1, <4>3
      <4> QED
        BY <1>1, <2>2, <4>4, <4>5
    <3> QED
      BY <3>1, <3>2, <3>3
  <2> QED
    BY <1>3, <2>0, <2>1, <2>2 DEF Database!DispatchedAtHome
<1>13. \A o : IsTold(o)' <=> IsTold(o) \/ \E i \in 1 .. Len(out) : out[i] = o
  <2> TAKE o
  <2>1. ASSUME IsTold(o)' PROVE IsTold(o) \/ \E i \in 1 .. Len(out) : out[i] = o
    <3>1. PICK i \in 1 .. Len(dispatched') : dispatched'[i].o = o
      BY <2>1 DEF IsTold
    <3>2. CASE i \in 1 .. n
      BY <1>1, <3>1, <3>2 DEF IsTold
    <3>3. CASE i \notin 1 .. n
      <4>1. PICK a \in 1 .. Len(out) : i = n + a
        BY <1>8, <3>3
      <4> QED
        BY <1>1, <3>1, <4>1
    <3> QED
      BY <3>2, <3>3
  <2>2. ASSUME IsTold(o) PROVE IsTold(o)'
    <3>1. PICK i \in 1 .. n : dispatched[i].o = o
      BY <1>1, <2>2 DEF IsTold
    <3>2. i \in 1 .. Len(dispatched') /\ dispatched'[i].o = o
      BY <1>1, <1>8, <3>1
    <3> QED
      BY <3>2 DEF IsTold
  <2>3. ASSUME NEW i \in 1 .. Len(out), out[i] = o PROVE IsTold(o)'
    <3>1. n + i \in 1 .. Len(dispatched') /\ dispatched'[n + i].o = o
      BY <1>1, <1>8, <2>3
    <3> QED
      BY <3>1 DEF IsTold
  <2> QED
    BY <2>1, <2>2, <2>3
<1>14. NewHolds'
  <2>1. \A c, u, k : Found(c, u, k)' = Found(c, u, k)
    BY <1>3 DEF Found
  <2>2. ASSUME NEW c \in Monitors, NEW u \in Workspaces PROVE Untold(c, u)' \/ AllTold(c, u)'
    <3>1. CASE c = m /\ u = w
      <4>1. \A k \in Database!Kinds : \A o \in Found(m, w, k) : IsTold(o)'
        BY <1>1, <1>13
      <4>2. AllTold(m, w)'
        <5>1. disk'.rows[<<m, w>>] = Database!Empty
          BY <1>6
        <5>2. \A k \in Database!Kinds : \A o \in Found(m, w, k)' : IsTold(o)'
          BY <2>1, <4>1
        <5> QED
          BY <5>1, <5>2 DEF AllTold, Database!Empty, Database!Kinds
      <4> QED
        BY <3>1, <4>2
    <3>2. CASE c # m \/ u # w
      <4>1. <<c, u>> \in Database!RowKeys /\ <<c, u>> # <<m, w>>
        BY <3>2 DEF Database!RowKeys
      <4>2. disk'.rows[<<c, u>>] = disk.rows[<<c, u>>]
        BY <1>6, <4>1
      <4>3. \A k \in Database!Kinds : \A o \in Found(c, u, k) : IsTold(o)' <=> IsTold(o)
        <5>1. \A k : \A o \in Found(c, u, k) : ~\E i \in 1 .. Len(out) : out[i] = o
          BY <1>10, <3>2 DEF Found
        <5> QED
          BY <1>13, <5>1
      <4>4. Untold(c, u) \/ AllTold(c, u)
        BY <1>2, <1>7 DEF NewHolds
      <4>5. CASE Untold(c, u)
        <5>1. Untold(c, u)'
          BY <2>1, <4>2, <4>3, <4>5 DEF Untold, Database!Kinds
        <5> QED
          BY <5>1
      <4>6. CASE AllTold(c, u)
        <5>1. AllTold(c, u)'
          BY <2>1, <4>2, <4>3, <4>6 DEF AllTold, Database!Empty, Database!Kinds
        <5> QED
          BY <5>1
      <4> QED
        BY <4>4, <4>5, <4>6
    <3> QED
      BY <3>1, <3>2
  <2> QED
    BY <2>2 DEF NewHolds
<1>15. OldHolds'
  BY <1>5 DEF OldHolds
<1> QED
  BY <1>1, <1>5, <1>6, <1>11, <1>12, <1>14, <1>15

(* A process that leaves the others where they were.                       *)
LEMMA GotoKeeps ==
    ASSUME DbInv, NEW p \in Procs, NEW l \in Places, Database!Goto(p, l)
    PROVE  /\ place' \in [Procs -> Places] /\ place'[p] = l
           /\ \A q \in Procs \ {p} : place'[q] = place[q]
<1>1. place' = [place EXCEPT ![p] = l] /\ place \in [Procs -> Places]
  BY DEF Database!Goto, DbInv, DbTypes
<1> QED
  BY <1>1

LEMMA DatabaseStep ==
    ASSUME DbInv, Database!Next
    PROVE  DbInv'
<1>1. PICK p \in Procs :
         \/ Database!Begin(p) \/ Database!ReadRows(p) \/ Database!DropTable(p)
         \/ Database!CreateTable(p) \/ Database!Reinsert(p) \/ Database!Commit(p)
         \/ Database!BusyFails(p) \/ Database!Dies(p) \/ Database!Restarts(p)
         \/ \E m \in Monitors : Database!Tick(p, m)
  BY DEF Database!Next
<1>2. /\ place \in [Procs -> Places] /\ holder \in Procs \cup {"none"} /\ "none" \notin Procs
      /\ work = [table |-> work.table, old |-> work.old, rows |-> work.rows] /\ work.rows \in Batched
      /\ legacy = [q \in Procs |-> legacy[q]]
  BY DatabaseAssumption DEF DbInv, DbTypes
<1>3. /\ \A q \in Procs : place[q] \in {"rows", "drop", "create", "insert", "commit"} <=> holder = q
      /\ \A q \in Procs : place[q] = "rows" => work = disk
      /\ \A q \in Procs : place[q] \in {"drop", "create", "insert"} => disk.table = "legacy" /\ legacy[q] = disk.old
      /\ \A q \in Procs : place[q] = "insert" => work.table = "scoped"
      /\ \A q \in Procs : place[q] = "commit" =>
            \/ work = disk /\ disk.table = "scoped"
            \/ disk.table = "legacy" /\ work.table = "scoped" /\ Upgraded(work.rows)
  BY DEF DbInv, Upgrading
<1>4. \A rs : origin' = origin => Upgraded(rs) = \A m \in Monitors, w \in Workspaces, k \in Database!Kinds :
                                                    Lists(rs[<<m, w>>][k], Found(m, w, k)')
  <2>1. \A m, w, k : origin' = origin => Found(m, w, k)' = Found(m, w, k)
    BY DEF Found
  <2> QED
    BY <2>1 DEF Upgraded
<1>5. origin' = origin => (work' = work => Upgraded(work.rows)' = Upgraded(work.rows))
  BY <1>4 DEF Upgraded, Database!Kinds
<1>6. CASE Database!Begin(p)
  <2>1. /\ place[p] = "start" /\ holder = "none" /\ holder' = p /\ work' = disk /\ Database!Goto(p, "rows")
        /\ UNCHANGED <<disk, legacy, home, origin, dispatched>>
    BY <1>6 DEF Database!Begin, Database!givens
  <2>2. /\ place' \in [Procs -> Places] /\ place'[p] = "rows"
        /\ \A q \in Procs \ {p} : place'[q] = place[q]
    BY <2>1, GotoKeeps DEF Places
  <2>3. \A q \in Procs : place[q] \notin {"rows", "drop", "create", "insert", "commit"}
    BY <1>2, <1>3, <2>1
  <2>4. Upgrading'
    <3>1. \A q \in Procs : place'[q] \in {"rows", "drop", "create", "insert", "commit"} <=> holder' = q
      BY <2>1, <2>2, <2>3
    <3>2. \A q \in Procs : place'[q] = "rows" => work' = disk'
      BY <2>1
    <3>3. \A q \in Procs : place'[q] \notin {"drop", "create", "insert", "commit"}
      BY <2>2, <2>3
    <3> QED
      BY <3>1, <3>2, <3>3 DEF Upgrading
  <2>5. /\ work' = [table |-> work'.table, old |-> work'.old, rows |-> work'.rows] /\ work'.rows \in Batched
        /\ legacy' = [q \in Procs |-> legacy'[q]]
    BY <1>2, <2>1 DEF DbInv, DbTypes
  <2> QED
    BY <2>1, <2>2, <2>4, <2>5, DiskStays DEF DbInv, DbTypes
<1>7. CASE Database!ReadRows(p)
  <2>1. /\ place[p] = "rows" /\ holder = p /\ work = disk
        /\ UNCHANGED <<disk, work, holder, home, origin, dispatched>>
    BY <1>3, <1>7 DEF Database!ReadRows, Database!givens
  <2>2. CASE work.table = "legacy"
    <3>1. legacy' = [legacy EXCEPT ![p] = work.old] /\ Database!Goto(p, "drop")
      BY <1>7, <2>2 DEF Database!ReadRows
    <3>2. /\ place' \in [Procs -> Places] /\ place'[p] = "drop"
          /\ \A q \in Procs \ {p} : place'[q] = place[q]
      BY <3>1, GotoKeeps DEF Places
    <3>3. legacy' = [q \in Procs |-> legacy'[q]] /\ legacy'[p] = disk.old
      BY <1>2, <2>1, <3>1
    <3>4. \A q \in Procs \ {p} : place[q] \notin {"rows", "drop", "create", "insert", "commit"}
      BY <1>3, <2>1
    <3>5. Upgrading'
      <4>1. \A q \in Procs : place'[q] \in {"rows", "drop", "create", "insert", "commit"} <=> holder' = q
        BY <2>1, <3>2, <3>4
      <4>2. \A q \in Procs : place'[q] \notin {"rows", "insert", "commit"}
        BY <3>2, <3>4
      <4>3. \A q \in Procs : place'[q] \in {"drop", "create", "insert"} => disk'.table = "legacy" /\ legacy'[q] = disk'.old
        BY <2>1, <2>2, <3>2, <3>3, <3>4
      <4> QED
        BY <4>1, <4>2, <4>3 DEF Upgrading
    <3> QED
      BY <1>2, <2>1, <3>2, <3>3, <3>5, DiskStays DEF DbInv, DbTypes
  <2>3. CASE work.table # "legacy"
    <3>1. legacy' = legacy /\ Database!Goto(p, "commit")
      BY <1>7, <2>3 DEF Database!ReadRows
    <3>2. /\ place' \in [Procs -> Places] /\ place'[p] = "commit"
          /\ \A q \in Procs \ {p} : place'[q] = place[q]
      BY <3>1, GotoKeeps DEF Places
    <3>3. disk.table = "scoped"
      BY <2>1, <2>3 DEF DbInv, DbTypes
    <3>4. \A q \in Procs \ {p} : place[q] \notin {"rows", "drop", "create", "insert", "commit"}
      BY <1>3, <2>1
    <3>5. Upgrading'
      <4>1. \A q \in Procs : place'[q] \in {"rows", "drop", "create", "insert", "commit"} <=> holder' = q
        BY <2>1, <3>2, <3>4
      <4>2. \A q \in Procs : place'[q] \notin {"rows", "drop", "create", "insert"}
        BY <3>2, <3>4
      <4>3. work' = disk' /\ disk'.table = "scoped"
        BY <2>1, <3>3
      <4> QED
        BY <4>1, <4>2, <4>3 DEF Upgrading
    <3> QED
      BY <1>2, <2>1, <3>1, <3>2, <3>5, DiskStays DEF DbInv, DbTypes
  <2> QED
    BY <2>2, <2>3
<1>8. CASE Database!DropTable(p)
  <2>1. /\ place[p] = "drop" /\ holder = p /\ work' = [work EXCEPT !.table = "missing"] /\ Database!Goto(p, "create")
        /\ UNCHANGED <<disk, holder, legacy, home, origin, dispatched>>
    BY <1>3, <1>8 DEF Database!DropTable, Database!givens
  <2>2. /\ place' \in [Procs -> Places] /\ place'[p] = "create"
        /\ \A q \in Procs \ {p} : place'[q] = place[q]
    BY <2>1, GotoKeeps DEF Places
  <2>3. \A q \in Procs \ {p} : place[q] \notin {"rows", "drop", "create", "insert", "commit"}
    BY <1>3, <2>1
  <2>4. Upgrading'
    <3>1. \A q \in Procs : place'[q] \in {"rows", "drop", "create", "insert", "commit"} <=> holder' = q
      BY <2>1, <2>2, <2>3
    <3>2. \A q \in Procs : place'[q] \notin {"rows", "insert", "commit"}
      BY <2>2, <2>3
    <3>3. \A q \in Procs : place'[q] \in {"drop", "create", "insert"} => disk'.table = "legacy" /\ legacy'[q] = disk'.old
      BY <1>3, <2>1, <2>2, <2>3
    <3> QED
      BY <3>1, <3>2, <3>3 DEF Upgrading
  <2>5. work' = [table |-> work'.table, old |-> work'.old, rows |-> work'.rows] /\ work'.rows \in Batched
    BY <1>2, <2>1
  <2> QED
    BY <1>2, <2>1, <2>2, <2>4, <2>5, DiskStays DEF DbInv, DbTypes
<1>9. CASE Database!CreateTable(p)
  <2>1. /\ place[p] = "create" /\ holder = p /\ Database!Goto(p, "insert")
        /\ work' = [work EXCEPT !.table = "scoped", !.rows = Database!ScopedEmpty]
        /\ UNCHANGED <<disk, holder, legacy, home, origin, dispatched>>
    BY <1>3, <1>9 DEF Database!CreateTable, Database!givens
  <2>2. /\ place' \in [Procs -> Places] /\ place'[p] = "insert"
        /\ \A q \in Procs \ {p} : place'[q] = place[q]
    BY <2>1, GotoKeeps DEF Places
  <2>3. \A q \in Procs \ {p} : place[q] \notin {"rows", "drop", "create", "insert", "commit"}
    BY <1>3, <2>1
  <2>4. /\ work' = [table |-> work'.table, old |-> work'.old, rows |-> work'.rows]
        /\ work'.rows \in Batched /\ work'.table = "scoped"
    BY <1>2, <2>1, EmptyRows
  <2>5. Upgrading'
    <3>1. \A q \in Procs : place'[q] \in {"rows", "drop", "create", "insert", "commit"} <=> holder' = q
      BY <2>1, <2>2, <2>3
    <3>2. \A q \in Procs : place'[q] \notin {"rows", "commit"}
      BY <2>2, <2>3
    <3>3. \A q \in Procs : place'[q] \in {"drop", "create", "insert"} => disk'.table = "legacy" /\ legacy'[q] = disk'.old
      BY <1>3, <2>1, <2>2, <2>3
    <3> QED
      BY <2>4, <3>1, <3>2, <3>3 DEF Upgrading
  <2> QED
    BY <1>2, <2>1, <2>2, <2>4, <2>5, DiskStays DEF DbInv, DbTypes
<1>10. CASE Database!Reinsert(p)
  <2> DEFINE rs == [key \in Database!RowKeys |-> Database!Partition(legacy[p][key[1]], key[2])]
  <2>1. /\ place[p] = "insert" /\ holder = p /\ Database!Goto(p, "commit")
        /\ work' = [work EXCEPT !.rows = rs] /\ legacy' = [legacy EXCEPT ![p] = <<>>]
        /\ UNCHANGED <<disk, holder, home, origin, dispatched>>
    BY <1>3, <1>10 DEF Database!Reinsert, Database!givens
  <2>2. /\ place' \in [Procs -> Places] /\ place'[p] = "commit"
        /\ \A q \in Procs \ {p} : place'[q] = place[q]
    BY <2>1, GotoKeeps DEF Places
  <2>3. \A q \in Procs \ {p} : place[q] \notin {"rows", "drop", "create", "insert", "commit"}
    BY <1>3, <2>1
  <2>4. disk.table = "legacy" /\ legacy[p] = disk.old /\ work.table = "scoped"
    BY <1>3, <2>1
  <2>5. rs \in Batched /\ Upgraded(rs)
    <3>1. \A m \in Monitors, k \in Database!Kinds : Lists(legacy[p][m][k], FoundBy(m, k))
      BY <2>4 DEF DbInv, OldHolds
    <3>2. origin \in [Observations -> Origins]
      BY DEF DbInv, DbTypes
    <3> QED
      BY <3>1, <3>2, PartsOfRows
  <2> HIDE DEF rs
  <2>6. /\ work' = [table |-> work'.table, old |-> work'.old, rows |-> work'.rows]
        /\ work'.rows = rs /\ work'.table = "scoped" /\ legacy' = [q \in Procs |-> legacy'[q]]
    BY <1>2, <2>1, <2>4
  <2>7. Upgraded(work.rows)'
    BY <1>4, <2>1, <2>5, <2>6 DEF Upgraded, Database!Kinds
  <2>8. Upgrading'
    <3>1. \A q \in Procs : place'[q] \in {"rows", "drop", "create", "insert", "commit"} <=> holder' = q
      BY <2>1, <2>2, <2>3
    <3>2. \A q \in Procs : place'[q] \notin {"rows", "drop", "create", "insert"}
      BY <2>2, <2>3
    <3> QED
      BY <2>1, <2>4, <2>6, <2>7, <3>1, <3>2 DEF Upgrading
  <2> QED
    BY <1>2, <2>1, <2>2, <2>5, <2>6, <2>8, DiskStays DEF DbInv, DbTypes
<1>11. CASE Database!Commit(p)
  <2>1. /\ place[p] = "commit" /\ holder = p /\ disk' = work /\ holder' = "none" /\ Database!Goto(p, "ready")
        /\ UNCHANGED <<work, legacy, home, origin, dispatched>>
    BY <1>3, <1>11 DEF Database!Commit, Database!givens
  <2>2. /\ place' \in [Procs -> Places] /\ place'[p] = "ready"
        /\ \A q \in Procs \ {p} : place'[q] = place[q]
    BY <2>1, GotoKeeps DEF Places
  <2>3. \A q \in Procs \ {p} : place[q] \notin {"rows", "drop", "create", "insert", "commit"}
    BY <1>3, <2>1
  <2>4. Upgrading'
    <3>1. \A q \in Procs : place'[q] \notin {"rows", "drop", "create", "insert", "commit"} /\ holder' # q
      BY <1>2, <2>1, <2>2, <2>3
    <3> QED
      BY <3>1 DEF Upgrading
  <2>5. CASE work = disk
    <3>1. disk' = disk
      BY <2>1, <2>5
    <3> QED
      BY <1>2, <2>1, <2>2, <2>4, <3>1, DiskStays DEF DbInv, DbTypes
  <2>6. CASE disk.table = "legacy" /\ work.table = "scoped" /\ Upgraded(work.rows)
    <3>1. dispatched = <<>> /\ Len(dispatched) = 0
      BY <2>6 DEF DbInv, OldHolds
    <3>2. \A o : ~IsTold(o)'
      BY <2>1, <3>1 DEF IsTold
    <3>3. NewHolds'
      <4>1. \A m \in Monitors, w \in Workspaces, k \in Database!Kinds :
               Lists(disk'.rows[<<m, w>>][k], Found(m, w, k)')
        BY <1>4, <2>1, <2>6
      <4>2. \A m \in Monitors, w \in Workspaces : Untold(m, w)'
        BY <3>2, <4>1 DEF Untold, Database!Kinds
      <4> QED
        BY <4>2 DEF NewHolds
    <3>4. OldHolds'
      BY <2>1, <2>6 DEF OldHolds
    <3>5. ToldOnce' /\ Database!DispatchedAtHome'
      BY <2>1, <3>1 DEF DbInv, ToldOnce, Database!DispatchedAtHome
    <3>6. DbTypes'
      BY <1>2, <2>1, <2>2, <2>6 DEF DbInv, DbTypes
    <3> QED
      BY <2>4, <3>3, <3>4, <3>5, <3>6 DEF DbInv
  <2> QED
    BY <1>3, <2>1, <2>5, <2>6
<1>12. CASE Database!BusyFails(p)
  <2>1. /\ place[p] = "start" /\ Database!Goto(p, "down")
        /\ UNCHANGED <<disk, work, holder, legacy, home, origin, dispatched>>
    BY <1>12 DEF Database!BusyFails, Database!givens
  <2>2. /\ place' \in [Procs -> Places] /\ place'[p] = "down"
        /\ \A q \in Procs \ {p} : place'[q] = place[q]
    BY <2>1, GotoKeeps DEF Places
  <2>3. Upgrading'
    BY <1>3, <1>5, <2>1, <2>2 DEF Upgrading
  <2> QED
    BY <1>2, <2>1, <2>2, <2>3, DiskStays DEF DbInv, DbTypes
<1>13. CASE Database!Dies(p)
  <2>1. /\ Database!Goto(p, "down") /\ holder' = (IF holder = p THEN "none" ELSE holder)
        /\ legacy' = [legacy EXCEPT ![p] = <<>>]
        /\ UNCHANGED <<disk, work, home, origin, dispatched>>
    BY <1>13 DEF Database!Dies, Database!givens
  <2>2. /\ place' \in [Procs -> Places] /\ place'[p] = "down"
        /\ \A q \in Procs \ {p} : place'[q] = place[q]
    BY <2>1, GotoKeeps DEF Places
  <2>3. legacy' = [q \in Procs |-> legacy'[q]] /\ \A q \in Procs \ {p} : legacy'[q] = legacy[q]
    BY <1>2, <2>1
  <2>4. \A q \in Procs \ {p} : holder' = q <=> holder = q
    BY <1>2, <2>1
  <2>5. Upgrading'
    <3>1. \A q \in Procs : place'[q] \in {"rows", "drop", "create", "insert", "commit"} <=> holder' = q
      <4>1. holder' # p
        BY <1>2, <2>1
      <4> QED
        BY <1>3, <2>2, <2>4, <4>1
    <3> QED
      BY <1>3, <1>5, <2>1, <2>2, <2>3, <3>1 DEF Upgrading
  <2>6. holder' \in Procs \cup {"none"}
    BY <1>2, <2>1
  <2> QED
    BY <1>2, <2>1, <2>2, <2>3, <2>5, <2>6, DiskStays DEF DbInv, DbTypes
<1>14. CASE Database!Restarts(p)
  <2>1. /\ place[p] = "down" /\ Database!Goto(p, "start")
        /\ UNCHANGED <<disk, work, holder, legacy, home, origin, dispatched>>
    BY <1>14 DEF Database!Restarts, Database!givens
  <2>2. /\ place' \in [Procs -> Places] /\ place'[p] = "start"
        /\ \A q \in Procs \ {p} : place'[q] = place[q]
    BY <2>1, GotoKeeps DEF Places
  <2>3. Upgrading'
    BY <1>3, <1>5, <2>1, <2>2 DEF Upgrading
  <2> QED
    BY <1>2, <2>1, <2>2, <2>3, DiskStays DEF DbInv, DbTypes
<1>15. CASE \E m \in Monitors : Database!Tick(p, m)
  <2>1. PICK m \in Monitors : Database!Tick(p, m)
    BY <1>15
  <2>2. holder = "none" /\ UNCHANGED <<work, holder, place, legacy, home, origin>>
    BY <2>1 DEF Database!Tick, Database!givens
  <2>3. /\ OldHolds' /\ NewHolds' /\ ToldOnce' /\ Database!DispatchedAtHome'
        /\ dispatched' \in Seq([o : Observations, w : Workspaces])
        /\ disk'.table \in {"legacy", "scoped"} /\ disk'.rows \in Batched
        /\ disk' = [table |-> disk'.table, old |-> disk'.old, rows |-> disk'.rows]
    BY <2>1, TickKeeps
  <2>4. \A q \in Procs : place[q] \notin {"rows", "drop", "create", "insert", "commit"}
    BY <1>2, <1>3, <2>2
  <2>5. Upgrading'
    BY <1>2, <2>2, <2>4 DEF Upgrading
  <2> QED
    BY <1>2, <2>2, <2>3, <2>5 DEF DbInv, DbTypes
<1> QED
  BY <1>1, <1>6, <1>7, <1>8, <1>9, <1>10, <1>11, <1>12, <1>13, <1>14, <1>15

LEMMA DatabaseInit ==
    ASSUME Database!Init
    PROVE  DbInv
<1>1. /\ home \in [Procs -> Workspaces] /\ origin \in [Observations -> Origins]
      /\ disk = [table |-> "legacy",
                 old |-> [m \in Monitors |-> [k \in Database!Kinds |-> Database!Held(m, k)]],
                 rows |-> Database!ScopedEmpty]
      /\ work = disk /\ holder = "none" /\ place = [p \in Procs |-> "start"]
      /\ legacy = [p \in Procs |-> <<>>] /\ dispatched = <<>>
  BY DEF Database!Init, Origins
<1>2. \A m \in Monitors, k \in Database!Kinds : Lists(disk.old[m][k], FoundBy(m, k))
  BY <1>1, OldRows
<1>3. dispatched \in Seq([o : Observations, w : Workspaces]) /\ Len(dispatched) = 0 /\ DOMAIN dispatched = {}
  BY <1>1
<1>4. DbTypes
  BY <1>1, <1>3, EmptyRows DEF DbTypes, Places
<1>5. Upgrading
  BY <1>1, DatabaseAssumption DEF Upgrading
<1>6. OldHolds /\ NewHolds
  BY <1>1, <1>2 DEF OldHolds, NewHolds
<1>7. ToldOnce /\ Database!DispatchedAtHome
  BY <1>3 DEF ToldOnce, Database!DispatchedAtHome
<1> QED
  BY <1>4, <1>5, <1>6, <1>7 DEF DbInv

(* The sum of the three places a change can be.                            *)
LEMMA HeldOrTold ==
    ASSUME DbInv
    PROVE  Database!UpgradeKeepsHeld
<1> SUFFICES ASSUME NEW o \in Observations
             PROVE  (IF disk.table = "legacy" THEN 1 ELSE 0) + (IF Database!InRows(o) THEN 1 ELSE 0)
                    + Database!ToldTimes(o) = 1
  BY DEF Database!UpgradeKeepsHeld
<1> DEFINE T == {i \in DOMAIN dispatched : dispatched[i].o = o}
<1>1. Database!ToldTimes(o) = Cardinality(T)
  BY DEF Database!ToldTimes, Database!Cardinality, Cardinality
<1>2. DOMAIN dispatched = 1 .. Len(dispatched)
  <2> DEFINE E == [o : Observations, w : Workspaces]
  <2>1. dispatched \in Seq(E)
    BY DEF DbInv, DbTypes
  <2> HIDE DEF E
  <2> QED
    BY <2>1
<1>3. (IsTold(o) => Cardinality(T) = 1) /\ (~IsTold(o) => Cardinality(T) = 0)
  <2>1. CASE ~IsTold(o)
    <3>1. T = {}
      BY <1>2, <2>1 DEF IsTold
    <3> HIDE DEF T
    <3> QED
      BY <2>1, <3>1, FS_EmptySet
  <2>2. CASE IsTold(o)
    <3>1. PICK i \in 1 .. Len(dispatched) : dispatched[i].o = o
      BY <2>2 DEF IsTold
    <3>2. T = {i}
      BY <1>2, <3>1 DEF DbInv, ToldOnce
    <3> HIDE DEF T
    <3> QED
      BY <2>2, <3>2, FS_Singleton
  <2> QED
    BY <2>1, <2>2
<1>4. PICK m \in Monitors, w \in Workspaces, k \in Database!Kinds : o \in Found(m, w, k)
  <2>1. origin[o] \in Origins
    BY DEF DbInv, DbTypes
  <2>2. /\ origin[o].m \in Monitors /\ origin[o].w \in Workspaces /\ origin[o].k \in Database!Kinds
        /\ origin[o] = [m |-> origin[o].m, w |-> origin[o].w, k |-> origin[o].k]
    BY <2>1 DEF Origins
  <2> QED
    BY <2>2 DEF Found
<1>5. Database!InRows(o) <=> \E c \in Monitors, u \in Workspaces, j \in Database!Kinds :
                                \E i \in DOMAIN disk.rows[<<c, u>>][j] : disk.rows[<<c, u>>][j][i] = o
  <2>1. \A s : o \in Database!Range(s) <=> \E i \in DOMAIN s : s[i] = o
    BY DEF Database!Range
  <2>2. \A key \in Database!RowKeys : \E c \in Monitors, u \in Workspaces : key = <<c, u>>
    BY DEF Database!RowKeys
  <2>3. \A c \in Monitors, u \in Workspaces : <<c, u>> \in Database!RowKeys
    BY DEF Database!RowKeys
  <2>4. ASSUME Database!InRows(o)
        PROVE  \E c \in Monitors, u \in Workspaces, j \in Database!Kinds :
                  \E i \in DOMAIN disk.rows[<<c, u>>][j] : disk.rows[<<c, u>>][j][i] = o
    <3>1. PICK key \in Database!RowKeys, j \in Database!Kinds : o \in Database!Range(disk.rows[key][j])
      BY <2>4 DEF Database!InRows
    <3>2. PICK c \in Monitors, u \in Workspaces : key = <<c, u>>
      BY <2>2
    <3>3. o \in Database!Range(disk.rows[<<c, u>>][j])
      BY <3>1, <3>2
    <3>4. PICK i \in DOMAIN disk.rows[<<c, u>>][j] : disk.rows[<<c, u>>][j][i] = o
      BY <3>3, Zenon DEF Database!Range
    <3> QED
      BY <3>4
  <2>5. ASSUME NEW c \in Monitors, NEW u \in Workspaces, NEW j \in Database!Kinds,
               NEW i \in DOMAIN disk.rows[<<c, u>>][j], disk.rows[<<c, u>>][j][i] = o
        PROVE  Database!InRows(o)
    <3>1. o \in Database!Range(disk.rows[<<c, u>>][j])
      BY <2>1, <2>5
    <3> QED
      BY <2>3, <3>1 DEF Database!InRows
  <2> QED
    BY <2>4, <2>5
<1>6. CASE disk.table = "legacy"
  <2>1. dispatched = <<>> /\ disk.rows = Database!ScopedEmpty
    BY <1>6 DEF DbInv, OldHolds
  <2>2. ~IsTold(o)
    BY <2>1 DEF IsTold
  <2>3. \A c \in Monitors, u \in Workspaces, j \in Database!Kinds : DOMAIN disk.rows[<<c, u>>][j] = {}
    BY <2>1 DEF Database!ScopedEmpty, Database!Empty, Database!RowKeys
  <2>4. ~Database!InRows(o)
    BY <1>5, <2>3
  <2> QED
    BY <1>1, <1>3, <1>6, <2>2, <2>4
<1>7. CASE disk.table # "legacy"
  <2>1. \A c \in Monitors, u \in Workspaces : Untold(c, u) \/ AllTold(c, u)
    BY <1>7 DEF DbInv, DbTypes, NewHolds
  <2>2. ASSUME NEW c \in Monitors, NEW u \in Workspaces, NEW j \in Database!Kinds,
               NEW i \in DOMAIN disk.rows[<<c, u>>][j], disk.rows[<<c, u>>][j][i] = o
        PROVE  Untold(c, u) /\ c = m /\ u = w
    <3>1. ~AllTold(c, u)
      BY <2>2 DEF AllTold, Database!Empty
    <3>2. Lists(disk.rows[<<c, u>>][j], Found(c, u, j))
      BY <2>1, <3>1 DEF Untold
    <3> DEFINE s == disk.rows[<<c, u>>][j]
    <3> HIDE DEF s
    <3>3. Lists(s, Found(c, u, j)) /\ i \in DOMAIN s /\ s[i] = o
      BY <2>2, <3>2 DEF s
    <3>4. i \in 1 .. Len(s)
      BY <3>3 DEF Lists
    <3>5. o \in Found(c, u, j)
      BY <3>3, <3>4 DEF Lists
    <3> QED
      BY <1>4, <2>1, <3>1, <3>5 DEF Found
  <2>3. CASE Untold(m, w)
    <3>1. ~IsTold(o)
      BY <1>4, <2>3 DEF Untold
    <3> DEFINE s == disk.rows[<<m, w>>][k]
    <3>2. Lists(s, Found(m, w, k))
      BY <2>3 DEF Untold
    <3> HIDE DEF s
    <3>3. \E i \in DOMAIN s : s[i] = o
      BY <1>4, <3>2 DEF Lists
    <3>4. Database!InRows(o)
      BY <1>5, <3>3 DEF s
    <3> QED
      BY <1>1, <1>3, <1>7, <3>1, <3>4
  <2>4. CASE ~Untold(m, w)
    <3>1. IsTold(o)
      BY <1>4, <2>1, <2>4 DEF AllTold
    <3>2. ~Database!InRows(o)
      BY <1>5, <2>2, <2>4
    <3> QED
      BY <1>1, <1>3, <1>7, <3>1, <3>2
  <2> QED
    BY <2>3, <2>4
<1> QED
  BY <1>6, <1>7

LEMMA DatabaseStays == DbInv /\ UNCHANGED Database!vars => DbInv'
<1> SUFFICES ASSUME DbInv, UNCHANGED Database!vars PROVE DbInv'
  OBVIOUS
<1>1. UNCHANGED <<disk, work, holder, place, legacy, home, origin, dispatched>>
  BY DEF Database!vars
<1>2. \A m, w, k : Found(m, w, k)' = Found(m, w, k)
  BY <1>1 DEF Found
<1>3. Upgraded(work.rows)' = Upgraded(work.rows)
  BY <1>1, <1>2 DEF Upgraded, Database!Kinds
<1>4. Upgrading'
  BY <1>1, <1>3 DEF DbInv, Upgrading
<1> QED
  BY <1>1, <1>4, DiskStays DEF DbInv, DbTypes

(* Opening an old database neither loses nor doubles a detected change,    *)
(* for any number of processes that open it at the same time and die at    *)
(* any point, and a change is dispatched by its own workspace and, within  *)
(* a batch, in the order it was found (inbox/db.ts).                       *)
THEOREM UpgradeLosesNothing == Database!Spec => [](Database!UpgradeKeepsHeld /\ Database!DispatchedAtHome)
<1>1. DbInv => Database!UpgradeKeepsHeld /\ Database!DispatchedAtHome
  BY HeldOrTold DEF DbInv
<1> QED
  BY <1>1, DatabaseInit, DatabaseStays, DatabaseStep, PTL DEF Database!Spec

(* Both keep what they are to keep, whoever races and whoever dies.        *)
THEOREM TransactionsKeepWhatTheyHold ==
    \/ Outbox!Spec /\ [](part = "outbox")
    \/ Database!Spec /\ [](part = "database")
    => []TransactionsAreWhole
<1>1. part = "outbox" /\ Outbox!Bounded /\ Outbox!AllOrNothing => TransactionsAreWhole
  BY DEF TransactionsAreWhole
<1>2. part = "database" /\ Database!UpgradeKeepsHeld /\ Database!DispatchedAtHome => TransactionsAreWhole
  BY DEF TransactionsAreWhole
<1> QED
  BY <1>1, <1>2, OutboxKeepsItsBounds, UpgradeLosesNothing, PTL
-----------------------------------------------------------------------------
(***************************************************************************)
(* The types.  Most follow from the invariants above; what does not is     *)
(* carried along with them: the counters of the sizing loop stay within    *)
(* the rows, a doctor sees one heartbeat of a transport for a session, a   *)
(* body that is read further is within its limit, and a report is made of  *)
(* keys and versions.                                                      *)
(***************************************************************************)
(* No loop asks for more rows than there are, but always for one.          *)
RowsMax == IF Cardinality(Rows) >= 1 THEN Cardinality(Rows) ELSE 1

LEMMA MinIsOne == ASSUME NEW a \in Nat, NEW b \in Nat PROVE Size!Min({a, b}) \in {a, b}
<1> DEFINE S == {a, b}
<1>1. \E x \in S : \A y \in S : x <= y
  OBVIOUS
<1> HIDE DEF S
<1>2. Size!Min(S) \in S
  BY <1>1 DEF Size!Min
<1> QED
  BY <1>2 DEF S

LEMMA AsksForRows ==
    ASSUME NEW S \in SUBSET Rows, NEW deferred \in BOOLEAN, NEW room, SizeInv, forced \in 0 .. RowsMax
    PROVE  /\ Cardinality(S) \in 0 .. RowsMax
           /\ Size!Included(S, deferred, room) \in 0 .. RowsMax
           /\ Size!Wanted(S, room) \in 0 .. RowsMax
<1>1. Cardinality(S) \in Nat /\ Cardinality(Rows) \in Nat /\ Cardinality(S) <= Cardinality(Rows)
  BY RowsFinite, SizeAssumption, FS_Subset, FS_CardinalityType
<1>2. Size!Packed(S, room) \in 0 .. Cardinality(S) /\ Size!Packed(S, room - Marker) \in 0 .. Cardinality(S)
  BY PackedIsANumber
<1>3. Size!Cardinality(S) = Cardinality(S)
  BY SizeCardinality
<1>4. Size!Included(S, deferred, room) \in 0 .. RowsMax
  BY <1>1, <1>2, <1>3, AtLeastOne DEF Size!Included, RowsMax
<1>5. Size!PackUnderCap(S, room) \in 0 .. RowsMax
  BY <1>1, <1>2, <1>3, AtLeastOne DEF Size!PackUnderCap, RowsMax
<1>6. RowsMax \in Nat /\ RowsMax >= 1
  BY <1>1 DEF RowsMax
<1>7. Size!Min({Size!PackUnderCap(S, room), forced}) \in 0 .. RowsMax
  BY <1>5, <1>6, MinIsOne
<1>8. \A k \in 0 .. RowsMax : Size!Max({1, k}) \in 0 .. RowsMax
  BY <1>6, AtLeastOne
<1>9. Size!Wanted(S, room) \in 0 .. RowsMax
  BY <1>5, <1>6, <1>7, <1>8 DEF Size!Wanted
<1> QED
  BY <1>1, <1>4, <1>6, <1>9 DEF RowsMax

LEMMA SizeTypeStep ==
    ASSUME SizeInv, Size!TypeOK, [Size!Next]_(Size!vars)
    PROVE  Size!TypeOK'
<1>1. Size!Max({1, Size!Cardinality(Rows)}) = RowsMax /\ RowsMax \in Nat /\ RowsMax >= 1
  BY SizeCardinality, SizeAssumption, FS_CardinalityType, AtLeastOne DEF RowsMax
<1>2. {forced, previewed, max} \subseteq 0 .. RowsMax
  BY <1>1 DEF Size!TypeOK
<1> USE <1>1, <1>2, SizeAssumption DEF Size!TypeOK, Size!loop
<1>3. CASE Size!Preview
  <2> DEFINE S == Size!Status("pending")
  <2>1. /\ pc = "preview" /\ UNCHANGED <<size, fate, attempt, forced, claim, cap, stayed>>
        /\ pc' \in {"exhausted", "reserve"}
    BY <1>3 DEF Size!Preview
  <2>2. \/ UNCHANGED <<previewed, max, more>>
        \/ /\ previewed' = Size!Cardinality(S) /\ more' \in BOOLEAN
           /\ \E room : max' = Size!Wanted(S, room)
    BY <1>3 DEF Size!Preview
  <2>3. S \in SUBSET Rows
    BY DEF Size!Status
  <2>4. previewed' \in 0 .. RowsMax /\ max' \in 0 .. RowsMax /\ more' \in BOOLEAN
    <3> HIDE DEF S
    <3> QED
      BY <2>2, <2>3, AsksForRows, SizeCardinality
  <2> QED
    BY <2>1, <2>4
<1>4. CASE Size!ReserveNothing \/ Size!RecheckFails \/ Size!ReleaseFails \/ UNCHANGED Size!vars
  BY <1>4 DEF Size!ReserveNothing, Size!RecheckFails, Size!ReleaseFails, Size!vars
<1>5. CASE Size!ReserveReminder
  BY <1>5 DEF Size!ReserveReminder
<1>6. CASE Size!ReserveRows
  <2>1. claim' \in SUBSET Rows
    BY <1>6 DEF Size!ReserveRows, Size!Status, Size!FirstOf
  <2>2. stayed' \in SUBSET (Rows \ claim')
    BY <1>6 DEF Size!ReserveRows, Size!Status
  <2>3. pc' = "validate" /\ attempt' <= Attempts
    BY <1>6 DEF Size!ReserveRows, SizeInv, LastAskForOne
  <2> QED
    BY <1>6, <2>1, <2>2, <2>3 DEF Size!ReserveRows
<1>7. CASE Size!Validate
  BY <1>7 DEF Size!Validate
<1>8. CASE Size!Recheck
  BY <1>8 DEF Size!Recheck
<1>9. CASE Size!ReleaseAndRetry
  <2>1. forced' \in 0 .. RowsMax
    BY <1>9, AsksForRows DEF Size!ReleaseAndRetry
  <2>2. attempt' \in 1 .. Attempts + 1
    BY <1>9 DEF Size!ReleaseAndRetry
  <2>3. fate' \in [Rows -> {"unsettled", "pending", "ours", "away"}]
    BY <1>9 DEF Size!ReleaseAndRetry
  <2>4. /\ pc' = "preview" /\ more' = FALSE /\ claim' = {} /\ stayed' = {} /\ cap' = Cap
        /\ previewed' = 0 /\ max' = 0 /\ size' = size
    BY <1>9 DEF Size!ReleaseAndRetry
  <2>5. {forced', previewed', max'} \subseteq 0 .. RowsMax
    BY <2>1, <2>4
  <2> HIDE <1>2
  <2> QED
    BY <2>2, <2>3, <2>4, <2>5
<1>10. CASE Size!ReleaseAndStop
  BY <1>10 DEF Size!ReleaseAndStop
<1>11. ASSUME NEW r \in Rows, NEW from, NEW to \in {"pending", "away"}, Size!Change(r, from, to)
       PROVE  Size!TypeOK'
  BY <1>11 DEF Size!Change
<1> QED
  BY <1>3, <1>4, <1>5, <1>6, <1>7, <1>8, <1>9, <1>10, <1>11
     DEF Size!Next, Size!Settles, Size!TakenElsewhere, Size!ReturnedElsewhere

LEMMA SizeTyped == Size!Spec => []Size!TypeOK
<1>1. ASSUME Size!Init PROVE Size!TypeOK
  <2>1. Size!Max({1, Size!Cardinality(Rows)}) \in Nat
    BY SizeCardinality, SizeAssumption, FS_CardinalityType, AtLeastOne
  <2>2. {forced, previewed, max} \subseteq 0 .. Size!Max({1, Size!Cardinality(Rows)})
    BY <1>1, <2>1 DEF Size!Init
  <2>3. /\ size \in [Rows -> Sizes] /\ fate \in [Rows -> {"unsettled", "pending", "ours", "away"}]
        /\ pc = "preview" /\ attempt = 1 /\ more = FALSE /\ claim = {} /\ stayed = {} /\ cap = Cap
    BY <1>1 DEF Size!Init
  <2>4. attempt \in 1 .. Attempts + 1
    BY <2>3, SizeAssumption
  <2>5. fate \in [Rows -> {"unsettled", "pending", "ours", "away"}]
    BY <2>3
  <2> QED
    BY <2>2, <2>3, <2>4, <2>5 DEF Size!TypeOK
<1> QED
  BY <1>1, SizeInit, SizeStep, SizeTypeStep, PTL DEF Size!Spec

LEMMA DocTypeStep ==
    ASSUME DoctorInv, Doc!TypeOK, [Doc!Next]_(Doc!vars)
    PROVE  Doc!TypeOK'
<1>1. DoctorInv'
  BY DoctorStep
<1>2. /\ daemon' \in BOOLEAN /\ sawDaemon' \in BOOLEAN /\ changes' \in 0 .. MaxChanges
      /\ pc' \in {"idle", "reported", "diagnosed", "judged"}
  <2> USE DoctorAssumption DEF Doc!TypeOK
  <2>1. CASE Doc!WorldChanges
    <3>1. daemon' \in BOOLEAN
      BY <2>1 DEF Doc!WorldChanges, Doc!Beat, Doc!Lapses, Doc!SessionChanges, Doc!DaemonChanges,
                  Doc!HoldChanges
    <3> QED
      BY <2>1, <3>1 DEF Doc!WorldChanges, Doc!Bounded, Doc!input
  <2>2. CASE Doc!Report \/ Doc!Diagnose \/ Doc!Judge \/ UNCHANGED Doc!vars
    BY <2>2 DEF Doc!Report, Doc!Diagnose, Doc!Judge, Doc!world, Doc!vars
  <2> QED
    BY <2>1, <2>2 DEF Doc!Next
<1>3. ASSUME NEW b \in beats', NEW c \in beats',
             b.transport = c.transport, b.session = c.session,
             (b.at = "workspace") = (c.at = "workspace")
      PROVE  b = c
  <2> DEFINE Same(x, y) == /\ x.transport = y.transport /\ x.session = y.session
                           /\ (x.at = "workspace") = (y.at = "workspace")
  <2>0. \A x, y \in beats : Same(x, y) => x = y
    BY DEF Doc!TypeOK
  <2>1. CASE beats' = beats
    BY <1>3, <2>0, <2>1
  <2>2. ASSUME NEW t \in Doc!Transports, NEW s \in Hosts, NEW at \in Doc!Places, Doc!Beat(t, s, at)
        PROVE  b = c
    <3> DEFINE n == [transport |-> t, session |-> s, at |-> at, fresh |-> TRUE]
    <3>1. \A x \in beats' : x = n \/ (x \in beats /\ ~Same(x, n))
      BY <2>2 DEF Doc!Beat
    <3>2. Same(b, c) /\ Same(c, b)
      BY <1>3
    <3> HIDE DEF n, Same
    <3> QED
      BY <1>3, <2>0, <3>1, <3>2
  <2>3. ASSUME NEW d \in beats, Doc!Lapses(d) PROVE b = c
    <3> DEFINE n == [d EXCEPT !.fresh = FALSE]
    <3>1. \A x \in beats' : x = n \/ (x \in beats /\ x # d)
      BY <2>3 DEF Doc!Lapses
    <3>2. d \in Doc!Beats
      BY DEF Doc!TypeOK
    <3>3. n.transport = d.transport /\ n.session = d.session /\ n.at = d.at
      BY <3>2 DEF Doc!Beats
    <3>4. \A x : (Same(x, n) => Same(x, d)) /\ (Same(n, x) => Same(d, x))
      BY <3>3
    <3>5. Same(b, c)
      BY <1>3
    <3> HIDE DEF n, Same
    <3> QED
      BY <1>3, <2>0, <2>3, <3>1, <3>4, <3>5
  <2> QED
    BY <2>1, <2>2, <2>3
       DEF Doc!Next, Doc!WorldChanges, Doc!world, Doc!SessionChanges, Doc!DaemonChanges,
           Doc!HoldChanges, Doc!Report, Doc!Diagnose, Doc!Judge, Doc!vars
<1> QED
  BY <1>1, <1>2, <1>3 DEF DoctorInv, Doc!TypeOK

LEMMA DocTyped == Doc!Spec => []Doc!TypeOK
<1>1. ASSUME Doc!Init PROVE DoctorInv /\ Doc!TypeOK
  <2>1. /\ leads \subseteq Hosts /\ beats = {} /\ daemon \in BOOLEAN /\ pc = "idle" /\ changes = 0
        /\ sawLeads = {} /\ sawDaemon = FALSE /\ sawBeats = {}
        /\ hold = Doc!NoHold /\ sawHold = Doc!NoHold
    BY <1>1 DEF Doc!Init
  <2>2. Doc!NoHold \in [Hosts -> Doc!HoldsOf]
    BY DEF Doc!NoHold, Doc!HoldsOf
  <2>3. changes \in 0 .. MaxChanges
    BY <2>1, DoctorAssumption
  <2> QED
    BY <2>1, <2>2, <2>3 DEF DoctorInv, Doc!TypeOK
<1>2. DoctorInv /\ [Doc!Next]_(Doc!vars) => DoctorInv'
  BY DoctorStep
<1> QED
  BY <1>1, <1>2, DocTypeStep, PTL DEF Doc!Spec

LEMMA InboxTyped == Box!Spec => []Box!TypeOK
<1>1. Box!Init => InboxInv
  BY InboxInit
<1>2. InboxInv /\ [Box!Next]_(Box!vars) => InboxInv'
  BY InboxStep
<1> DEFINE Printed == printed \in [Procs -> {"none", "done", "refused", "missing"}]
<1>3. Box!Init => Printed
  BY DEF Box!Init
<1>4. Printed /\ [Box!Next]_(Box!vars) => Printed'
  BY DEF Box!Next, Box!Enqueue, Box!Check, Box!Update, Box!Dies, Box!vars
<1>5. ASSUME InboxInv, Printed PROVE Box!TypeOK
  <2>1. ASSUME NEW i \in Items
        PROVE  row[i].state \in Box!States \cup {"absent"} /\ row[i].errors \in Nat
    <3>1. row[i] \in InboxRow
      BY <1>5 DEF InboxInv, InboxTypes
    <3> QED
      BY <3>1 DEF InboxRow
  <2>2. ASSUME NEW p \in Procs, cmd[p] # Box!NoCommand
        PROVE  cmd[p].item \in Items /\ row[cmd[p].item] # Box!Absent
    <3> DEFINE i == cmd[p].item
    <3>1. i \in Items /\ been[i] \in Seq(Box!States)
      BY <1>5, <2>2 DEF InboxInv, InboxTypes, Move
    <3>2. been[i] # <<>> /\ row[i].state = been[i][Len(been[i])]
      BY <1>5, <2>2, <3>1 DEF InboxInv, MovesAreChecked, RowIsNewest
    <3>3. row[i].state \in Box!States
      BY <3>1, <3>2
    <3> QED
      BY <3>1, <3>3 DEF Box!Absent, Box!States
  <2> QED
    BY <1>5, <2>1, <2>2 DEF Box!TypeOK
<1> HIDE DEF Printed
<1> QED
  BY <1>1, <1>2, <1>3, <1>4, <1>5, PTL DEF Box!Spec

LEMMA ObserveTyped == Observe!Spec => []Observe!TypeOK
<1>1. Observe!Init => VerdictInv
  BY VerdictInit
<1>2. VerdictInv /\ [Observe!Next]_(Observe!vars) => VerdictInv'
  BY VerdictStep
<1>3. ASSUME VerdictInv PROVE Observe!TypeOK
  <2>1. /\ history \in Seq(Observe!Results) /\ window \in Windows /\ window.positive <= window.latest
        /\ window.latest <= Len(history)
        /\ window.noChange \subseteq window.negative + 1 .. window.latest
    BY <1>3 DEF VerdictInv, VerdictTypes, InWindow, Last
  <2>2. window.negative \in Nat /\ window.latest \in Nat /\ Len(history) \in Nat
    BY <2>1 DEF Windows
  <2> QED
    BY <2>1, <2>2 DEF Observe!TypeOK
<1> QED
  BY <1>1, <1>2, <1>3, PTL DEF Observe!Spec

LEMMA OutboxTyped == Outbox!Spec => []Outbox!TypeOK
<1> DEFINE Sized(S) == \A r \in S : r.id \in 1 .. Batches /\ r.route \in Routes /\ r.bytes \in EnvelopeSizes
<1>1. Outbox!Init => Sized(rows)
  BY DEF Outbox!Init
<1>2. ASSUME OutboxInv PROVE Sized(staged)
  <2>1. CASE writer = "none"
    BY <1>2, <2>1 DEF OutboxInv, OneWriter
  <2>2. CASE writer # "none"
    <3>1. writer \in Procs /\ call[writer].step \in {"admitting", "inserting"}
      BY <1>2, <2>2 DEF OutboxInv, OutboxTypes, OneWriter
    <3>2. CASE call[writer].step = "admitting"
      BY <1>2, <3>1, <3>2 DEF OutboxInv, OneWriter
    <3>3. CASE call[writer].step = "inserting"
      <4> DEFINE items == call[writer].items
                 n == Cardinality(staged)
      <4>1. staged = {Outbox!Row(writer, i) : i \in 1 .. n} /\ n <= Len(items) /\ n \in Nat
        BY <1>2, <3>1, <3>3, FS_CardinalityType DEF OutboxInv, OneWriter
      <4>2. items \in Seq(Outbox!Item) /\ call[writer].id \in 1 .. Batches
        BY <1>2, <3>1, <3>3 DEF OutboxInv, OutboxTypes, CallRecord, CallsApart
      <4> HIDE DEF n
      <4>3. ASSUME NEW i \in 1 .. n
            PROVE  LET r == Outbox!Row(writer, i)
                   IN  r.id \in 1 .. Batches /\ r.route \in Routes /\ r.bytes \in EnvelopeSizes
        <5>1. items[i] \in Outbox!Item
          BY <4>1, <4>2
        <5> QED
          BY <4>2, <5>1 DEF Outbox!Row, Outbox!Item
      <4> QED
        BY <4>1, <4>3
    <3> QED
      BY <3>1, <3>2, <3>3
  <2> QED
    BY <2>1, <2>2
<1>3. ASSUME OutboxInv, Sized(rows), [Outbox!Next]_(Outbox!vars) PROVE Sized(rows)'
  <2>1. rows' \subseteq rows \cup staged
    BY <1>3 DEF Outbox!Next, Outbox!Enqueue, Outbox!Begin, Outbox!Busy, Outbox!Admit, Outbox!Insert,
                Outbox!Commit, Outbox!Crash, Outbox!vars
  <2> QED
    BY <1>2, <1>3, <2>1
<1>4. ASSUME OutboxInv, Sized(rows) PROVE Outbox!TypeOK
  <2>1. Sized(staged)
    BY <1>2, <1>4
  <2>2. \A p \in Procs : call[p].step \in {"idle", "waiting", "admitting", "inserting"}
    BY <1>4 DEF OutboxInv, OutboxTypes, CallRecord, Steps
  <2> QED
    BY <1>4, <2>1, <2>2 DEF OutboxInv, OutboxTypes, OneWriter, Outbox!TypeOK, Outcomes
<1> HIDE DEF Sized
<1>5. OutboxInv /\ [Outbox!Next]_(Outbox!vars) => OutboxInv'
  BY OutboxStep, OutboxStays
<1> QED
  BY <1>1, <1>3, <1>4, <1>5, OutboxInit, PTL DEF Outbox!Spec

LEMMA DatabaseTyped == Database!Spec => []Database!TypeOK
<1> DEFINE Made == work.table \in {"legacy", "missing", "scoped"}
<1>1. Database!Init => Made
  BY DEF Database!Init
<1>2. ASSUME DbInv, Made, [Database!Next]_(Database!vars) PROVE Made'
  <2>1. \/ work' = work \/ work' = disk
        \/ \E t \in {"missing", "scoped"} : \E r : work' = [work EXCEPT !.table = t, !.rows = r]
        \/ \E r : work' = [work EXCEPT !.rows = r] \/ work' = [work EXCEPT !.table = "missing"]
    BY <1>2 DEF Database!Next, Database!vars, Database!Begin, Database!ReadRows, Database!DropTable,
                Database!CreateTable, Database!Reinsert, Database!Commit, Database!BusyFails,
                Database!Dies, Database!Restarts, Database!Tick
  <2>2. work = [table |-> work.table, old |-> work.old, rows |-> work.rows] /\ disk.table \in {"legacy", "scoped"}
    BY <1>2 DEF DbInv, DbTypes
  <2> QED
    BY <1>2, <2>1, <2>2
<1>3. ASSUME DbInv, Made PROVE Database!TypeOK
  <2>1. \A i \in DOMAIN dispatched : dispatched[i].o \in Observations /\ dispatched[i].w \in Workspaces
    <3> DEFINE Told == [o : Observations, w : Workspaces]
    <3>1. dispatched \in Seq(Told)
      BY <1>3 DEF DbInv, DbTypes
    <3> HIDE DEF Told
    <3>2. \A i \in DOMAIN dispatched : dispatched[i] \in Told
      BY <3>1
    <3> QED
      BY <3>2 DEF Told
  <2> QED
    BY <1>3, <2>1 DEF DbInv, DbTypes, Upgrading, Places, Database!TypeOK
<1> HIDE DEF Made
<1>4. DbInv /\ [Database!Next]_(Database!vars) => DbInv'
  BY DatabaseStep, DatabaseStays
<1>5. Database!Init => DbInv
  BY DatabaseInit
<1> QED
  BY <1>1, <1>2, <1>3, <1>4, <1>5, PTL DEF Database!Spec

LEMMA SourceTyped == Source!Spec => []Source!TypeOK
<1> DEFINE Observed == Keys \X Source!ChangeKinds \X Versions
           More == /\ scope \subseteq Keys /\ todo \subseteq Keys /\ turn \in 0 .. 1
                   /\ pc \in {"idle", "hash", "compare"} /\ report \subseteq Observed
<1>1. Source!Init => More
  BY DEF Source!Init
<1>2. ASSUME SourceInv, More, [Source!Next]_(Source!vars) PROVE More'
  <2> USE DEF SourceInv, SourceTypes, Source!still
  <2>1. /\ scope' \subseteq Keys /\ todo' \subseteq Keys /\ turn' \in {turn, 1 - turn}
        /\ pc' \in {"idle", "hash", "compare"}
    BY <1>2 DEF Source!Next, Source!vars, Source!WorldChanges, Source!GlobsEdited, Source!Glob,
                Source!HashFile, Source!Compare, Source!TellPresent, Source!TellAbsent,
                Source!ReadFails, Source!FileEnds, Source!CommandFails,
                Source!CommandSucceeds, Source!KeyedSucceeds, Source!ObserveRejects, Source!ApiAnswers,
                Source!RefAdvances, Source!Rebaseline, Source!Rejects, Source!Tells, Source!poll
  <2>2. \A v, gone : v \in State /\ base \in State /\ gone \in [Keys -> {"deleted", "descoped"}] =>
            Source!Differences(base, v, gone) \subseteq Observed
    BY SourceAssumption DEF Source!Differences, Source!ChangeKinds, State
  <2>3. \A obs, next : obs \subseteq Observed /\ Source!Ends(obs, next) => report' \subseteq Observed
    BY DEF Source!Ends
  <2>4. CASE Source!FileEnds \/ \E k \in Keys : Source!TellPresent(k) \/ Source!TellAbsent(k)
    <3>1. CASE Source!FileEnds
      BY <1>2, <2>1, <2>3, <3>1 DEF Source!FileEnds
    <3>2. ASSUME NEW k \in Keys, Source!TellPresent(k) \/ Source!TellAbsent(k) PROVE More'
      <4>0. world[k] \in Versions /\ 0 \in Versions
        BY <1>2, SourceAssumption DEF State
      <4>1. \E c \in Source!ChangeKinds, v \in Versions : report' = report \cup {<<k, c, v>>}
        <5>1. CASE Source!TellPresent(k)
          <6> DEFINE c == IF base[k] = 0 THEN "created" ELSE "modified"
          <6>1. c \in Source!ChangeKinds /\ report' = report \cup {<<k, c, world[k]>>}
            BY <5>1 DEF Source!TellPresent, Source!ChangeKinds
          <6> QED
            BY <4>0, <6>1
        <5>2. CASE Source!TellAbsent(k)
          <6> DEFINE c == IF world[k] = 0 THEN "deleted" ELSE "descoped"
          <6>1. c \in Source!ChangeKinds /\ report' = report \cup {<<k, c, 0>>}
            BY <5>2 DEF Source!TellAbsent, Source!ChangeKinds
          <6> QED
            BY <4>0, <6>1
        <5> QED
          BY <3>2, <5>1, <5>2
      <4> QED
        BY <1>2, <2>1, <4>1
    <3> QED
      BY <2>4, <3>1, <3>2
  <2>5. CASE Source!KeyedSucceeds
    <3> DEFINE gone == [k \in Keys |-> "descoped"]
               obs == IF base = Source!NoBase THEN {} ELSE Source!Differences(base, world, gone)
    <3>1. gone \in [Keys -> {"deleted", "descoped"}]
      OBVIOUS
    <3>2. Source!Ends(obs, world)
      BY <2>5 DEF Source!KeyedSucceeds
    <3> HIDE DEF gone
    <3>3. obs \subseteq Observed
      BY <1>2, <2>2, <3>1
    <3> HIDE DEF obs
    <3> QED
      BY <2>1, <1>2, <2>3, <3>2, <3>3
  <2>6. CASE Source!CommandSucceeds \/ Source!ApiAnswers
    <3> DEFINE obs == IF base # Source!NoBase /\ Source!Changed(base, world)
                      THEN {<<Compared, "modified", world[Compared]>>} ELSE {}
    <3>1. Source!Ends(obs, world)
      BY <2>6 DEF Source!CommandSucceeds, Source!ApiAnswers
    <3>2. obs \subseteq Observed
      BY <1>2, SourceAssumption DEF Source!ChangeKinds, State
    <3> HIDE DEF obs
    <3> QED
      BY <2>1, <1>2, <2>3, <3>1, <3>2
  <2>7. CASE Source!RefAdvances
    <3> DEFINE gone == [k \in Keys |-> "deleted"]
               obs == IF base = Source!NoBase THEN {} ELSE Source!Differences(base, world, gone)
    <3>1. gone \in [Keys -> {"deleted", "descoped"}]
      OBVIOUS
    <3>2. Source!Ends(obs, world) \/ \E from \in obs : Source!Ends(Source!Paired(obs, from[1]), world)
      BY <2>7 DEF Source!RefAdvances
    <3> HIDE DEF gone
    <3>3. obs \subseteq Observed
      BY <1>2, <2>2, <3>1
    <3> HIDE DEF obs
    <3>4. \A from : Source!Paired(obs, from) \subseteq Observed
      BY <3>3 DEF Source!Paired, Source!ChangeKinds
    <3> QED
      BY <2>1, <1>2, <2>3, <3>2, <3>3, <3>4
  <2>8. CASE \/ \E k \in Keys, v \in Versions : Source!WorldChanges(k, v)
             \/ \E s \in SUBSET Keys : Source!GlobsEdited(s)
             \/ Source!Glob \/ (\E k \in Keys : Source!HashFile(k)) \/ Source!Compare
             \/ Source!CommandFails \/ Source!ObserveRejects \/ Source!Rebaseline \/ Source!ReadFails
             \/ UNCHANGED Source!vars
    <3>1. report' = report \/ report' = {}
      BY <2>8 DEF Source!vars, Source!WorldChanges, Source!GlobsEdited, Source!Glob, Source!HashFile,
                  Source!Compare, Source!CommandFails, Source!ObserveRejects, Source!Rebaseline,
                  Source!ReadFails, Source!Rejects
    <3> QED
      BY <1>2, <2>1, <3>1
  <2> QED
    BY <1>2, <2>4, <2>5, <2>6, <2>7, <2>8 DEF Source!Next
<1>3. ASSUME SourceInv, More PROVE Source!TypeOK
  BY <1>3 DEF SourceInv, SourceTypes, State, Source!ReportsAddUp, Source!TypeOK
<1> HIDE DEF More
<1>4. SourceInv /\ [Source!Next]_(Source!vars) => SourceInv'
  BY SourceStep
<1> QED
  BY <1>1, <1>2, <1>3, <1>4, SourceInit, PTL DEF Source!Spec

LEMMA WholeTyped == Whole!Spec => []Whole!TypeOK
<1> DEFINE Small(p) == /\ read[p] \in 0 .. MaxBody + 1
                       /\ fetch[p] \in {"waiting", "requested"} => read[p] = 0
                       /\ fetch[p] = "reading" => read[p] <= MaxBody
           Within == /\ nextIndex <= Cardinality(Pieces) + 1 /\ workers <= MaxConcurrency
                     /\ \A p \in Pieces : Small(p)
<1>1. ASSUME Whole!Init PROVE Within
  <2>1. /\ nextIndex = 1 /\ fetch = [p \in Pieces |-> "waiting"] /\ read = [p \in Pieces |-> 0]
        /\ workers = Whole!Min({MaxConcurrency, Cardinality(Pieces)})
    BY <1>1, WholeCardinality DEF Whole!Init
  <2>2. workers <= MaxConcurrency
    <3> DEFINE S == {MaxConcurrency, Cardinality(Pieces)}
    <3>1. \E m \in S : \A k \in S : m <= k
      BY WholeAssumption, PiecesAreNumbers
    <3> HIDE DEF S
    <3>2. \A k \in S : Whole!Min(S) <= k
      BY <3>1 DEF Whole!Min
    <3> QED
      BY <2>1, <3>2 DEF S
  <2> QED
    BY <2>1, <2>2, WholeAssumption, PiecesAreNumbers
<1>2. ASSUME WholeInv, Within, [Whole!Next]_(Whole!vars) PROVE Within'
  <2> USE WholeAssumption, PiecesAreNumbers DEF WholeInv, WholeTypes
  <2>1. workers' \in {workers, workers - 1}
    BY <1>2 DEF Whole!Next, Whole!vars, Whole!WorkerTakes, Whole!FetchThrows, Whole!ReadChunk,
                Whole!EndOfBody, Whole!Headers, Whole!PartArrives, Whole!AllSettled, Whole!Fails
  <2>2. nextIndex' <= Cardinality(Pieces) + 1
    <3>1. \/ nextIndex' = nextIndex
          \/ nextIndex \in Pieces /\ nextIndex' = nextIndex + 1
      BY <1>2 DEF Whole!Next, Whole!vars, Whole!WorkerTakes, Whole!TakesAnother, Whole!FetchThrows,
                  Whole!ReadChunk, Whole!EndOfBody, Whole!Headers, Whole!PartArrives,
                  Whole!AllSettled, Whole!Fails
    <3>2. nextIndex \in Pieces => nextIndex <= Cardinality(Pieces)
      BY WholeAssumption
    <3> QED
      BY <1>2, <3>1, <3>2
  <2>3. ASSUME NEW q \in Pieces PROVE Small(q)'
    <3> SUFFICES /\ read'[q] \in 0 .. MaxBody + 1
                 /\ fetch'[q] \in {"waiting", "requested"} => read'[q] = 0
                 /\ fetch'[q] = "reading" => read'[q] <= MaxBody
      OBVIOUS
    <3>0. Small(q) /\ fetch[q] \in Fetches
      BY <1>2, <2>3
    <3>1. CASE Whole!WorkerTakes
      <4>1. /\ read' = read
            /\ \/ fetch' = fetch
               \/ /\ nextIndex \in Pieces /\ fetch[nextIndex] = "waiting"
                  /\ fetch' = [fetch EXCEPT ![nextIndex] = "requested"]
        BY <1>2, <3>1 DEF Whole!WorkerTakes, Whole!TakesAnother, Whole!Set, PoolInv
      <4>2. \/ fetch'[q] = fetch[q]
            \/ fetch[q] = "waiting" /\ fetch'[q] = "requested"
        BY <1>2, <4>1
      <4> QED
        BY <3>0, <4>1, <4>2
    <3>2. ASSUME NEW p \in Pieces, Whole!FetchThrows(p) \/ Whole!EndOfBody(p)
                   \/ \E s \in {"success", "error"} : Whole!PartArrives(p, s)
          PROVE  Small(q)'
      <4>1. read' = read /\ \E s \in {"failed", "body", "done"} : fetch' = [fetch EXCEPT ![p] = s]
        BY <3>2 DEF Whole!FetchThrows, Whole!EndOfBody, Whole!PartArrives, Whole!Fails, Whole!Set
      <4> QED
        BY <3>0, <4>1
    <3>3. ASSUME NEW p \in Pieces, NEW d \in {0, MaxBody + 1}, Whole!Headers(p, d) PROVE Small(q)'
      <4>1. /\ read' = read /\ fetch[p] = "requested"
            /\ \E s \in {"failed", "reading"} : fetch' = [fetch EXCEPT ![p] = s]
        BY <3>3 DEF Whole!Headers, Whole!Fails, Whole!Set
      <4>2. Small(p)
        BY <1>2
      <4> QED
        BY <3>0, <4>1, <4>2
    <3>4. ASSUME NEW p \in Pieces, Whole!ReadChunk(p) PROVE Small(q)'
      <4>1. /\ fetch[p] = "reading" /\ read' = [read EXCEPT ![p] = @ + 1]
            /\ IF read[p] + 1 > MaxBody THEN fetch' = [fetch EXCEPT ![p] = "failed"] ELSE fetch' = fetch
        BY <3>4 DEF Whole!ReadChunk, Whole!Fails, Whole!Set
      <4>2. Small(p) /\ read \in [Pieces -> Nat] /\ fetch \in [Pieces -> Fetches]
        BY <1>2
      <4>3. CASE q = p
        <5>1. read'[q] = read[q] + 1 /\ fetch'[q] = IF read[q] + 1 > MaxBody THEN "failed" ELSE "reading"
          BY <4>1, <4>2, <4>3
        <5>2. read[q] \in Nat /\ read[q] <= MaxBody
          BY <4>1, <4>2, <4>3
        <5> QED
          BY <5>1, <5>2
      <4>4. CASE q # p
        <5>1. read'[q] = read[q] /\ fetch'[q] = fetch[q]
          BY <4>1, <4>2, <4>4
        <5> QED
          BY <3>0, <5>1
      <4> QED
        BY <4>3, <4>4
    <3>5. CASE Whole!AllSettled \/ UNCHANGED Whole!vars
      BY <3>0, <3>5 DEF Whole!AllSettled, Whole!vars
    <3> HIDE DEF Small
    <3>6. Small(q)'
      BY <1>2, <3>1, <3>2, <3>3, <3>4, <3>5 DEF Whole!Next, Small
    <3> QED
      BY <3>6 DEF Small
  <2> HIDE DEF Small
  <2> QED
    BY <1>2, <2>1, <2>2, <2>3
<1>3. ASSUME WholeInv, Within PROVE Whole!TypeOK
  <2>1. Whole!Cardinality(Pieces) = Cardinality(Pieces) /\ Whole!Cardinality(Whole!InFlight) = Cardinality(Whole!InFlight)
    BY WholeCardinality
  <2> QED
    BY <1>3, <2>1, PiecesAreNumbers, WholeAssumption
       DEF WholeInv, WholeTypes, PoolInv, Fetches, Whole!TypeOK
<1> HIDE DEF Within
<1> QED
  BY <1>1, <1>2, <1>3, WholeInit, WholeStep, PTL DEF Whole!Spec

(* Whatever the component, its variables have their types, for every value *)
(* of its parameters.                                                      *)
THEOREM PartsAreTyped ==
    \/ Spec /\ [](part = "sessions")
    \/ Observe!Spec /\ [](part = "observe")
    \/ Size!Spec /\ [](part = "size")
    \/ Source!Spec /\ [](part = "source")
    \/ Whole!Spec /\ [](part = "composite")
    \/ Doc!Spec /\ [](part = "doctor")
    \/ Outbox!Spec /\ [](part = "outbox")
    \/ Database!Spec /\ [](part = "database")
    \/ Box!Spec /\ [](part = "inbox")
    => []Types
<1>1. part = "sessions" /\ TypeOK => Types
  BY DEF Types
<1>2. part = "observe" /\ Observe!TypeOK => Types
  BY DEF Types
<1>3. part = "size" /\ Size!TypeOK => Types
  BY DEF Types
<1>4. part = "source" /\ Source!TypeOK => Types
  BY DEF Types
<1>5. part = "composite" /\ Whole!TypeOK => Types
  BY DEF Types
<1>6. part = "doctor" /\ Doc!TypeOK => Types
  BY DEF Types
<1>7. part = "outbox" /\ Outbox!TypeOK => Types
  BY DEF Types
<1>8. part = "database" /\ Database!TypeOK => Types
  BY DEF Types
<1>9. part = "inbox" /\ Box!TypeOK => Types
  BY DEF Types
<1> QED
  BY <1>1, <1>2, <1>3, <1>4, <1>5, <1>6, <1>7, <1>8, <1>9, SessionTypes, ObserveTyped, SizeTyped,
     SourceTyped, WholeTyped, DocTyped, OutboxTyped, DatabaseTyped, InboxTyped, PTL
=============================================================================

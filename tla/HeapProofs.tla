------------------------------ MODULE HeapProofs ------------------------------
(* Theorems about Heap and their proofs.                                   *)
EXTENDS Heap, TLAPS, FiniteSetTheorems, NaturalsInduction, WellFoundedInduction

(* There is a job, and the bounds are numbers.                             *)
LEMMA Sizes ==
  /\ Jobs \in Nat /\ Jobs >= 1 /\ 1 \in 1..Jobs
  /\ Objects \in Nat /\ MaxKept \in Nat /\ MaxQueued \in Nat /\ MaxRounds \in Nat
  /\ None \notin 1..Objects
  BY ConstantsAssumption DEF Obj

USE Sizes

-----------------------------------------------------------------------------
(* Numbers, epochs and sums.                                               *)

(* A set of naturals that is not empty has a least member.                 *)
LEMMA HasLeast ==
  ASSUME NEW S \in SUBSET Nat, S # {}
  PROVE  \E x \in S : \A y \in S : x <= y
  <1>1. \E x \in S : \A y \in S : ~ (<<y, x>> \in OpToRel(<, Nat))
    BY WFMin, NatLessThanWellFounded, Zenon
  <1>2. ASSUME NEW x \in Nat, NEW y \in Nat, ~ (<<y, x>> \in OpToRel(<, Nat))
        PROVE  x <= y
    <2>1. <<y, x>> \in Nat \X Nat
      OBVIOUS
    <2>2. ~ (y < x)
      BY <2>1, <1>2, Zenon DEF OpToRel
    <2>3. QED
      BY <2>2
  <1>3. QED
    BY <1>1, <1>2, Zenon

(* A set of objects that is not empty has a youngest member.               *)
LEMMA HasYoungest ==
  ASSUME NEW S \in SUBSET Obj, S # {}
  PROVE  \E x \in S : \A y \in S : y <= x
  <1> DEFINE D == {n \in Nat : \E x \in S : n = Objects - x}
  <1>1. \A x \in S : x \in Nat /\ x <= Objects /\ Objects - x \in Nat
    BY DEF Obj
  <1>2. D \in SUBSET Nat /\ D # {}
    BY <1>1
  <1>3. PICK n \in D : \A m \in D : n <= m
    BY <1>2, HasLeast
  <1>4. PICK x \in S : n = Objects - x
    BY <1>3
  <1>5. \A y \in S : Objects - y \in D
    BY <1>1
  <1>6. \A y \in S : y <= x
    BY <1>1, <1>3, <1>4, <1>5
  <1>7. QED
    BY <1>6

(* There are three epochs, and they go round.                              *)
LEMMA EpochFacts ==
  ASSUME NEW e \in Epoch
  PROVE  /\ Next3(e) \in Epoch /\ Prev3(e) \in Epoch
         /\ e # Next3(e) /\ e # Prev3(e) /\ Next3(e) # Prev3(e)
         /\ Prev3(Next3(e)) = e /\ Next3(Next3(e)) = Prev3(e)
         /\ \A x \in Epoch : x = e \/ x = Next3(e) \/ x = Prev3(e)
  <1>1. CASE e = 0
    BY <1>1 DEF Epoch, Next3, Prev3
  <1>2. CASE e = 1
    BY <1>2 DEF Epoch, Next3, Prev3
  <1>3. CASE e = 2
    BY <1>3 DEF Epoch, Next3, Prev3
  <1>4. QED
    BY <1>1, <1>2, <1>3 DEF Epoch

Buffers == [Job -> [Epoch -> [Obj -> Nat]]]

(* The recursion of Sum has a solution.                                    *)
LEMMA SumExists ==
  ASSUME NEW b \in Buffers, NEW e \in Epoch, NEW o \in Obj
  PROVE  \E s : s = [j \in 0..Jobs |-> IF j = 0 THEN 0 ELSE s[j - 1] + b[j][e][o]]
  <1> DEFINE Good(n) == \E s : s = [j \in 0..n |-> IF j = 0 THEN 0 ELSE s[j - 1] + b[j][e][o]]
             Bad == {n \in 0..Jobs : ~Good(n)}
  <1> SUFFICES ASSUME ~Good(Jobs) PROVE FALSE
    OBVIOUS
  <1> HIDE DEF Good
  <1>2. Bad \in SUBSET Nat /\ Bad # {}
    OBVIOUS
  <1>3. PICK n \in Bad : \A m \in Bad : n <= m
    BY <1>2, HasLeast
  <1>4. n # 0
    <2>1. [j \in 0..0 |-> 0] = [j \in 0..0 |-> IF j = 0 THEN 0 ELSE [i \in 0..0 |-> 0][j - 1] + b[j][e][o]]
      OBVIOUS
    <2>2. Good(0)
      BY <2>1 DEF Good
    <2>3. QED
      BY <1>3, <2>2
  <1>5. n - 1 \in 0..Jobs /\ n \in 0..Jobs /\ Good(n - 1)
    BY <1>3, <1>4
  <1>6. PICK s : s = [j \in 0..(n - 1) |-> IF j = 0 THEN 0 ELSE s[j - 1] + b[j][e][o]]
    BY <1>5 DEF Good
  <1> DEFINE t == [j \in 0..n |-> IF j = n THEN s[n - 1] + b[n][e][o] ELSE s[j]]
  <1>7. \A j \in 0..n : t[j] = IF j = 0 THEN 0 ELSE t[j - 1] + b[j][e][o]
    <2>1. \A j \in 0..(n - 1) : s[j] = IF j = 0 THEN 0 ELSE s[j - 1] + b[j][e][o]
      BY <1>6, Zenon
    <2>2. ASSUME NEW j \in 0..n PROVE t[j] = IF j = 0 THEN 0 ELSE t[j - 1] + b[j][e][o]
      <3>1. CASE j = n
        BY <1>4, <1>5, <3>1
      <3>2. CASE j # n
        <4>1. j \in 0..(n - 1) /\ t[j] = s[j] /\ (j # 0 => t[j - 1] = s[j - 1])
          BY <1>5, <3>2
        <4>2. QED
          BY <2>1, <4>1
      <3>3. QED
        BY <3>1, <3>2
    <2>3. QED
      BY <2>2
  <1>8. t = [j \in 0..n |-> IF j = 0 THEN 0 ELSE t[j - 1] + b[j][e][o]]
    BY <1>7, Zenon
  <1>9. Good(n)
    BY <1>8, Zenon DEF Good
  <1>10. QED
    BY <1>3, <1>9

(* Sum adds up what the jobs hold, one job after the other.                *)
LEMMA SumSteps ==
  ASSUME NEW b \in Buffers, NEW e \in Epoch, NEW o \in Obj
  PROVE  \E s :
            /\ \A j \in 0..Jobs : s[j] \in Nat
            /\ s[0] = 0
            /\ \A j \in Job : s[j] = s[j - 1] + b[j][e][o]
            /\ Sum(b, e, o) = s[Jobs]
  <1> DEFINE s == CHOOSE s : s = [j \in 0..Jobs |-> IF j = 0 THEN 0 ELSE s[j - 1] + b[j][e][o]]
  <1>1. s = [j \in 0..Jobs |-> IF j = 0 THEN 0 ELSE s[j - 1] + b[j][e][o]]
    BY SumExists, Zenon
  <1>2. Sum(b, e, o) = s[Jobs]
    BY DEF Sum
  <1> HIDE DEF s
  <1>4. \A j \in 0..Jobs : s[j] = IF j = 0 THEN 0 ELSE s[j - 1] + b[j][e][o]
    BY <1>1, Zenon
  <1>5. s[0] = 0 /\ \A j \in Job : s[j] = s[j - 1] + b[j][e][o]
    BY <1>4 DEF Job
  <1>6. \A j \in 0..Jobs : s[j] \in Nat
    <2> DEFINE Bad == {j \in 0..Jobs : s[j] \notin Nat}
    <2> SUFFICES ASSUME Bad # {} PROVE FALSE
      BY Zenon
    <2>1. Bad \in SUBSET Nat
      OBVIOUS
    <2>2. PICK n \in Bad : \A m \in Bad : n <= m
      BY <2>1, HasLeast
    <2>3. n # 0
      BY <1>5, <2>2
    <2>4. n \in Job /\ n - 1 \in 0..Jobs /\ s[n - 1] \in Nat
      BY <2>2, <2>3 DEF Job
    <2>5. b[n][e][o] \in Nat
      BY <2>4 DEF Buffers
    <2>6. s[n] \in Nat
      BY <1>5, <2>4, <2>5
    <2>7. QED
      BY <2>2, <2>6
  <1>7. QED
    BY <1>2, <1>5, <1>6

(* A sum is a number.                                                      *)
LEMMA SumNat ==
  ASSUME NEW b \in Buffers, NEW e \in Epoch, NEW o \in Obj
  PROVE  Sum(b, e, o) \in Nat
  <1>1. Jobs \in 0..Jobs
    OBVIOUS
  <1>2. QED
    BY <1>1, SumSteps

(* What holds for the empty sum, and for one job more, holds for all jobs. *)
LEMMA UpToAll ==
  ASSUME NEW S \in SUBSET (0..Jobs), 0 \in S, \A j \in Job : j - 1 \in S => j \in S
  PROVE  Jobs \in S
  <1> DEFINE Bad == (0..Jobs) \ S
  <1> SUFFICES ASSUME Bad # {} PROVE FALSE
    OBVIOUS
  <1>1. Bad \in SUBSET Nat
    OBVIOUS
  <1>2. PICK n \in Bad : \A m \in Bad : n <= m
    BY <1>1, HasLeast
  <1>3. n \in Job /\ n - 1 \in 0..Jobs /\ n - 1 \notin Bad
    BY <1>2 DEF Job
  <1>4. QED
    BY <1>2, <1>3

(* A sum of nothing is nothing.                                            *)
LEMMA SumZero ==
  ASSUME NEW b \in Buffers, NEW e \in Epoch, NEW o \in Obj, \A j \in Job : b[j][e][o] = 0
  PROVE  Sum(b, e, o) = 0
  <1>1. PICK s :
            /\ \A j \in 0..Jobs : s[j] \in Nat
            /\ s[0] = 0
            /\ \A j \in Job : s[j] = s[j - 1] + b[j][e][o]
            /\ Sum(b, e, o) = s[Jobs]
    BY SumSteps
  <1> DEFINE S == {j \in 0..Jobs : s[j] = 0}
  <1>2. \A j \in Job : j - 1 \in S => j \in S
    BY <1>1 DEF Job
  <1>3. 0 \in S /\ S \in SUBSET (0..Jobs)
    BY <1>1
  <1> HIDE DEF S
  <1>4. Jobs \in S
    BY <1>2, <1>3, UpToAll
  <1>5. QED
    BY <1>1, <1>4 DEF S

(* What one job holds is part of the sum.                                  *)
LEMMA SumHas ==
  ASSUME NEW b \in Buffers, NEW e \in Epoch, NEW o \in Obj, NEW i \in Job
  PROVE  Sum(b, e, o) >= b[i][e][o]
  <1>1. PICK s :
            /\ \A j \in 0..Jobs : s[j] \in Nat
            /\ s[0] = 0
            /\ \A j \in Job : s[j] = s[j - 1] + b[j][e][o]
            /\ Sum(b, e, o) = s[Jobs]
    BY SumSteps
  <1>t. \A j \in Job : b[j][e][o] \in Nat /\ j \in Nat /\ j \in 0..Jobs /\ j - 1 \in 0..Jobs
    BY DEF Buffers, Job
  <1> DEFINE S == {j \in 0..Jobs : j >= i => s[j] >= b[i][e][o]}
  <1>2. 0 \in S
    BY <1>t
  <1>3. ASSUME NEW j \in Job, j - 1 \in S
        PROVE  j \in S
    <2>1. s[j] = s[j - 1] + b[j][e][o] /\ s[j - 1] \in Nat /\ b[j][e][o] \in Nat
      BY <1>1, <1>t
    <2>2. CASE j = i
      BY <1>t, <2>1, <2>2
    <2>3. CASE j # i
      <3>1. j >= i => s[j - 1] >= b[i][e][o]
        BY <1>3, <1>t, <2>3
      <3>k. b[i][e][o] \in Nat
        BY <1>t
      <3>2. j >= i => s[j] >= b[i][e][o]
        BY <2>1, <3>1, <3>k
      <3>3. QED
        BY <1>t, <3>2
    <2>4. QED
      BY <2>2, <2>3
  <1>4. S \in SUBSET (0..Jobs) /\ Jobs >= i
    BY DEF Job
  <1> HIDE DEF S
  <1>5. Jobs \in S
    BY <1>2, <1>3, <1>4, UpToAll
  <1>6. QED
    BY <1>1, <1>4, <1>5 DEF S

(* Sums of the same are the same.                                          *)
LEMMA SumSame ==
  ASSUME NEW b \in Buffers, NEW c \in Buffers, NEW e \in Epoch, NEW f \in Epoch, NEW o \in Obj,
         \A j \in Job : c[j][f][o] = b[j][e][o]
  PROVE  Sum(c, f, o) = Sum(b, e, o)
  <1>1. PICK s :
            /\ \A j \in 0..Jobs : s[j] \in Nat
            /\ s[0] = 0
            /\ \A j \in Job : s[j] = s[j - 1] + b[j][e][o]
            /\ Sum(b, e, o) = s[Jobs]
    BY SumSteps
  <1>2. PICK t :
            /\ \A j \in 0..Jobs : t[j] \in Nat
            /\ t[0] = 0
            /\ \A j \in Job : t[j] = t[j - 1] + c[j][f][o]
            /\ Sum(c, f, o) = t[Jobs]
    BY SumSteps
  <1> DEFINE S == {j \in 0..Jobs : s[j] = t[j]}
  <1>3. \A j \in Job : j - 1 \in S => j \in S
    BY <1>1, <1>2 DEF Job
  <1>4. 0 \in S /\ S \in SUBSET (0..Jobs)
    BY <1>1, <1>2
  <1> HIDE DEF S
  <1>5. Jobs \in S
    BY <1>3, <1>4, UpToAll
  <1>6. QED
    BY <1>1, <1>2, <1>5 DEF S

(* Job i holds d more of o, and the other jobs what they held.             *)
More(b, c, e, o, i, d) ==
  /\ c[i][e][o] = b[i][e][o] + d
  /\ \A j \in Job \ {i} : c[j][e][o] = b[j][e][o]

(* When one job adds something, the sum grows by that.                     *)
LEMMA SumAdd ==
  ASSUME NEW b \in Buffers, NEW c \in Buffers, NEW e \in Epoch, NEW o \in Obj,
         NEW i \in Job, NEW d \in Nat, More(b, c, e, o, i, d)
  PROVE  Sum(c, e, o) = Sum(b, e, o) + d
  <1>1. PICK s :
            /\ \A j \in 0..Jobs : s[j] \in Nat
            /\ s[0] = 0
            /\ \A j \in Job : s[j] = s[j - 1] + b[j][e][o]
            /\ Sum(b, e, o) = s[Jobs]
    BY SumSteps
  <1>2. PICK t :
            /\ \A j \in 0..Jobs : t[j] \in Nat
            /\ t[0] = 0
            /\ \A j \in Job : t[j] = t[j - 1] + c[j][e][o]
            /\ Sum(c, e, o) = t[Jobs]
    BY SumSteps
  <1>n. \A j \in Job : b[j][e][o] \in Nat /\ c[j][e][o] \in Nat
    BY DEF Buffers
  <1>t. \A j \in Job : j \in Nat /\ j \in 0..Jobs /\ j - 1 \in 0..Jobs
    BY DEF Job
  <1> DEFINE S == {j \in 0..Jobs : t[j] = IF j >= i THEN s[j] + d ELSE s[j]}
  <1>3. 0 \in S
    <2>1. ~(0 >= i)
      BY <1>t DEF Job
    <2>2. QED
      BY <1>1, <1>2, <2>1
  <1>4. ASSUME NEW j \in Job, j - 1 \in S
        PROVE  j \in S
    <2>1. /\ s[j] = s[j - 1] + b[j][e][o] /\ s[j - 1] \in Nat /\ s[j] \in Nat
          /\ t[j] = t[j - 1] + c[j][e][o] /\ t[j - 1] \in Nat
      BY <1>1, <1>2, <1>t
    <2>n. b[j][e][o] \in Nat /\ c[j][e][o] \in Nat
      BY <1>n
    <2>2. CASE j = i
      <3>1. t[j - 1] = s[j - 1]
        BY <1>4, <1>t, <2>2
      <3>2. c[j][e][o] = b[j][e][o] + d
        BY <2>2 DEF More
      <3> HIDE DEF S
      <3>3. t[j] = s[j] + d
        BY <2>1, <2>n, <3>1, <3>2
      <3>4. j >= i
        BY <1>t, <2>2
      <3>5. QED
        BY <1>t, <3>3, <3>4 DEF S
    <2>3. CASE j # i
      <3>1. (j - 1 >= i <=> j >= i) /\ c[j][e][o] = b[j][e][o] /\ j \in 0..Jobs
        <4>1. j \in Nat /\ i \in Nat
          BY <1>t
        <4>2. j - 1 >= i <=> j >= i
          BY <2>3, <4>1
        <4>3. QED
          BY <1>t, <2>3, <4>2 DEF More
      <3>2. t[j - 1] = IF j >= i THEN s[j - 1] + d ELSE s[j - 1]
        BY <1>4, <3>1
      <3> HIDE DEF S
      <3>3. t[j] = IF j >= i THEN s[j] + d ELSE s[j]
        <4>1. CASE j >= i
          <5>1. t[j - 1] = s[j - 1] + d /\ c[j][e][o] = b[j][e][o]
            BY <3>1, <3>2, <4>1
          <5>2. QED
            BY <2>1, <2>n, <4>1, <5>1
        <4>2. CASE ~(j >= i)
          <5>1. t[j - 1] = s[j - 1] /\ c[j][e][o] = b[j][e][o]
            BY <3>1, <3>2, <4>2
          <5>2. QED
            BY <2>1, <2>n, <4>2, <5>1
        <4>3. QED
          BY <4>1, <4>2
      <3>4. QED
        BY <3>1, <3>3 DEF S
    <2>4. QED
      BY <2>2, <2>3
  <1>5. S \in SUBSET (0..Jobs) /\ Jobs >= i
    BY DEF Job
  <1> HIDE DEF S
  <1>6. Jobs \in S
    BY <1>3, <1>4, <1>5, UpToAll
  <1>7. QED
    BY <1>1, <1>2, <1>5, <1>6 DEF S

(* A sum that is not zero has a part that is not zero.                     *)
LEMMA SumPart ==
  ASSUME NEW b \in Buffers, NEW e \in Epoch, NEW o \in Obj
  PROVE  Sum(b, e, o) > 0 <=> \E j \in Job : b[j][e][o] > 0
  <1>t. \A j \in Job : b[j][e][o] \in Nat
    BY DEF Buffers
  <1>1. (\A j \in Job : b[j][e][o] = 0) => Sum(b, e, o) = 0
    BY SumZero
  <1>2. \A j \in Job : Sum(b, e, o) >= b[j][e][o]
    BY SumHas
  <1>3. Sum(b, e, o) \in Nat
    BY SumNat
  <1>4. QED
    BY <1>t, <1>1, <1>2, <1>3

(* What waits is what waits in the three epochs.                           *)
LEMMA PendingParts ==
  ASSUME NEW b \in Buffers, NEW e \in Epoch, NEW o \in Obj
  PROVE  Pending(b, o) = Sum(b, e, o) + Sum(b, Next3(e), o) + Sum(b, Prev3(e), o)
  <1>0. 0 \in Epoch /\ 1 \in Epoch /\ 2 \in Epoch
    BY DEF Epoch
  <1>t. Sum(b, 0, o) \in Nat /\ Sum(b, 1, o) \in Nat /\ Sum(b, 2, o) \in Nat
    BY <1>0, SumNat
  <1>1. CASE e = 0
    <2>1. Next3(e) = 1 /\ Prev3(e) = 2
      BY <1>1 DEF Next3, Prev3
    <2>2. QED
      BY <1>t, <1>1, <2>1 DEF Pending
  <1>2. CASE e = 1
    <2>1. Next3(e) = 2 /\ Prev3(e) = 0
      BY <1>2 DEF Next3, Prev3
    <2>2. QED
      BY <1>t, <1>2, <2>1 DEF Pending
  <1>3. CASE e = 2
    <2>1. Next3(e) = 0 /\ Prev3(e) = 1
      BY <1>3 DEF Next3, Prev3
    <2>2. QED
      BY <1>t, <1>3, <2>1 DEF Pending
  <1>4. QED
    BY <1>1, <1>2, <1>3 DEF Epoch

-----------------------------------------------------------------------------
(* Recursion from the youngest object down.                                *)

(* An operator on objects that looks at the younger objects only, given as *)
(* the table F of what it says of o when X are the younger objects of      *)
(* which it holds, has a solution.                                         *)
LEMMA Descends ==
  ASSUME NEW F
  PROVE  \E f : f = [o \in Obj |-> F[o][{p \in (o + 1)..Objects : f[p]}]]
  <1> DEFINE From(n) == (n + 1)..Objects
             Good(n) == \E f : f = [o \in From(n) |-> F[o][{p \in (o + 1)..Objects : f[p]}]]
             Left(n) == {m \in Nat : m <= Objects /\ Good(Objects - m)}
             Bad == {m \in Nat : m <= Objects /\ ~Good(Objects - m)}
  <1>0. Obj = From(0)
    BY DEF Obj
  <1> SUFFICES ASSUME ~Good(0) PROVE FALSE
    BY <1>0, Zenon
  <1> HIDE DEF Good
  <1>1. Objects - Objects = 0 /\ Objects <= Objects
    OBVIOUS
  <1>2. Bad \in SUBSET Nat /\ Objects \in Bad
    BY <1>1
  <1>3. PICK m \in Bad : \A k \in Bad : m <= k
    BY <1>2, HasLeast
  <1>4. m # 0
    <2>1. From(Objects) = {} /\ Objects - 0 = Objects
      OBVIOUS
    <2>2. Good(Objects)
      <3> DEFINE z == [o \in From(Objects) |-> TRUE]
      <3>1. z = [o \in From(Objects) |-> F[o][{p \in (o + 1)..Objects : z[p]}]]
        BY <2>1
      <3>2. QED
        BY <3>1, Zenon DEF Good
    <2>3. QED
      BY <1>3, <2>1, <2>2
  <1>5. /\ m \in Nat /\ m <= Objects /\ m - 1 \in Nat /\ ~Good(Objects - m)
        /\ Good(Objects - (m - 1))
    BY <1>3, <1>4
  <1> DEFINE n == Objects - m
  <1>6. n \in Nat /\ n + 1 <= Objects /\ Objects - (m - 1) = n + 1 /\ ~Good(n)
    BY <1>5
  <1> HIDE DEF n
  <1>7. PICK f : f = [o \in From(n + 1) |-> F[o][{p \in (o + 1)..Objects : f[p]}]]
    <2>1. Good(n + 1)
      BY <1>5, <1>6
    <2>2. QED
      BY <2>1, Zenon DEF Good
  <1> DEFINE g == [o \in From(n) |->
                     IF o = n + 1 THEN F[o][{p \in (o + 1)..Objects : f[p]}] ELSE f[o]]
  <1>8. ASSUME NEW o \in From(n)
        PROVE  g[o] = F[o][{p \in (o + 1)..Objects : g[p]}]
    <2>1. \A p \in (o + 1)..Objects : p \in From(n) /\ p # n + 1
      BY <1>6
    <2>2. \A p \in (o + 1)..Objects : g[p] = f[p]
      BY <2>1
    <2>3. {p \in (o + 1)..Objects : g[p]} = {p \in (o + 1)..Objects : f[p]}
      BY <2>2, Zenon
    <2>4. CASE o = n + 1
      BY <2>3, <2>4
    <2>5. CASE o # n + 1
      <3>1. o \in From(n + 1)
        BY <1>6, <2>5
      <3>2. f[o] = F[o][{p \in (o + 1)..Objects : f[p]}]
        BY <1>7, <3>1, Zenon
      <3>3. g[o] = f[o]
        BY <2>5
      <3>4. QED
        BY <2>3, <3>2, <3>3
    <2>6. QED
      BY <2>4, <2>5
  <1>9. g = [o \in From(n) |-> F[o][{p \in (o + 1)..Objects : g[p]}]]
    BY <1>8, Zenon
  <1>10. Good(n)
    BY <1>9, Zenon DEF Good
  <1>11. QED
    BY <1>6, <1>10

(* What gets its increments, and through new objects their children.       *)
LEMMA CountedFacts ==
  ASSUME NEW more, NEW o \in Obj
  PROVE  Counted(more)[o] <=>
            \/ more[o] > 0
            \/ \E p \in (o + 1)..Objects : p \in fresh /\ o \in kids[p] /\ Counted(more)[p]
  <1> DEFINE F == [q \in Obj |-> [X \in SUBSET Obj |->
                     more[q] > 0 \/ \E p \in X : p \in fresh /\ q \in kids[p]]]
             c == CHOOSE c : c = [q \in Obj |->
                     \/ more[q] > 0
                     \/ \E p \in (q + 1)..Objects : p \in fresh /\ q \in kids[p] /\ c[p]]
  <1> HIDE DEF F
  <1>1. PICK f : f = [q \in Obj |-> F[q][{p \in (q + 1)..Objects : f[p]}]]
    BY Descends, ZenonT(40)
  <1>2. \A q \in Obj : {p \in (q + 1)..Objects : f[p]} \in SUBSET Obj
    BY DEF Obj
  <1>3. \A q \in Obj : F[q][{p \in (q + 1)..Objects : f[p]}] =
           (\/ more[q] > 0
            \/ \E p \in (q + 1)..Objects : p \in fresh /\ q \in kids[p] /\ f[p])
    BY <1>2 DEF F
  <1>4. f = [q \in Obj |->
                     \/ more[q] > 0
                     \/ \E p \in (q + 1)..Objects : p \in fresh /\ q \in kids[p] /\ f[p]]
    BY <1>1, <1>3, Zenon
  <1>5. c = [q \in Obj |->
                     \/ more[q] > 0
                     \/ \E p \in (q + 1)..Objects : p \in fresh /\ q \in kids[p] /\ c[p]]
    BY <1>4, Zenon
  <1>6. Counted(more) = c
    BY DEF Counted
  <1> HIDE DEF c
  <1>7. c[o] = (\/ more[o] > 0
                \/ \E p \in (o + 1)..Objects : p \in fresh /\ o \in kids[p] /\ c[p])
    BY <1>5, Zenon
  <1>8. QED
    BY <1>6, <1>7

(* What falls: there are decrements, and they are all that counts.         *)
LEMMA FallsFacts ==
  ASSUME NEW count, NEW less, NEW new, NEW o \in Obj,
         NEW n, n = less[o] + Cardinality({p \in (o + 1)..Objects :
                                 p \notin new /\ o \in kids[p] /\ Falls(count, less, new)[p]})
  PROVE  Falls(count, less, new)[o] <=> n > 0 /\ count[o] = n
  <1> DEFINE N(q, X) == less[q] + Cardinality(X)
             P(q, X) == N(q, X) > 0 /\ count[q] = N(q, X)
             F == [q \in Obj |-> [X \in SUBSET Obj |-> P(q, {p \in X : p \notin new /\ q \in kids[p]})]]
             c == CHOOSE c : c = [q \in Obj |->
                     LET k == less[q] + Cardinality({p \in (q + 1)..Objects :
                                          p \notin new /\ q \in kids[p] /\ c[p]})
                     IN k > 0 /\ count[q] = k]
  <1> HIDE DEF F
  <1>1. PICK f : f = [q \in Obj |-> F[q][{p \in (q + 1)..Objects : f[p]}]]
    BY Descends, ZenonT(40)
  <1>2. \A q \in Obj : {p \in (q + 1)..Objects : f[p]} \in SUBSET Obj
    BY DEF Obj
  <1> HIDE DEF P
  <1>3. \A q \in Obj : F[q][{p \in (q + 1)..Objects : f[p]}] =
           P(q, {p \in {x \in (q + 1)..Objects : f[x]} : p \notin new /\ q \in kids[p]})
    BY <1>2, Zenon DEF F
  <1>4. \A q \in Obj : {p \in {x \in (q + 1)..Objects : f[x]} : p \notin new /\ q \in kids[p]}
                       = {p \in (q + 1)..Objects : p \notin new /\ q \in kids[p] /\ f[p]}
    OBVIOUS
  <1>5. \A q \in Obj : F[q][{p \in (q + 1)..Objects : f[p]}] =
           P(q, {p \in (q + 1)..Objects : p \notin new /\ q \in kids[p] /\ f[p]})
    BY <1>3, <1>4, Zenon
  <1>6. f = [q \in Obj |-> P(q, {p \in (q + 1)..Objects : p \notin new /\ q \in kids[p] /\ f[p]})]
    BY <1>1, <1>5, Zenon
  <1>7. c = [q \in Obj |-> P(q, {p \in (q + 1)..Objects : p \notin new /\ q \in kids[p] /\ c[p]})]
    BY <1>6, Zenon DEF P
  <1>8. Falls(count, less, new) = c
    BY Zenon DEF Falls
  <1> HIDE DEF c
  <1>9. c[o] = P(o, {p \in (o + 1)..Objects : p \notin new /\ o \in kids[p] /\ c[p]})
    BY <1>7, Zenon
  <1>10. n = N(o, {p \in (o + 1)..Objects : p \notin new /\ o \in kids[p] /\ c[p]})
    BY <1>8
  <1>11. c[o] <=> n > 0 /\ count[o] = n
    BY <1>9, <1>10, Zenon DEF P
  <1>12. QED
    BY <1>8, <1>11, Zenon

(* What a program can reach lies in every set that holds what it has and   *)
(* all that refers to.                                                     *)
LEMMA ReachableWithin ==
  ASSUME NEW T \in SUBSET Obj,
         \A p \in T : kids[p] \subseteq T,
         \A o \in Obj : \/ \E j \in Job : o \in stack[j] \cup lockbuf[j]
                        \/ kept[o] > 0 \/ messages = o
                        => o \in T
  PROVE  Reachable \subseteq T
  <1> DEFINE R(q) == (\E j \in Job : q \in stack[j] \cup lockbuf[j]) \/ kept[q] > 0 \/ messages = q
             F == [q \in Obj |-> [X \in SUBSET Obj |-> R(q) \/ \E p \in X : q \in kids[p]]]
             r == CHOOSE r : r = [q \in Obj |->
                     \/ \E j \in Job : q \in stack[j] \cup lockbuf[j]
                     \/ kept[q] > 0
                     \/ messages = q
                     \/ \E p \in (q + 1)..Objects : q \in kids[p] /\ r[p]]
  <1> HIDE DEF F
  <1>1. PICK f : f = [q \in Obj |-> F[q][{p \in (q + 1)..Objects : f[p]}]]
    BY Descends, ZenonT(40)
  <1>2. \A q \in Obj : {p \in (q + 1)..Objects : f[p]} \in SUBSET Obj
    BY DEF Obj
  <1>3. \A q \in Obj : F[q][{p \in (q + 1)..Objects : f[p]}] =
           (\/ \E j \in Job : q \in stack[j] \cup lockbuf[j]
            \/ kept[q] > 0
            \/ messages = q
            \/ \E p \in (q + 1)..Objects : q \in kids[p] /\ f[p])
    BY <1>2 DEF F
  <1>4. f = [q \in Obj |->
                     \/ \E j \in Job : q \in stack[j] \cup lockbuf[j]
                     \/ kept[q] > 0
                     \/ messages = q
                     \/ \E p \in (q + 1)..Objects : q \in kids[p] /\ f[p]]
    BY <1>1, <1>3, Zenon
  <1>5. r = [q \in Obj |->
                     \/ \E j \in Job : q \in stack[j] \cup lockbuf[j]
                     \/ kept[q] > 0
                     \/ messages = q
                     \/ \E p \in (q + 1)..Objects : q \in kids[p] /\ r[p]]
    BY <1>4, Zenon
  <1>6. Reachable = {o \in Obj : r[o]}
    BY Zenon DEF Reachable
  <1> HIDE DEF r
  <1>7. \A q \in Obj : r[q] <=> (R(q) \/ \E p \in (q + 1)..Objects : q \in kids[p] /\ r[p])
    BY <1>5, Zenon
  <1> DEFINE Bad == {o \in Obj : r[o] /\ o \notin T}
  <1> SUFFICES ASSUME Bad # {} PROVE FALSE
    BY <1>6
  <1>8. PICK o \in Bad : \A q \in Bad : q <= o
    BY HasYoungest
  <1>9. PICK p \in (o + 1)..Objects : o \in kids[p] /\ r[p]
    BY <1>7, <1>8
  <1>10. p \in Obj /\ ~(p <= o)
    BY <1>8, <1>9 DEF Obj
  <1>11. p \in T
    BY <1>8, <1>9, <1>10
  <1>12. QED
    BY <1>8, <1>9, <1>11

-----------------------------------------------------------------------------
(* Closures.                                                               *)
Closed(S) == \A p \in S : kids[p] \subseteq S

(* A set of objects, all they refer to, and nothing else.                  *)
LEMMA Closure ==
  ASSUME NEW X \in SUBSET Obj, kids \in [Obj -> SUBSET Obj]
  PROVE  \E C \in SUBSET Obj :
            /\ X \subseteq C
            /\ Closed(C)
            /\ \A o \in C : o \in X \/ \E p \in C : o \in kids[p]
            /\ \A T \in SUBSET Obj : X \subseteq T /\ Closed(T) => C \subseteq T
  <1> DEFINE C == {o \in Obj : \A T \in SUBSET Obj : X \subseteq T /\ Closed(T) => o \in T}
  <1>1. C \in SUBSET Obj /\ X \subseteq C
    OBVIOUS
  <1>2. Closed(C)
    BY DEF Closed
  <1>3. \A T \in SUBSET Obj : X \subseteq T /\ Closed(T) => C \subseteq T
    OBVIOUS
  <1>4. ASSUME NEW o \in C, o \notin X, \A p \in C : o \notin kids[p]
        PROVE  FALSE
    <2> DEFINE D == C \ {o}
    <2>1. D \in SUBSET Obj /\ X \subseteq D /\ Closed(D)
      BY <1>1, <1>2, <1>4 DEF Closed
    <2>2. C \subseteq D
      BY <1>3, <2>1
    <2>3. QED
      BY <1>4, <2>2
  <1>5. \A o \in C : o \in X \/ \E p \in C : o \in kids[p]
    BY <1>4, Zenon
  <1> HIDE DEF C
  <1>6. QED
    BY <1>1, <1>2, <1>3, <1>5, Zenon

-----------------------------------------------------------------------------
(* The inductive invariant.                                                *)

(* The epoch that the next collection takes, and the one after it.         *)
Now   == epoch[Gc]
Later == Next3(epoch[Gc])

(* Objects are born in order, refer to older ones, and to counted ones     *)
(* once they are counted themselves (__gab_gcobjincref).                   *)
Births == \E n \in 0..Objects : \A o \in Obj : status[o] = "unborn" <=> o > n

Kin ==
  /\ \A p \in Obj : \A o \in kids[p] : o < p /\ status[o] # "unborn"
  /\ \A p \in Obj \ fresh : Live(p) => \A o \in kids[p] : Live(o) /\ o \notin fresh

(* The collection reaches the jobs in order.                               *)
Phase ==
  /\ \A j \in Job : epoch[j] = IF j < turn THEN Later ELSE Now
  /\ turn > 0 => down < 4

(* Which buffers can hold something.                                       *)
Slots ==
  \A j \in Job : \A o \in Obj :
     /\ inc[j][Last][o] = 0
     /\ stk[j][Later][o] = 0
     /\ ~(j < turn) => inc[j][Later][o] = 0 /\ stk[j][Now][o] = 0

(* The increments that the next collection leaves are outweighed by kept   *)
(* references and by decrements that it leaves too.                        *)
Balance ==
  \A o \in Obj : Sum(inc, Later, o) <= kept[o] + Sum(dec, Now, o) + Sum(dec, Later, o)

(* Nothing counts, or refers to, an object that does not exist.            *)
Gone ==
  \A o \in Obj : ~Live(o) =>
     /\ refs[o] = 0
     /\ \A j \in Job : \A e \in Epoch : dec[j][e][o] = 0 /\ stk[j][e][o] = 0
     /\ snapshot[Last] # o

(* A kept object that was not counted yet is about to be.                  *)
FreshKept ==
  \A o \in fresh : kept[o] > 0 => \E j \in Job : \E e \in Epoch : inc[j][e][o] > 0

(* The jobs that hold o in their lock buffers, and the flag BUFFERED.      *)
Holders(o) == {j \in Job : o \in lockbuf[j]}

Flags == \A o \in buffered : status[o] = "freed" \/ Holders(o) # {}

(* What the program or a buffer leads to exists.                           *)
InHand(j) == stack[j] \cup lockbuf[j] \cup {reading[j]}

Rooted(o) ==
  \/ \E j \in Job : \/ o \in InHand(j)
                    \/ \E e \in Epoch : inc[j][e][o] > 0
                    \/ stk[j][Now][o] > 0
  \/ kept[o] > 0
  \/ messages = o

Existing(T) ==
  /\ \A o \in Obj : Rooted(o) => o \in T
  /\ Closed(T)
  /\ \A o \in T : Live(o)

Holds == \E T \in SUBSET Obj : Existing(T)

(* What a job that has reported leads to must survive the collection ...   *)
Marked(o) ==
  \/ \E j \in Job : \/ j < turn /\ o \in InHand(j)
                    \/ inc[j][Later][o] > 0
  \/ kept[o] > 0
  \/ messages = o

(* ... because something counts it when all is applied ...                 *)
Grounded(o) ==
  \/ Sum(inc, Later, o) < kept[o] + Sum(dec, Now, o) + Sum(dec, Later, o)
  \/ Holders(o) # {}
  \/ \E j \in Job : stk[j][Now][o] > 0
  \/ messages = o

(* ... or a survivor refers to it that is counted, or will be.             *)
Added(o) ==
  \/ \E j \in Job : inc[j][Now][o] > 0 \/ stk[j][Now][o] > 0
  \/ messages = o

Supports(S, G) ==
  /\ G \subseteq S
  /\ Closed(S)
  /\ \A o \in S : Live(o)
  /\ \A o \in G : o \notin fresh \/ Added(o) \/ \E p \in G : o \in kids[p]
  /\ \A o \in S : Grounded(o) \/ \E p \in G : o \in kids[p]

Saved ==
  \E S, G \in SUBSET Obj : Supports(S, G) /\ \A o \in Obj : Marked(o) => o \in S

(* What explains the count of o, see Accounting.                           *)
Parents(o) == {p \in Obj : Live(p) /\ p \notin fresh /\ o \in kids[p]}

Balanced(o) ==
  refs[o] + Pending(inc, o) =
    Cardinality(Parents(o)) + kept[o] + Pending(dec, o) + Sum(stk, Last, o)
    + Bit(snapshot[Last] = o) + Cardinality(Holders(o))

Counts == \A o \in Obj : Live(o) => Balanced(o)

IInv ==
  /\ TypeOK /\ Births /\ Kin /\ Phase /\ Slots /\ Balance /\ Counts
  /\ Gone /\ FreshKept /\ Flags /\ Holds /\ Saved

(* The invariant that a run checks, with its parts named.                  *)
LEMMA CountsAccount == Counts <=> Accounting
  BY Zenon DEF Counts, Accounting, Balanced, Parents, Holders

(* The variables with their types, one by one.                             *)
LEMMA Types ==
  ASSUME TypeOK
  PROVE  /\ inc \in Buffers /\ dec \in Buffers /\ stk \in Buffers
         /\ epoch[Gc] \in Epoch /\ Now \in Epoch /\ Later \in Epoch /\ Last \in Epoch
         /\ Now # Later /\ Now # Last /\ Later # Last
         /\ \A x \in Epoch : x = Now \/ x = Later \/ x = Last
  <1>1. inc \in Buffers /\ dec \in Buffers /\ stk \in Buffers
    BY DEF TypeOK, Buffers
  <1>2. epoch[Gc] \in Epoch
    BY DEF TypeOK, Gc
  <1>3. QED
    BY <1>1, <1>2, EpochFacts DEF Now, Later, Last

(* At first there is nothing.                                              *)
LEMMA InitTypes == Init => TypeOK
  <1> SUFFICES ASSUME Init PROVE TypeOK
    OBVIOUS
  <1>1. Empty \in [Epoch -> [Obj -> Nat]]
    BY DEF Empty
  <1>2. inc \in [Job -> [Epoch -> [Obj -> Nat]]] /\ dec = inc /\ stk = inc
    BY <1>1 DEF Init
  <1>3. {inc, dec, stk} \subseteq [Job -> [Epoch -> [Obj -> Nat]]]
    BY <1>2
  <1>4. 1 \in Epoch
    BY DEF Epoch
  <1>5. QED
    BY <1>3, <1>4 DEF Init, TypeOK

(* A step of a job leaves every variable in its type.                      *)
LEMMA QueueTypes ==
  ASSUME TypeOK, NEW b \in Buffers, NEW j \in Job, NEW o \in Obj
  PROVE  Queue(b, j, o) \in Buffers
  <1>1. epoch[j] \in Epoch
    BY DEF TypeOK
  <1>2. b[j] \in [Epoch -> [Obj -> Nat]] /\ b[j][epoch[j]] \in [Obj -> Nat]
        /\ b[j][epoch[j]][o] + 1 \in Nat
    BY <1>1 DEF Buffers
  <1>3. QED
    BY <1>1, <1>2 DEF Queue, Buffers

(* What the jobs do, and the start of a collection, keep every type.       *)
LEMMA TypeStep ==
  ASSUME TypeOK, Births, Phase, NEW j \in Job, Mutate(j) \/ Report(j) \/ Start \/ Destroy
  PROVE  TypeOK'
  <1>b. inc \in Buffers /\ dec \in Buffers /\ stk \in Buffers
    BY Types
  <1>t. /\ stack \in [Job -> SUBSET Obj] /\ lockbuf \in [Job -> SUBSET Obj]
        /\ kids \in [Obj -> SUBSET Obj] /\ locked \in [Job -> Nat] /\ kept \in [Obj -> Nat]
        /\ reading \in [Job -> Obj \cup {None}] /\ messages \in Obj \cup {None}
        /\ epoch \in [Job \cup {Gc} -> Epoch] /\ refs \in [Obj -> Nat]
        /\ fresh \subseteq Obj /\ buffered \subseteq Obj
        /\ status \in [Obj -> {"unborn", "live", "freed"}]
    BY DEF TypeOK
  <1>s. ASSUME NEW b, NEW c, NEW d, b \in Buffers, c \in Buffers, d \in Buffers
        PROVE  {b, c, d} \subseteq [Job -> [Epoch -> [Obj -> Nat]]]
    BY <1>s DEF Buffers
  <1>e. epoch[j] \in Epoch
    BY <1>t
  <1>1. CASE New(j)
    <2>o. PICK o \in Obj : o = Youngest + 1
      <3>1. Youngest \in Nat
        <4>1. IsFiniteSet({o \in Obj : status[o] # "unborn"})
          BY FS_Interval, FS_Subset DEF Obj
        <4>2. QED
          BY <4>1, FS_CardinalityType DEF Youngest
      <3>2. Youngest + 1 \in Obj
        BY <1>1, <3>1 DEF New, Obj
      <3>3. QED
        BY <3>2
    <2>1. /\ status' = [status EXCEPT ![o] = "live"] /\ refs' = [refs EXCEPT ![o] = 1]
          /\ fresh' = fresh \cup {o}
          /\ \E K \in SUBSET (stack[j] \cup lockbuf[j]) : kids' = [kids EXCEPT ![o] = K]
          /\ UNCHANGED <<locked, kept, messages, reading, snapshot, inc, stk, epoch,
                         turn, rounds, down>>
      BY <1>1, <2>o, Zenon DEF New
    <2>2. \/ /\ lockbuf' = [lockbuf EXCEPT ![j] = lockbuf[j] \cup {o}]
             /\ buffered' = buffered \cup {o} /\ stack' = stack /\ dec' = dec
          \/ /\ dec' = Queue(dec, j, o)
             /\ stack' = [stack EXCEPT ![j] = stack[j] \cup {o}]
             /\ lockbuf' = lockbuf /\ buffered' = buffered
      BY <1>1, <2>o, Zenon DEF New
    <2>3. dec' \in Buffers
      BY <1>b, <2>2, QueueTypes
    <2>4. stack' \in [Job -> SUBSET Obj] /\ lockbuf' \in [Job -> SUBSET Obj]
          /\ buffered' \subseteq Obj
      BY <1>t, <2>2
    <2>5. kids' \in [Obj -> SUBSET Obj]
      BY <1>t, <2>1
    <2>6. status' \in [Obj -> {"unborn", "live", "freed"}] /\ refs' \in [Obj -> Nat]
          /\ fresh' \subseteq Obj
      BY <1>t, <2>1
    <2>7. {inc', dec', stk'} \subseteq [Job -> [Epoch -> [Obj -> Nat]]]
      BY <1>b, <1>s, <2>1, <2>3
    <2>8. QED
      BY <2>1, <2>4, <2>5, <2>6, <2>7 DEF TypeOK
  <1>2. CASE Push(j) \/ Pop(j) \/ ReadUse(j) \/ \E i \in Job : Hand(i, j)
    <2>1. stack' \in [Job -> SUBSET Obj]
      <3>1. CASE Push(j)
        BY <1>t, <3>1 DEF Push
      <3>2. CASE Pop(j)
        BY <1>t, <3>2 DEF Pop
      <3>3. CASE ReadUse(j)
        BY <1>t, <3>3 DEF ReadUse
      <3>4. CASE \E i \in Job : Hand(i, j)
        BY <1>t, <3>4 DEF Hand
      <3>5. QED
        BY <1>2, <3>1, <3>2, <3>3, <3>4
    <2>2. reading' \in [Job -> Obj \cup {None}]
      BY <1>2, <1>t DEF Push, Pop, ReadUse, Hand
    <2>3. UNCHANGED <<objects, locked, lockbuf, kept, messages, snapshot, buffers, epoch,
                      turn, rounds, down>>
      BY <1>2 DEF Push, Pop, ReadUse, Hand
    <2>4. QED
      BY <2>1, <2>2, <2>3 DEF TypeOK, objects, buffers
  <1>3. CASE Keep(j)
    <2>1. PICK o \in Obj : /\ inc' = Queue(inc, j, o) /\ kept' = [kept EXCEPT ![o] = @ + 1]
      BY <1>3, <1>t DEF Keep
    <2>2. inc' \in Buffers /\ kept' \in [Obj -> Nat]
      BY <1>b, <1>t, <2>1, QueueTypes
    <2>3. UNCHANGED <<objects, stack, locked, lockbuf, messages, reading, snapshot,
                 dec, stk, epoch, turn, rounds, down>>
      BY <1>3 DEF Keep
    <2>4. {inc', dec', stk'} \subseteq [Job -> [Epoch -> [Obj -> Nat]]]
      BY <1>b, <1>s, <2>2, <2>3
    <2>5. QED
      BY <2>2, <2>3, <2>4 DEF TypeOK, objects
  <1>4. CASE Drop(j)
    <2>1. PICK o \in Obj : /\ dec' = Queue(dec, j, o) /\ kept' = [kept EXCEPT ![o] = @ - 1]
                           /\ kept[o] > 0
      BY <1>4 DEF Drop
    <2>2. dec' \in Buffers
      BY <1>b, <2>1, QueueTypes
    <2>3. kept' \in [Obj -> Nat]
      <3>1. kept[o] - 1 \in Nat
        BY <1>t, <2>1
      <3>2. QED
        BY <1>t, <2>1, <3>1
    <2>4. UNCHANGED <<objects, stack, locked, lockbuf, messages, reading, snapshot,
                 inc, stk, epoch, turn, rounds, down>>
      BY <1>4 DEF Drop
    <2>5. {inc', dec', stk'} \subseteq [Job -> [Epoch -> [Obj -> Nat]]]
      BY <1>b, <1>s, <2>2, <2>4
    <2>6. QED
      BY <2>3, <2>4, <2>5 DEF TypeOK, objects
  <1>5. CASE Lock(j) \/ Define(j) \/ ReadLoad(j)
    <2>1. locked' \in [Job -> Nat]
      <3>1. locked' = locked \/ locked' = [locked EXCEPT ![j] = @ + 1]
        BY <1>5 DEF Lock, Define, ReadLoad
      <3>2. QED
        BY <1>t, <3>1
    <2>2. messages' \in Obj \cup {None} /\ reading' \in [Job -> Obj \cup {None}]
      BY <1>5, <1>t DEF Lock, Define, ReadLoad
    <2>3. UNCHANGED <<objects, stack, lockbuf, kept, snapshot,
                 buffers, epoch, turn, rounds, down>>
      BY <1>5 DEF Lock, Define, ReadLoad
    <2>4. QED
      BY <2>1, <2>2, <2>3 DEF TypeOK, objects, buffers
  <1>6. CASE Unlock(j)
    <2>1. locked' = [locked EXCEPT ![j] = @ - 1] /\ locked[j] > 0
          /\ UNCHANGED <<status, refs, fresh, kids, kept, messages, reading, snapshot,
                 inc, stk, epoch, turn, rounds, down>>
      BY <1>6 DEF Unlock
    <2>2. locked' \in [Job -> Nat]
      <3>1. locked[j] - 1 \in Nat
        BY <1>t, <2>1
      <3>2. QED
        BY <1>t, <2>1, <3>1
    <2>3. /\ buffered' \subseteq Obj /\ stack' \in [Job -> SUBSET Obj]
          /\ lockbuf' \in [Job -> SUBSET Obj]
      BY <1>6, <1>t DEF Unlock
    <2>4. dec' \in Buffers
      <3>1. CASE dec' = dec
        BY <1>b, <3>1
      <3>2. CASE dec' = [dec EXCEPT ![j][epoch[j]] =
                      [o \in Obj |-> @[o] + IF o \in lockbuf[j] THEN 1 ELSE 0]]
        BY <1>b, <1>e, <3>2 DEF Buffers
      <3>3. QED
        BY <1>6, <3>1, <3>2 DEF Unlock
    <2>5. {inc', dec', stk'} \subseteq [Job -> [Epoch -> [Obj -> Nat]]]
      BY <1>b, <1>s, <2>1, <2>4
    <2>6. QED
      BY <2>1, <2>2, <2>3, <2>5 DEF TypeOK
  <1>7. CASE Report(j)
    <2>1. /\ stk' = [stk EXCEPT ![j][epoch[j]] =
                [o \in Obj |-> @[o] + Bit(o \in stack[j]) + Bit(o \in lockbuf[j])]]
          /\ epoch' = [epoch EXCEPT ![j] = Next3(epoch[j])]
          /\ turn' = turn + 1 /\ turn = j
          /\ UNCHANGED <<objects, roots, snapshot, inc, dec, rounds, down>>
      BY <1>7 DEF Report
    <2>2. stk' \in Buffers
      BY <1>b, <1>e, <2>1 DEF Buffers, Bit
    <2>3. epoch' \in [Job \cup {Gc} -> Epoch]
      BY <1>t, <1>e, <2>1, EpochFacts
    <2>4. turn' \in 0..(Jobs + 1)
      BY <2>1 DEF Job
    <2>5. {inc', dec', stk'} \subseteq [Job -> [Epoch -> [Obj -> Nat]]]
      BY <1>b, <1>s, <2>1, <2>2
    <2>6. QED
      BY <2>1, <2>3, <2>4, <2>5 DEF TypeOK, objects, roots
  <1>8. CASE Start
    <2>1. 1 \in 0..(Jobs + 1)
      OBVIOUS
    <2>2. QED
      BY <1>8, <2>1 DEF Start, TypeOK, objects, roots, buffers
  <1>9. CASE Destroy
    <2>1. /\ dec' = [dec EXCEPT ![1][epoch[1]] = [o \in Obj |-> @[o] + kept[o]]]
          /\ kept' = [o \in Obj |-> 0] /\ messages' = None /\ down' = 0
          /\ UNCHANGED <<objects, stack, locked, lockbuf, reading, snapshot, inc, stk,
                 epoch, turn, rounds>>
      BY <1>9 DEF Destroy
    <2>2. dec' \in Buffers
      <3>1. 1 \in Job /\ epoch[1] \in Epoch
        BY <1>t DEF Job
      <3>2. QED
        BY <1>b, <1>t, <2>1, <3>1 DEF Buffers
    <2>3. {inc', dec', stk'} \subseteq [Job -> [Epoch -> [Obj -> Nat]]]
      BY <1>b, <1>s, <2>1, <2>2
    <2>4. QED
      BY <2>1, <2>3 DEF TypeOK, objects
  <1>10. QED
    BY <1>1, <1>2, <1>3, <1>4, <1>5, <1>6, <1>7, <1>8, <1>9 DEF Mutate


-----------------------------------------------------------------------------
(* Buffers that grow.                                                      *)

(* Job j adds d[o] records of each object o for epoch x.                   *)
Adds(b, c, j, x, d) ==
  \A i \in Job : \A e \in Epoch : \A o \in Obj :
     c[i][e][o] = IF i = j /\ e = x THEN b[i][e][o] + d[o] ELSE b[i][e][o]

(* The sums grow by what the job adds.                                     *)
LEMMA AddsSum ==
  ASSUME NEW b \in Buffers, NEW c \in Buffers, NEW j \in Job, NEW x \in Epoch,
         NEW d \in [Obj -> Nat], Adds(b, c, j, x, d), NEW o \in Obj
  PROVE  /\ Sum(c, x, o) = Sum(b, x, o) + d[o]
         /\ \A e \in Epoch : e # x => Sum(c, e, o) = Sum(b, e, o)
         /\ Pending(c, o) = Pending(b, o) + d[o]
  <1>1. Sum(c, x, o) = Sum(b, x, o) + d[o]
    <2>1. More(b, c, x, o, j, d[o])
      BY DEF Adds, More
    <2>2. d[o] \in Nat
      OBVIOUS
    <2>3. QED
      BY <2>1, <2>2, SumAdd
  <1>2. ASSUME NEW e \in Epoch, e # x
        PROVE  Sum(c, e, o) = Sum(b, e, o)
    <2>1. \A i \in Job : c[i][e][o] = b[i][e][o]
      BY <1>2 DEF Adds
    <2>2. QED
      BY <2>1, SumSame
  <1>3. Pending(c, o) = Pending(b, o) + d[o]
    <2>1. /\ Pending(c, o) = Sum(c, x, o) + Sum(c, Next3(x), o) + Sum(c, Prev3(x), o)
          /\ Pending(b, o) = Sum(b, x, o) + Sum(b, Next3(x), o) + Sum(b, Prev3(x), o)
      BY PendingParts
    <2>2. Next3(x) \in Epoch /\ Prev3(x) \in Epoch /\ x # Next3(x) /\ x # Prev3(x)
      BY EpochFacts
    <2>3. Sum(c, Next3(x), o) = Sum(b, Next3(x), o) /\ Sum(c, Prev3(x), o) = Sum(b, Prev3(x), o)
      BY <1>2, <2>2
    <2>4. /\ Sum(b, x, o) \in Nat /\ Sum(b, Next3(x), o) \in Nat
          /\ Sum(b, Prev3(x), o) \in Nat /\ d[o] \in Nat
      BY <2>2, SumNat
    <2>5. QED
      BY <1>1, <2>1, <2>3, <2>4
  <1>4. QED
    BY <1>1, <1>2, <1>3

(* One record of o.                                                        *)
One(o) == [q \in Obj |-> IF q = o THEN 1 ELSE 0]

(* gab_iref and gab_dref add one record.                                   *)
LEMMA QueueAdds ==
  ASSUME NEW b \in Buffers, NEW j \in Job, epoch[j] \in Epoch, NEW o \in Obj
  PROVE  Adds(b, Queue(b, j, o), j, epoch[j], One(o))
  <1>1. \A i \in Job : \A e \in Epoch : \A q \in Obj : b[i][e][q] \in Nat
    BY DEF Buffers
  <1>2. QED
    BY <1>1 DEF Adds, Queue, One, Buffers

(* A buffer that stays the same.                                           *)
LEMMA NothingAdds ==
  ASSUME NEW b \in Buffers, NEW j \in Job, NEW x \in Epoch
  PROVE  Adds(b, b, j, x, [q \in Obj |-> 0])
  <1>1. \A i \in Job : \A e \in Epoch : \A q \in Obj : b[i][e][q] \in Nat
    BY DEF Buffers
  <1>2. QED
    BY <1>1 DEF Adds

(* The jobs that hold o are finitely many.                                 *)
LEMMA FiniteHolders ==
  ASSUME NEW o
  PROVE  /\ IsFiniteSet(Holders(o)) /\ Cardinality(Holders(o)) \in Nat
         /\ Cardinality(Holders(o)) = 0 <=> Holders(o) = {}
  <1>1. IsFiniteSet(Job)
    BY FS_Interval DEF Job
  <1>2. Holders(o) \subseteq Job
    BY DEF Holders
  <1>3. IsFiniteSet(Holders(o))
    BY <1>1, <1>2, FS_Subset
  <1>4. QED
    BY <1>3, FS_CardinalityType, FS_EmptySet

(* The references of the lock buffers to an object are finitely many.      *)
HoldersCounted ==
  \A o \in Obj : /\ Cardinality(Holders(o)) \in Nat
                 /\ Cardinality(Holders(o)) = 0 <=> Holders(o) = {}

(* So for every object.                                                    *)
LEMMA AllHoldersCounted == HoldersCounted
  BY FiniteHolders DEF HoldersCounted

-----------------------------------------------------------------------------
(* The survivors.                                                          *)

(* What is counted in its own right can be added to the survivors, with    *)
(* all it refers to.                                                       *)
Extends ==
  kids \in [Obj -> SUBSET Obj] =>
    \A S, G, T, X \in SUBSET Obj :
       /\ Supports(S, G)
       /\ Closed(T) /\ \A o \in T : Live(o)
       /\ X \subseteq T
       /\ \A o \in X : Grounded(o) /\ (o \notin fresh \/ Added(o))
       => \E S2, G2 \in SUBSET Obj : Supports(S2, G2) /\ S \cup X \subseteq S2

(* The closure of what is added joins the survivors.                       *)
LEMMA Extend == Extends
  <1> SUFFICES ASSUME kids \in [Obj -> SUBSET Obj],
                      NEW S \in SUBSET Obj, NEW G \in SUBSET Obj,
                      NEW T \in SUBSET Obj, NEW X \in SUBSET Obj,
                      Supports(S, G), Closed(T), \A o \in T : Live(o), X \subseteq T,
                      \A o \in X : Grounded(o) /\ (o \notin fresh \/ Added(o))
               PROVE  \E S2, G2 \in SUBSET Obj : Supports(S2, G2) /\ S \cup X \subseteq S2
    BY DEF Extends
  <1>1. PICK C \in SUBSET Obj :
            /\ X \subseteq C
            /\ Closed(C)
            /\ \A o \in C : o \in X \/ \E p \in C : o \in kids[p]
            /\ \A U \in SUBSET Obj : X \subseteq U /\ Closed(U) => C \subseteq U
    BY Closure, Zenon
  <1>c. C \subseteq T
    BY <1>1
  <1>2. Supports(S \cup C, G \cup C)
    <2>1. Closed(S \cup C)
      BY <1>1 DEF Supports, Closed
    <2>2. \A o \in S \cup C : Live(o)
      BY <1>c DEF Supports
    <2>3. \A o \in G \cup C : o \notin fresh \/ Added(o) \/ \E p \in G \cup C : o \in kids[p]
      BY <1>1 DEF Supports
    <2>4. \A o \in S \cup C : Grounded(o) \/ \E p \in G \cup C : o \in kids[p]
      BY <1>1 DEF Supports
    <2>5. G \cup C \subseteq S \cup C
      BY DEF Supports
    <2>6. QED
      BY <2>1, <2>2, <2>3, <2>4, <2>5 DEF Supports
  <1>3. QED
    BY <1>1, <1>2

(* While no job has reported, what must survive is what is kept and the    *)
(* messages, and that is counted.                                          *)
Starts == TypeOK /\ Slots /\ FreshKept /\ Holds /\ turn <= 1 => Saved

(* At the start nobody has reported and no record waits for later.         *)
LEMMA SavedAtStart == Starts
  <1> SUFFICES ASSUME TypeOK, Slots, FreshKept, Holds, turn <= 1
               PROVE  Saved
    BY DEF Starts
  <1>1. PICK T \in SUBSET Obj : Existing(T)
    BY DEF Holds
  <1>2. \A j \in Job : ~(j < turn)
    BY DEF TypeOK, Job
  <1>t. /\ inc \in Buffers /\ dec \in Buffers /\ Now \in Epoch /\ Later \in Epoch
        /\ \A x \in Epoch : x = Now \/ x = Later \/ x = Last
        /\ kept \in [Obj -> Nat] /\ kids \in [Obj -> SUBSET Obj]
    BY Types DEF TypeOK
  <1>l. \A j \in Job : \A o \in Obj : inc[j][Later][o] = 0 /\ inc[j][Last][o] = 0
    BY <1>2 DEF Slots
  <1> DEFINE X == {o \in Obj : kept[o] > 0 \/ messages = o}
  <1>3. X \in SUBSET Obj /\ X \subseteq T
    BY <1>1 DEF Existing, Rooted
  <1>4. ASSUME NEW o \in X
        PROVE  Grounded(o) /\ (o \notin fresh \/ Added(o))
    <2>1. CASE messages = o
      BY <2>1 DEF Grounded, Added
    <2>2. CASE kept[o] > 0
      <3>0. o \in Obj
        OBVIOUS
      <3>1. Sum(inc, Later, o) = 0
        BY <1>t, <1>l, <3>0, SumZero
      <3>2. kept[o] \in Nat /\ Sum(dec, Now, o) \in Nat /\ Sum(dec, Later, o) \in Nat
        BY <1>t, <3>0, SumNat
      <3>3. Grounded(o)
        BY <2>2, <3>1, <3>2 DEF Grounded
      <3>4. CASE o \in fresh
        <4>1. PICK j \in Job, e \in Epoch : inc[j][e][o] > 0
          BY <2>2, <3>4 DEF FreshKept
        <4>2. e = Now
          BY <1>t, <1>l, <3>0, <4>1
        <4>3. QED
          BY <3>3, <4>1, <4>2 DEF Added
      <3>5. QED
        BY <3>3, <3>4
    <2>3. QED
      BY <2>1, <2>2
  <1>5. Supports({}, {})
    BY DEF Supports, Closed
  <1>6. \A o \in Obj : Marked(o) => o \in X
    BY <1>2, <1>l DEF Marked
  <1>7. Closed(T) /\ \A o \in T : Live(o)
    BY <1>1 DEF Existing
  <1> HIDE DEF X
  <1>8. PICK S2 \in SUBSET Obj, G2 \in SUBSET Obj :
            Supports(S2, G2) /\ {} \cup X \subseteq S2
    <2>1. {} \in SUBSET Obj
      OBVIOUS
    <2>2. QED
      BY <1>t, <1>3, <1>4, <1>5, <1>7, <2>1, Extend, Zenon DEF Extends
  <1>9. QED
    BY <1>6, <1>8 DEF Saved

-----------------------------------------------------------------------------
(* The first state.                                                        *)

(* There is no object and no record.                                       *)
LEMMA InitInv == Init => IInv
  <1> SUFFICES ASSUME Init PROVE IInv
    OBVIOUS
  <1>1. TypeOK
    BY InitTypes
  <1>t. /\ inc \in Buffers /\ dec \in Buffers /\ stk \in Buffers
        /\ Now \in Epoch /\ Later \in Epoch /\ Last \in Epoch
    BY <1>1, Types
  <1>2. \A j \in Job : \A e \in Epoch : \A o \in Obj :
           inc[j][e][o] = 0 /\ dec[j][e][o] = 0 /\ stk[j][e][o] = 0
    BY DEF Init, Empty
  <1>3. \A e \in Epoch : \A o \in Obj : Sum(inc, e, o) = 0 /\ Sum(dec, e, o) = 0
    BY <1>t, <1>2, SumZero
  <1>4. \A o \in Obj : ~Live(o)
    BY DEF Init, Live
  <1>o. None \notin Obj
    BY DEF Obj
  <1>5. \A o \in Obj : ~Rooted(o) /\ ~Marked(o)
    <2>1. /\ messages = None /\ stack = [j \in Job |-> {}] /\ lockbuf = [j \in Job |-> {}]
          /\ reading = [j \in Job |-> None] /\ kept = [o \in Obj |-> 0]
      BY DEF Init
    <2>2. \A o \in Obj : messages # o /\ ~(kept[o] > 0) /\ \A j \in Job : o \notin InHand(j)
      BY <1>o, <2>1 DEF InHand
    <2>3. \A j \in Job : \A e \in Epoch : \A o \in Obj : ~(inc[j][e][o] > 0) /\ ~(stk[j][e][o] > 0)
      BY <1>2
    <2>4. QED
      BY <1>t, <2>2, <2>3, Zenon DEF Rooted, Marked
  <1>6. Births
    <2>1. \A o \in Obj : status[o] = "unborn" <=> o > 0
      BY DEF Init, Obj
    <2>2. QED
      BY <2>1 DEF Births
  <1>7. Kin
    BY <1>4 DEF Init, Kin
  <1>8. Phase
    BY <1>1 DEF Init, Phase, Now, Job, Gc
  <1>9. Slots
    BY <1>2, <1>t DEF Slots
  <1>10. Balance
    BY <1>3, <1>t DEF Balance, Init
  <1>11. Counts
    BY <1>4 DEF Counts
  <1>12. Gone
    BY <1>2, <1>t, <1>o DEF Gone, Init
  <1>13. FreshKept /\ Flags
    BY DEF FreshKept, Flags, Init
  <1>14. Existing({}) /\ Supports({}, {})
    BY <1>5 DEF Existing, Supports, Closed
  <1>15. {} \in SUBSET Obj
    OBVIOUS
  <1>16. Holds
    BY <1>14, <1>15, Zenon DEF Holds
  <1>17. Saved
    BY <1>5, <1>14, <1>15, Zenon DEF Saved
  <1>18. QED
    BY <1>1, <1>6, <1>7, <1>8, <1>9, <1>10, <1>11, <1>12, <1>13, <1>16, <1>17 DEF IInv

-----------------------------------------------------------------------------
(* Steps that move references only.                                        *)

(* The parts of the invariant, one by one.                                 *)
LEMMA Parts ==
  ASSUME IInv
  PROVE  /\ TypeOK /\ Births /\ Kin /\ Phase /\ Slots /\ Balance /\ Counts
         /\ Gone /\ FreshKept /\ Flags /\ Holds /\ Saved
  BY DEF IInv

(* A step that leaves objects, counts and buffers alone, and lets nobody   *)
(* get at what he could not get at before: pushing, popping, taking the    *)
(* lock, reading and defining messages, handing over.                      *)
Quiet ==
  /\ UNCHANGED <<objects, lockbuf, kept, snapshot, buffers, epoch, turn, down>>
  /\ \A o \in Obj : Rooted(o)' => Rooted(o) \/ \E p \in Obj : Rooted(p) /\ o \in kids[p]
  /\ \/ turn <= 1
     \/ /\ messages' = messages
        /\ \A o \in Obj : Marked(o)' => Marked(o) \/ \E p \in Obj : Marked(p) /\ o \in kids[p]

(* Such a step keeps the invariant.                                        *)
LEMMA QuietStep ==
  ASSUME IInv, TypeOK', Quiet
  PROVE  IInv'
  <1>i. /\ TypeOK /\ Births /\ Kin /\ Phase /\ Slots /\ Balance /\ Counts
        /\ Gone /\ FreshKept /\ Flags /\ Holds /\ Saved
    BY Parts
  <1>u. /\ UNCHANGED <<status, refs, fresh, buffered, kids, lockbuf, kept, snapshot>>
        /\ UNCHANGED <<inc, dec, stk, epoch, turn, down>>
    BY DEF Quiet, objects, buffers
  <1>n. Now' = Now /\ Later' = Later /\ Last' = Last
    BY <1>u DEF Now, Later, Last
  <1>l. \A o : Live(o)' = Live(o) /\ Holders(o)' = Holders(o)
    BY <1>u DEF Live, Holders
  <1>1. Births'
    BY <1>i, <1>u DEF Births
  <1>2. Kin'
    BY <1>i, <1>u DEF Kin, Live
  <1>3. Phase'
    BY <1>i, <1>u, <1>n DEF Phase
  <1>4. Slots'
    BY <1>i, <1>u, <1>n DEF Slots
  <1>s. \A e \in Epoch : \A o \in Obj : /\ Sum(inc, e, o)' = Sum(inc, e, o)
                                        /\ Sum(dec, e, o)' = Sum(dec, e, o)
    BY <1>u DEF Sum
  <1>5. Balance'
    BY <1>i, <1>u, <1>n DEF Balance, Sum
  <1>6. Counts'
    <2>1. \A o : Balanced(o)' = Balanced(o)
      BY <1>u, <1>n DEF Balanced, Parents, Pending, Sum, Holders, Live
    <2>2. QED
      BY <1>i, <1>l, <2>1 DEF Counts
  <1>7. Gone'
    BY <1>i, <1>u, <1>n DEF Gone, Live
  <1>8. FreshKept'
    BY <1>i, <1>u DEF FreshKept
  <1>9. Flags'
    BY <1>i, <1>u DEF Flags, Holders
  <1>10. PICK T \in SUBSET Obj : Existing(T)
    BY <1>i DEF Holds
  <1>11. Existing(T)'
    <2>1. \A o \in Obj : Rooted(o)' => o \in T
      BY <1>10 DEF Quiet, Existing, Closed
    <2>2. QED
      BY <1>10, <1>u, <1>l, <2>1 DEF Existing, Closed
  <1>12. Holds'
    BY <1>11 DEF Holds
  <1>13. Saved'
    <2>1. CASE turn <= 1
      <3>1. turn' <= 1
        BY <1>u, <2>1
      <3>2. Starts'
        BY SavedAtStart, PTL
      <3>3. QED
        BY <1>4, <1>8, <1>12, <3>1, <3>2 DEF Starts
    <2>2. CASE ~(turn <= 1)
      <3>1. PICK S \in SUBSET Obj, G \in SUBSET Obj :
               Supports(S, G) /\ \A o \in Obj : Marked(o) => o \in S
        BY <1>i DEF Saved
      <3>2. \A o \in Obj : Marked(o)' => o \in S
        BY <2>2, <3>1 DEF Quiet, Supports, Closed
      <3>3. messages' = messages
        BY <2>2 DEF Quiet
      <3>4. \A o \in Obj : Grounded(o)' = Grounded(o) /\ Added(o)' = Added(o)
        BY <1>u, <1>n, <3>3 DEF Grounded, Added, Sum, Holders
      <3>5. Supports(S, G)'
        <4>1. \A o \in G : o \notin fresh' \/ Added(o)' \/ \E p \in G : o \in kids'[p]
          BY <1>u, <3>1, <3>4 DEF Supports
        <4>2. \A o \in S : Grounded(o)' \/ \E p \in G : o \in kids'[p]
          BY <1>u, <3>1, <3>4 DEF Supports
        <4>3. QED
          BY <1>u, <1>l, <3>1, <4>1, <4>2 DEF Supports, Closed
      <3>6. QED
        BY <3>2, <3>5 DEF Saved
    <2>3. QED
      BY <2>1, <2>2
  <1>14. QED
    BY <1>1, <1>2, <1>3, <1>4, <1>5, <1>6, <1>7, <1>8, <1>9, <1>12, <1>13 DEF IInv

(* What a job may come to hold: what another job that the collection has   *)
(* reached as well holds, what that refers to, and the messages.           *)
Gets(j, o) ==
  \/ messages = o
  \/ \E i \in Job : /\ j < turn => i < turn
                    /\ o \in InHand(i) \/ \E p \in Obj : p \in InHand(i) /\ o \in kids[p]

(* A step that only lets a job come to hold what it gets is quiet.         *)
LEMMA HandsQuiet ==
  ASSUME NEW j \in Job,
         UNCHANGED <<objects, lockbuf, kept, messages, snapshot, buffers, epoch, turn, down>>,
         \A i \in Job : \A o \in Obj :
            o \in InHand(i)' => o \in InHand(i) \/ (i = j /\ Gets(j, o))
  PROVE  Quiet
  <1>u. UNCHANGED <<kids, kept, messages, inc, stk, epoch, turn>>
    BY DEF objects, buffers
  <1>n. Now' = Now /\ Later' = Later
    BY <1>u DEF Now, Later
  <1>1. ASSUME NEW o \in Obj, Gets(j, o)
        PROVE  /\ Rooted(o) \/ \E p \in Obj : Rooted(p) /\ o \in kids[p]
               /\ j < turn => Marked(o) \/ \E p \in Obj : Marked(p) /\ o \in kids[p]
    <2>1. CASE messages = o
      BY <2>1 DEF Rooted, Marked
    <2>2. ASSUME NEW i \in Job, j < turn => i < turn,
                 o \in InHand(i) \/ \E p \in Obj : p \in InHand(i) /\ o \in kids[p]
          PROVE  /\ Rooted(o) \/ \E p \in Obj : Rooted(p) /\ o \in kids[p]
                 /\ j < turn => Marked(o) \/ \E p \in Obj : Marked(p) /\ o \in kids[p]
      <3>1. \A q \in Obj : q \in InHand(i) => Rooted(q)
        BY Zenon DEF Rooted
      <3>2. j < turn => \A q \in Obj : q \in InHand(i) => Marked(q)
        BY <2>2, Zenon DEF Marked
      <3>3. QED
        BY <2>2, <3>1, <3>2, Zenon
    <2>3. QED
      BY <1>1, <2>1, <2>2, Zenon DEF Gets
  <1>2. ASSUME NEW o \in Obj, Rooted(o)'
        PROVE  Rooted(o) \/ \E p \in Obj : Rooted(p) /\ o \in kids[p]
    <2>1. Rooted(o) \/ \E i \in Job : o \in InHand(i)'
      BY <1>2, <1>u, <1>n DEF Rooted
    <2>2. CASE \E i \in Job : o \in InHand(i)'
      <3>1. (\E i \in Job : o \in InHand(i)) \/ Gets(j, o)
        BY <2>2
      <3>2. QED
        BY <1>1, <3>1, Zenon DEF Rooted
    <2>3. QED
      BY <2>1, <2>2
  <1>3. ASSUME NEW o \in Obj, Marked(o)'
        PROVE  Marked(o) \/ \E p \in Obj : Marked(p) /\ o \in kids[p]
    <2>1. Marked(o) \/ \E i \in Job : i < turn /\ o \in InHand(i)'
      BY <1>3, <1>u, <1>n DEF Marked
    <2>2. CASE \E i \in Job : i < turn /\ o \in InHand(i)'
      <3>1. (\E i \in Job : i < turn /\ o \in InHand(i)) \/ (j < turn /\ Gets(j, o))
        BY <2>2
      <3>2. QED
        BY <1>1, <3>1, Zenon DEF Marked
    <2>3. QED
      BY <2>1, <2>2
  <1>4. QED
    BY <1>2, <1>3 DEF Quiet

(* The actions that are quiet.                                             *)
LEMMA QuietActions ==
  ASSUME Late = {}, TypeOK, NEW j \in Job,
         \/ Push(j) \/ Pop(j) \/ Lock(j) \/ Define(j) \/ ReadLoad(j) \/ ReadUse(j)
         \/ \E i \in Job : Hand(i, j)
  PROVE  Quiet
  <1>t. /\ stack \in [Job -> SUBSET Obj] /\ lockbuf \in [Job -> SUBSET Obj]
        /\ kids \in [Obj -> SUBSET Obj] /\ turn \in 0..(Jobs + 1)
        /\ reading \in [Job -> Obj \cup {None}] /\ messages \in Obj \cup {None}
    BY DEF TypeOK
  <1>1. CASE Push(j)
    <2>1. PICK p \in stack[j], o \in Obj : o \in kids[p] /\ stack' = [stack EXCEPT ![j] = stack[j] \cup {o}]
      BY <1>1, <1>t DEF Push
    <2>2. Gets(j, o)
      BY <1>t, <2>1 DEF Gets, InHand
    <2>3. \A i \in Job : \A q \in Obj :
            q \in InHand(i)' => q \in InHand(i) \/ (i = j /\ Gets(j, q))
      BY <1>1, <1>t, <2>1, <2>2 DEF InHand, Push
    <2>4. QED
      BY <1>1, <2>3, HandsQuiet DEF Push
  <1>2. CASE Pop(j)
    <2>1. PICK o \in stack[j] : stack' = [stack EXCEPT ![j] = stack[j] \ {o}]
      BY <1>2 DEF Pop
    <2>2. \A i \in Job : \A q \in Obj :
            q \in InHand(i)' => q \in InHand(i) \/ (i = j /\ Gets(j, q))
      BY <1>2, <1>t, <2>1 DEF InHand, Pop
    <2>3. QED
      BY <1>2, <2>2, HandsQuiet DEF Pop
  <1>3. CASE Lock(j)
    <2>1. \A i \in Job : \A q \in Obj :
            q \in InHand(i)' => q \in InHand(i) \/ (i = j /\ Gets(j, q))
      BY <1>3 DEF InHand, Lock
    <2>2. QED
      BY <1>3, <2>1, HandsQuiet DEF Lock
  <1>4. CASE Define(j)
    <2>1. turn <= 1
      BY <1>4, <1>t DEF Define
    <2>2. UNCHANGED <<objects, lockbuf, kept, snapshot, buffers, epoch, turn, down>>
      BY <1>4 DEF Define
    <2>3. PICK m \in stack[j] : messages' = m
      BY <1>4 DEF Define
    <2>4. ASSUME NEW o \in Obj, Rooted(o)'
          PROVE  Rooted(o)
      <3>1. stack' = stack /\ reading' = reading
        BY <1>4 DEF Define
      <3>2. o = m \/ Rooted(o)
        BY <2>2, <2>3, <2>4, <3>1 DEF Rooted, InHand, Now, objects, buffers
      <3>3. m \in InHand(j)
        BY DEF InHand
      <3>4. QED
        BY <3>2, <3>3, Zenon DEF Rooted
    <2>5. QED
      BY <2>1, <2>2, <2>4 DEF Quiet
  <1>5. CASE ReadLoad(j)
    <2>1. reading' = [reading EXCEPT ![j] = messages]
      BY <1>5 DEF ReadLoad
    <2>2. Gets(j, messages)
      BY DEF Gets
    <2>3. \A i \in Job : \A q \in Obj :
            q \in InHand(i)' => q \in InHand(i) \/ (i = j /\ Gets(j, q))
      BY <1>5, <1>t, <2>1, <2>2 DEF InHand, ReadLoad
    <2>4. QED
      BY <1>5, <2>3, HandsQuiet DEF ReadLoad
  <1>6. CASE ReadUse(j)
    <2>1. PICK S \in {{}} \cup {{o} : o \in kids[reading[j]]} :
             stack' = [stack EXCEPT ![j] = stack[j] \cup S]
      BY <1>6 DEF ReadUse
    <2>2. reading[j] \in Obj /\ reading[j] \in InHand(j)
      BY <1>6, <1>t DEF ReadUse, InHand
    <2>3. \A o \in S : Gets(j, o)
      BY <2>2 DEF Gets
    <2>4. reading' = [reading EXCEPT ![j] = None] /\ lockbuf' = lockbuf /\ None \notin Obj
      BY <1>6 DEF ReadUse, Obj
    <2>5. \A i \in Job : \A q \in Obj :
            q \in InHand(i)' => q \in InHand(i) \/ (i = j /\ Gets(j, q))
      BY <1>t, <2>1, <2>3, <2>4 DEF InHand
    <2>6. QED
      BY <1>6, <2>5, HandsQuiet DEF ReadUse
  <1>7. CASE \E i \in Job : Hand(i, j)
    <2>1. PICK i \in Job : Hand(i, j)
      BY <1>7
    <2>2. PICK o \in stack[i] : stack' = [stack EXCEPT ![j] = stack[j] \cup {o}]
      BY <2>1 DEF Hand
    <2>3. j < turn => i < turn
      BY <2>1, <1>t DEF Hand, Job
    <2>4. Gets(j, o)
      BY <2>3 DEF Gets, InHand
    <2>5. \A k \in Job : \A q \in Obj :
            q \in InHand(k)' => q \in InHand(k) \/ (k = j /\ Gets(j, q))
      BY <2>1, <1>t, <2>2, <2>4 DEF InHand, Hand
    <2>6. QED
      BY <2>1, <2>5, HandsQuiet DEF Hand
  <1>8. QED
    BY <1>1, <1>2, <1>3, <1>4, <1>5, <1>6, <1>7

-----------------------------------------------------------------------------
(* Steps that move references between the program and the buffers.         *)

(* Job j asks for di[o] increments and dd[o] decrements of each object o,  *)
(* and dl[o] of the references of lock buffers go.  What the program keeps *)
(* changes by the same: keeping, dropping, unlocking, gab_destroy.         *)
Moves(j, di, dd, dl) ==
  /\ UNCHANGED <<status, refs, fresh, kids, snapshot, stk, epoch, turn>>
  /\ turn > 0 => down' = down
  /\ Adds(inc, inc', j, epoch[j], di)
  /\ Adds(dec, dec', j, epoch[j], dd)
  /\ \A o \in Obj :
       /\ kept'[o] + dd[o] = kept[o] + di[o] + dl[o]
       /\ Cardinality(Holders(o)') + dl[o] = Cardinality(Holders(o))
       /\ di[o] > 0 => o \in stack[j] \cup lockbuf[j]
       /\ dd[o] > 0 => Rooted(o)
       /\ o \in buffered' => o \in buffered /\ dl[o] = 0
       /\ kept'[o] > 0 => kept[o] > 0 \/ di[o] > 0
       /\ \A i \in Job : o \in InHand(i)' => o \in InHand(i)
       /\ messages' = o => messages = o
  /\ messages' = messages \/ turn <= 1

(* Such a step keeps the invariant.                                        *)
LEMMA MovesStep ==
  ASSUME IInv, TypeOK', NEW j \in Job, NEW di \in [Obj -> Nat], NEW dd \in [Obj -> Nat],
         NEW dl \in [Obj -> Nat], Moves(j, di, dd, dl)
  PROVE  IInv'
  <1>i. /\ TypeOK /\ Births /\ Kin /\ Phase /\ Slots /\ Balance /\ Counts
        /\ Gone /\ FreshKept /\ Flags /\ Holds /\ Saved
    BY Parts
  <1>u. UNCHANGED <<status, refs, fresh, kids, snapshot, stk, epoch, turn>>
    BY DEF Moves
  <1>n. Now' = Now /\ Later' = Later /\ Last' = Last
    BY <1>u DEF Now, Later, Last
  <1>l. \A o : Live(o)' = Live(o)
    BY <1>u DEF Live
  <1>t. /\ inc \in Buffers /\ dec \in Buffers /\ stk \in Buffers
        /\ Now \in Epoch /\ Later \in Epoch /\ Last \in Epoch
        /\ Now # Later /\ Now # Last /\ Later # Last
        /\ \A x \in Epoch : x = Now \/ x = Later \/ x = Last
    BY <1>i, Types
  <1>b. inc' \in Buffers /\ dec' \in Buffers
    BY DEF TypeOK, Buffers
  <1>k. kids \in [Obj -> SUBSET Obj] /\ refs \in [Obj -> Nat] /\ turn \in 0..(Jobs + 1)
        /\ (\A o \in Obj : kept[o] \in Nat) /\ (\A o \in Obj : kept'[o] \in Nat)
    BY <1>i DEF TypeOK
  <1> DEFINE x == epoch[j]
  <1>x. x \in Epoch /\ x # Last /\ x = IF j < turn THEN Later ELSE Now
    BY <1>i, <1>t DEF Phase
  <1>a. Adds(inc, inc', j, x, di) /\ Adds(dec, dec', j, x, dd)
    BY DEF Moves
  <1> HIDE DEF x
  <1>d. \A o \in Obj : di[o] \in Nat /\ dd[o] \in Nat /\ dl[o] \in Nat
    OBVIOUS
  <1>v. \A i \in Job : \A e \in Epoch : \A o \in Obj :
           /\ inc[i][e][o] \in Nat /\ dec[i][e][o] \in Nat
           /\ inc'[i][e][o] = IF i = j /\ e = x THEN inc[i][e][o] + di[o] ELSE inc[i][e][o]
           /\ dec'[i][e][o] = IF i = j /\ e = x THEN dec[i][e][o] + dd[o] ELSE dec[i][e][o]
    <2>1. \A i \in Job : \A e \in Epoch : \A o \in Obj :
             inc[i][e][o] \in Nat /\ dec[i][e][o] \in Nat
      BY <1>t DEF Buffers
    <2>2. QED
      BY <1>a, <2>1 DEF Adds
  <1>s. \A o \in Obj :
           /\ Sum(inc', x, o) = Sum(inc, x, o) + di[o]
           /\ Sum(dec', x, o) = Sum(dec, x, o) + dd[o]
           /\ \A e \in Epoch : e # x => /\ Sum(inc', e, o) = Sum(inc, e, o)
                                        /\ Sum(dec', e, o) = Sum(dec, e, o)
           /\ Pending(inc', o) = Pending(inc, o) + di[o]
           /\ Pending(dec', o) = Pending(dec, o) + dd[o]
    BY <1>a, <1>b, <1>t, <1>x, AddsSum
  <1>m. \A o \in Obj :
           /\ kept'[o] + dd[o] = kept[o] + di[o] + dl[o]
           /\ Cardinality(Holders(o)') + dl[o] = Cardinality(Holders(o))
           /\ di[o] > 0 => o \in InHand(j)
           /\ dd[o] > 0 => Rooted(o)
           /\ o \in buffered' => o \in buffered /\ dl[o] = 0
           /\ kept'[o] > 0 => kept[o] > 0 \/ di[o] > 0
           /\ \A i \in Job : o \in InHand(i)' => o \in InHand(i)
           /\ messages' = o => messages = o
    BY DEF Moves, InHand
  <1>h. \A o \in Obj : /\ Cardinality(Holders(o)) \in Nat /\ Cardinality(Holders(o)') \in Nat
                       /\ Cardinality(Holders(o)) = 0 <=> Holders(o) = {}
                       /\ Cardinality(Holders(o)') = 0 <=> Holders(o)' = {}
    <2>1. \A o \in Obj : /\ Cardinality(Holders(o)) \in Nat
                         /\ Cardinality(Holders(o)) = 0 <=> Holders(o) = {}
      BY FiniteHolders
    <2>2. HoldersCounted'
      BY AllHoldersCounted, PTL
    <2>3. QED
      BY <2>1, <2>2 DEF HoldersCounted
  <1>nat. \A o \in Obj : /\ Sum(inc, Now, o) \in Nat /\ Sum(inc, Later, o) \in Nat
                         /\ Sum(dec, Now, o) \in Nat /\ Sum(dec, Later, o) \in Nat
    BY <1>t, SumNat
  <1>1. Births'
    BY <1>i, <1>u DEF Births
  <1>2. Kin'
    BY <1>i, <1>u DEF Kin, Live
  <1>3. Phase'
    BY <1>i, <1>u, <1>n DEF Phase, Moves
  <1>4. Slots'
    <2>1. \A i \in Job : \A o \in Obj :
             /\ inc'[i][Last][o] = 0
             /\ ~(i < turn) => inc'[i][Later][o] = 0
      BY <1>i, <1>t, <1>v, <1>x DEF Slots
    <2>2. QED
      BY <1>i, <1>u, <1>n, <2>1 DEF Slots
  <1>later. \A o \in Obj : Sum(inc', Later, o) = Sum(inc, Later, o) + IF j < turn THEN di[o] ELSE 0
    BY <1>s, <1>x, <1>t, <1>nat
  <1>both. \A o \in Obj : Sum(dec', Now, o) + Sum(dec', Later, o)
                            = Sum(dec, Now, o) + Sum(dec, Later, o) + dd[o]
    <2> SUFFICES ASSUME NEW o \in Obj
                 PROVE  Sum(dec', Now, o) + Sum(dec', Later, o)
                            = Sum(dec, Now, o) + Sum(dec, Later, o) + dd[o]
      OBVIOUS
    <2>0. Sum(dec, Now, o) \in Nat /\ Sum(dec, Later, o) \in Nat /\ dd[o] \in Nat
      BY <1>nat
    <2>1. CASE x = Now
      <3>1. Sum(dec', Now, o) = Sum(dec, Now, o) + dd[o] /\ Sum(dec', Later, o) = Sum(dec, Later, o)
        BY <1>s, <1>t, <2>1
      <3>2. QED
        BY <2>0, <3>1
    <2>2. CASE x = Later
      <3>1. Sum(dec', Later, o) = Sum(dec, Later, o) + dd[o] /\ Sum(dec', Now, o) = Sum(dec, Now, o)
        BY <1>s, <1>t, <2>2
      <3>2. QED
        BY <2>0, <3>1
    <2>3. QED
      BY <1>x, <2>1, <2>2
  <1>n2. \A o \in Obj : /\ Sum(dec', Now, o) \in Nat /\ Sum(dec', Later, o) \in Nat
    BY <1>t, <1>b, SumNat
  (* What is kept and waits to be dropped outweighs what waits to be added,*)
  (* by as much as before and by what went from the lock buffers.          *)
  <1>gap. ASSUME NEW o \in Obj
          PROVE  /\ Sum(inc', Later, o) <= kept'[o] + Sum(dec', Now, o) + Sum(dec', Later, o)
                 /\ \/ Sum(inc, Later, o) < kept[o] + Sum(dec, Now, o) + Sum(dec, Later, o)
                    \/ dl[o] > 0
                    \/ ~(j < turn) /\ di[o] > 0
                    => Sum(inc', Later, o) < kept'[o] + Sum(dec', Now, o) + Sum(dec', Later, o)
    <2> DEFINE iL == Sum(inc, Later, o)
               il == Sum(inc', Later, o)
               dN == Sum(dec, Now, o)
               dL == Sum(dec, Later, o)
               dn == Sum(dec', Now, o)
               dp == Sum(dec', Later, o)
    <2>1. iL \in Nat /\ dN \in Nat /\ dL \in Nat /\ dn \in Nat /\ dp \in Nat
          /\ kept[o] \in Nat /\ kept'[o] \in Nat /\ di[o] \in Nat /\ dd[o] \in Nat /\ dl[o] \in Nat
      BY <1>nat, <1>n2, <1>k
    <2>2. il = iL + (IF j < turn THEN di[o] ELSE 0) /\ dn + dp = dN + dL + dd[o]
          /\ kept'[o] + dd[o] = kept[o] + di[o] + dl[o]
          /\ iL <= kept[o] + dN + dL
      BY <1>later, <1>both, <1>m, <1>i DEF Balance
    <2> HIDE DEF iL, il, dN, dL, dn, dp
    <2>3. /\ il <= kept'[o] + dn + dp
          /\ (\/ iL < kept[o] + dN + dL
              \/ dl[o] > 0
              \/ ~(j < turn) /\ di[o] > 0) => il < kept'[o] + dn + dp
      <3>1. CASE j < turn
        <4>1. il = iL + di[o]
          BY <2>2, <3>1
        <4>2. QED
          BY <2>1, <2>2, <4>1, <3>1
      <3>2. CASE ~(j < turn)
        <4>1. il = iL
          BY <2>1, <2>2, <3>2
        <4>2. QED
          BY <2>1, <2>2, <4>1, <3>2
      <3>3. QED
        BY <3>1, <3>2
    <2>4. QED
      BY <2>3 DEF iL, il, dN, dL, dn, dp
  <1>5. Balance'
    BY <1>gap, <1>n DEF Balance
  <1>6. Counts'
    <2> SUFFICES ASSUME NEW o \in Obj, Live(o)
                 PROVE  Balanced(o)'
      BY <1>l DEF Counts
    <2>1. Balanced(o)
      BY <1>i DEF Counts
    <2> DEFINE P == Cardinality(Parents(o))
               R == Sum(stk, Last, o) + Bit(snapshot[Last] = o)
               H == Cardinality(Holders(o))
               h == Cardinality(Holders(o)')
               pi == Pending(inc, o)
               pd == Pending(dec, o)
    <2>2. Parents(o)' = Parents(o) /\ Sum(stk', Last', o) + Bit(snapshot'[Last'] = o) = R
      BY <1>u, <1>l, <1>n DEF Parents
    <2>3. refs[o] + pi = P + kept[o] + pd + Sum(stk, Last, o) + Bit(snapshot[Last] = o) + H
      BY <2>1 DEF Balanced
    <2>4. Pending(inc', o) = pi + di[o] /\ Pending(dec', o) = pd + dd[o]
      BY <1>s
    <2>5. h + dl[o] = H /\ kept'[o] + dd[o] = kept[o] + di[o] + dl[o] /\ h \in Nat /\ H \in Nat
      BY <1>m, <1>h
    <2>6. pi \in Nat /\ pd \in Nat /\ Sum(stk, Last, o) \in Nat /\ Bit(snapshot[Last] = o) \in Nat
      <3>1. 0 \in Epoch /\ 1 \in Epoch /\ 2 \in Epoch
        BY DEF Epoch
      <3>2. QED
        BY <1>t, <3>1, SumNat DEF Pending, Bit
    <2>7. P \in Nat
      <3>1. IsFiniteSet(Obj)
        BY FS_Interval DEF Obj
      <3>2. IsFiniteSet(Parents(o))
        BY <3>1, FS_Subset DEF Parents
      <3>3. QED
        BY <3>2, FS_CardinalityType
    <2>8. kept[o] \in Nat /\ kept'[o] \in Nat /\ di[o] \in Nat /\ dd[o] \in Nat /\ dl[o] \in Nat
          /\ refs[o] \in Nat
      BY <1>k
    <2> HIDE DEF P, H, h, pi, pd
    <2>9. refs[o] + (pi + di[o]) = P + kept'[o] + (pd + dd[o]) + Sum(stk, Last, o)
                                   + Bit(snapshot[Last] = o) + h
      <3>1. (kept'[o] + dd[o]) + h = (kept[o] + di[o]) + H
        BY <2>5, <2>8
      <3>2. (refs[o] + pi) + di[o] = (P + pd + Sum(stk, Last, o) + Bit(snapshot[Last] = o))
                                       + ((kept[o] + di[o]) + H)
        BY <2>3, <2>5, <2>6, <2>7, <2>8
      <3>3. QED
        BY <2>5, <2>6, <2>7, <2>8, <3>1, <3>2
    <2>10. Sum(stk', Last', o) = Sum(stk, Last, o) /\ snapshot'[Last'] = snapshot[Last]
           /\ refs' = refs
      BY <1>u, <1>n
    <2>11. QED
      BY <2>2, <2>4, <2>9, <2>10 DEF Balanced, P, h, pi, pd
  <1>10. PICK T \in SUBSET Obj : Existing(T)
    BY <1>i DEF Holds
  <1>dd. \A o \in Obj : dd[o] > 0 => Live(o)
    BY <1>m, <1>10 DEF Existing
  <1>7. Gone'
    <2>1. \A o \in Obj : ~Live(o) => \A i \in Job : \A e \in Epoch : dec'[i][e][o] = 0
      BY <1>i, <1>v, <1>dd, <1>d DEF Gone
    <2>2. QED
      BY <1>i, <1>u, <1>n, <1>l, <2>1 DEF Gone
  <1>8. FreshKept'
    <2> SUFFICES ASSUME NEW o \in Obj, o \in fresh, kept'[o] > 0
                 PROVE  \E i \in Job : \E e \in Epoch : inc'[i][e][o] > 0
      BY <1>i, <1>u DEF FreshKept, TypeOK
    <2>1. CASE di[o] > 0
      <3>1. inc'[j][x][o] = inc[j][x][o] + di[o] /\ inc[j][x][o] \in Nat
        BY <1>v, <1>x
      <3>2. QED
        BY <1>x, <1>d, <2>1, <3>1
    <2>2. CASE kept[o] > 0
      <3>1. PICK i \in Job, e \in Epoch : inc[i][e][o] > 0
        BY <1>i, <2>2 DEF FreshKept
      <3>2. inc'[i][e][o] > 0
        BY <1>v, <1>d, <3>1
      <3>3. QED
        BY <3>2
    <2>3. QED
      BY <1>m, <2>1, <2>2
  <1>9. Flags'
    <2> SUFFICES ASSUME NEW o \in buffered'
                 PROVE  status[o] = "freed" \/ Holders(o)' # {}
      BY <1>u DEF Flags
    <2>0. o \in Obj
      BY DEF TypeOK
    <2>1. o \in buffered /\ dl[o] = 0
      BY <1>m, <2>0
    <2>2. Cardinality(Holders(o)') = Cardinality(Holders(o))
      BY <1>m, <1>h, <2>0, <2>1
    <2>3. QED
      BY <1>i, <1>h, <2>0, <2>1, <2>2 DEF Flags
  <1>11. \A o \in Obj : Rooted(o)' => Rooted(o)
    <2> SUFFICES ASSUME NEW o \in Obj, Rooted(o)' PROVE Rooted(o)
      OBVIOUS
    <2>1. \/ \E i \in Job : \/ o \in InHand(i)'
                            \/ \E e \in Epoch : inc'[i][e][o] > 0
                            \/ stk[i][Now][o] > 0
          \/ kept'[o] > 0 \/ messages' = o
      BY <1>u, <1>n DEF Rooted
    <2>2. CASE di[o] > 0
      BY <1>m, <2>2, Zenon DEF Rooted
    <2>3. CASE ~(di[o] > 0)
      <3>1. \A i \in Job : \A e \in Epoch : inc'[i][e][o] > 0 => inc[i][e][o] > 0
        BY <1>v, <1>d, <2>3
      <3>2. QED
        BY <1>m, <2>1, <2>3, <3>1, Zenon DEF Rooted
    <2>4. QED
      BY <2>2, <2>3
  <1>12. Holds'
    <2>1. Existing(T)'
      BY <1>10, <1>11, <1>u, <1>l DEF Existing, Closed
    <2>2. QED
      BY <2>1 DEF Holds
  <1>13. Saved'
    <2>1. CASE turn <= 1
      <3>1. turn' <= 1
        BY <1>u, <2>1
      <3>2. Starts'
        BY SavedAtStart, PTL
      <3>3. QED
        BY <1>4, <1>8, <1>12, <3>1, <3>2 DEF Starts
    <2>2. CASE ~(turn <= 1)
      <3>1. PICK S \in SUBSET Obj, G \in SUBSET Obj :
               Supports(S, G) /\ \A o \in Obj : Marked(o) => o \in S
        BY <1>i DEF Saved
      <3>2. messages' = messages
        BY <2>2 DEF Moves
      <3>3. \A o \in Obj : Added(o) => Added(o)'
        BY <1>u, <1>n, <1>v, <1>t, <1>d, <3>2 DEF Added
      <3>4. \A o \in Obj : Grounded(o) => Grounded(o)'
        <4> SUFFICES ASSUME NEW o \in Obj, Grounded(o) PROVE Grounded(o)'
          OBVIOUS
        <4>1. CASE Holders(o) # {}
          <5>1. CASE dl[o] > 0
            BY <1>gap, <1>n, <5>1 DEF Grounded
          <5>2. CASE ~(dl[o] > 0)
            <6>1. dl[o] = 0 /\ Cardinality(Holders(o)') = Cardinality(Holders(o))
              BY <1>d, <1>m, <1>h, <5>2
            <6>2. QED
              BY <1>h, <4>1, <6>1 DEF Grounded
          <5>3. QED
            BY <5>1, <5>2
        <4>2. CASE Sum(inc, Later, o) < kept[o] + Sum(dec, Now, o) + Sum(dec, Later, o)
          BY <1>gap, <1>n, <4>2 DEF Grounded
        <4>3. CASE messages = o \/ \E i \in Job : stk[i][Now][o] > 0
          BY <1>u, <1>n, <3>2, <4>3 DEF Grounded
        <4>4. QED
          BY <4>1, <4>2, <4>3, Zenon DEF Grounded
      <3>5. Supports(S, G)'
        <4>1. \A o \in G : o \notin fresh' \/ Added(o)' \/ \E p \in G : o \in kids'[p]
          BY <1>u, <3>1, <3>3 DEF Supports
        <4>2. \A o \in S : Grounded(o)' \/ \E p \in G : o \in kids'[p]
          BY <1>u, <3>1, <3>4 DEF Supports
        <4>3. QED
          BY <1>u, <1>l, <3>1, <4>1, <4>2 DEF Supports, Closed
      <3>6. \A o \in Obj : Marked(o)' => Marked(o) \/ di[o] > 0
        <4> SUFFICES ASSUME NEW o \in Obj, Marked(o)', ~(di[o] > 0) PROVE Marked(o)
          OBVIOUS
        <4>1. \/ \E i \in Job : \/ i < turn /\ o \in InHand(i)'
                                \/ inc'[i][Later][o] > 0
              \/ kept'[o] > 0 \/ messages' = o
          BY <1>u, <1>n DEF Marked
        <4>2. \A i \in Job : inc'[i][Later][o] > 0 => inc[i][Later][o] > 0
          BY <1>v, <1>d, <1>t
        <4>3. QED
          BY <1>m, <4>1, <4>2, Zenon DEF Marked
      <3>7. CASE j < turn
        <4>1. \A o \in Obj : di[o] > 0 => Marked(o)
          BY <1>m, <3>7, Zenon DEF Marked
        <4>2. QED
          BY <3>1, <3>5, <3>6, <4>1 DEF Saved
      <3>8. CASE ~(j < turn)
        <4> DEFINE X == {o \in Obj : di[o] > 0}
        <4>1. X \in SUBSET Obj /\ S \in SUBSET Obj /\ G \in SUBSET Obj /\ T \in SUBSET Obj
          OBVIOUS
        <4>2. X \subseteq T
          <5>1. \A o \in Obj : di[o] > 0 => Rooted(o)
            BY <1>m, Zenon DEF Rooted
          <5>2. QED
            BY <1>10, <5>1 DEF Existing
        <4>3. \A o \in X : Grounded(o)' /\ (o \notin fresh' \/ Added(o)')
          <5> SUFFICES ASSUME NEW o \in Obj, di[o] > 0 PROVE Grounded(o)' /\ Added(o)'
            OBVIOUS
          <5>1. Grounded(o)'
            BY <1>gap, <1>n, <3>8 DEF Grounded
          <5>2. inc'[j][Now][o] > 0
            BY <1>v, <1>x, <1>d, <1>t, <3>8
          <5>3. QED
            BY <1>n, <5>1, <5>2 DEF Added
        <4>4. Closed(T)' /\ \A o \in T : Live(o)'
          BY <1>10, <1>u, <1>l DEF Existing, Closed
        <4>5. Extends'
          BY Extend, PTL
        <4>6. kids' \in [Obj -> SUBSET Obj]
          BY <1>u, <1>k
        <4>7. \A o \in X : o \in Obj /\ di[o] > 0
          OBVIOUS
        <4>8. \A o \in Obj : di[o] > 0 => o \in X
          OBVIOUS
        <4> HIDE DEF X
        <4>9. \E S2, G2 \in SUBSET Obj : Supports(S2, G2)' /\ S \cup X \subseteq S2
          BY <3>5, <4>1, <4>2, <4>3, <4>4, <4>5, <4>6, Zenon DEF Extends
        <4>10. PICK S2 \in SUBSET Obj, G2 \in SUBSET Obj :
                  Supports(S2, G2)' /\ S \cup X \subseteq S2
          BY <4>9
        <4>11. \A o \in Obj : Marked(o)' => o \in S2
          BY <3>1, <3>6, <4>8, <4>10
        <4>12. QED
          BY <4>10, <4>11 DEF Saved
      <3>9. QED
        BY <3>7, <3>8
    <2>3. QED
      BY <2>1, <2>2
  <1>14. QED
    BY <1>1, <1>2, <1>3, <1>4, <1>5, <1>6, <1>7, <1>8, <1>9, <1>12, <1>13 DEF IInv

(* The actions of a job that move references.                              *)
LEMMA MovingActions ==
  ASSUME TypeOK, Phase, NEW j \in Job, Keep(j) \/ Drop(j) \/ Unlock(j)
  PROVE  \E di, dd, dl \in [Obj -> Nat] : Moves(j, di, dd, dl)
  <1> DEFINE zero == [q \in Obj |-> 0]
  <1>b. inc \in Buffers /\ dec \in Buffers
    BY Types
  <1>k. /\ kept \in [Obj -> Nat] /\ lockbuf \in [Job -> SUBSET Obj]
        /\ stack \in [Job -> SUBSET Obj] /\ epoch[j] \in Epoch
        /\ \A o \in Obj : kept[o] \in Nat
    BY DEF TypeOK
  <1>z. zero \in [Obj -> Nat] /\ \A o \in Obj : zero[o] = 0
    OBVIOUS
  <1>zi. Adds(inc, inc, j, epoch[j], zero) /\ Adds(dec, dec, j, epoch[j], zero)
    BY <1>b, <1>k, NothingAdds
  <1>h. \A o \in Obj : Cardinality(Holders(o)) \in Nat
    BY FiniteHolders
  <1> HIDE DEF zero
  <1>1. CASE Keep(j)
    <2>1. PICK o \in Obj : /\ o \in stack[j] \cup lockbuf[j]
                           /\ inc' = Queue(inc, j, o)
                           /\ kept' = [kept EXCEPT ![o] = kept[o] + 1]
      BY <1>1, <1>k DEF Keep
    <2>2. UNCHANGED <<objects, stack, locked, lockbuf, messages, reading, snapshot,
                      dec, stk, epoch, turn, rounds, down>>
      BY <1>1 DEF Keep
    <2>3. Adds(inc, inc', j, epoch[j], One(o)) /\ Adds(dec, dec', j, epoch[j], zero)
      BY <1>b, <1>k, <1>zi, <2>1, <2>2, QueueAdds
    <2>4. One(o) \in [Obj -> Nat] /\ One(o)[o] = 1 /\ \A q \in Obj : q # o => One(o)[q] = 0
      BY DEF One
    <2>5. \A q \in Obj : kept'[q] = kept[q] + One(o)[q]
      BY <1>k, <2>1, <2>4
    <2>6. \A q \in Obj : /\ Holders(q)' = Holders(q)
                         /\ \A i \in Job : q \in InHand(i)' => q \in InHand(i)
      BY <2>2 DEF Holders, InHand
    <2>7. Moves(j, One(o), zero, zero)
      <3>1. \A q \in Obj : /\ kept'[q] + zero[q] = kept[q] + One(o)[q] + zero[q]
                           /\ Cardinality(Holders(q)') + zero[q] = Cardinality(Holders(q))
                           /\ One(o)[q] > 0 => q \in stack[j] \cup lockbuf[j]
                           /\ ~(zero[q] > 0)
                           /\ kept'[q] > 0 => kept[q] > 0 \/ One(o)[q] > 0
        BY <1>k, <1>z, <1>h, <2>1, <2>4, <2>5, <2>6
      <3>2. QED
        BY <1>z, <2>2, <2>3, <2>6, <3>1 DEF Moves, objects
    <2>8. QED
      BY <1>z, <2>4, <2>7
  <1>2. CASE Drop(j)
    <2>1. PICK o \in Obj : /\ kept[o] > 0
                           /\ dec' = Queue(dec, j, o)
                           /\ kept' = [kept EXCEPT ![o] = kept[o] - 1]
      BY <1>2 DEF Drop
    <2>2. UNCHANGED <<objects, stack, locked, lockbuf, messages, reading, snapshot,
                      inc, stk, epoch, turn, rounds, down>>
      BY <1>2 DEF Drop
    <2>3. Adds(inc, inc', j, epoch[j], zero) /\ Adds(dec, dec', j, epoch[j], One(o))
      BY <1>b, <1>k, <1>zi, <2>1, <2>2, QueueAdds
    <2>4. One(o) \in [Obj -> Nat] /\ One(o)[o] = 1 /\ \A q \in Obj : q # o => One(o)[q] = 0
      BY DEF One
    <2>5. \A q \in Obj : kept'[q] + One(o)[q] = kept[q]
      BY <1>k, <2>1, <2>4
    <2>6. \A q \in Obj : /\ Holders(q)' = Holders(q)
                         /\ \A i \in Job : q \in InHand(i)' => q \in InHand(i)
      BY <2>2 DEF Holders, InHand
    <2>7. Moves(j, zero, One(o), zero)
      <3>1. \A q \in Obj : /\ kept'[q] + One(o)[q] = kept[q] + zero[q] + zero[q]
                           /\ Cardinality(Holders(q)') + zero[q] = Cardinality(Holders(q))
                           /\ ~(zero[q] > 0)
                           /\ One(o)[q] > 0 => kept[q] > 0
                           /\ kept'[q] > 0 => kept[q] > 0
        BY <1>k, <1>z, <1>h, <2>1, <2>4, <2>5, <2>6
      <3>2. \A q \in Obj : kept[q] > 0 => Rooted(q)
        BY DEF Rooted
      <3>3. QED
        BY <1>z, <2>2, <2>3, <2>6, <3>1, <3>2 DEF Moves, objects
    <2>8. QED
      BY <1>z, <2>4, <2>7
  <1>3. CASE Unlock(j)
    <2>1. UNCHANGED <<status, refs, fresh, kids, kept, messages, reading, snapshot,
                      inc, stk, epoch, turn, rounds, down>>
      BY <1>3 DEF Unlock
    <2>2. CASE UNCHANGED <<buffered, dec, lockbuf, stack>>
      <3>1. \A q \in Obj : /\ Holders(q)' = Holders(q)
                           /\ \A i \in Job : q \in InHand(i)' => q \in InHand(i)
        BY <2>1, <2>2 DEF Holders, InHand
      <3>2. \A q \in Obj : /\ kept'[q] + zero[q] = kept[q] + zero[q] + zero[q]
                           /\ Cardinality(Holders(q)') + zero[q] = Cardinality(Holders(q))
                           /\ ~(zero[q] > 0)
        BY <1>k, <1>z, <1>h, <2>1, <3>1
      <3>3. Moves(j, zero, zero, zero)
        BY <1>z, <1>zi, <2>1, <2>2, <3>1, <3>2 DEF Moves
      <3>4. QED
        BY <1>z, <3>3
    <2>3. ASSUME /\ buffered' = buffered \ lockbuf[j]
                 /\ dec' = [dec EXCEPT ![j][epoch[j]] =
                               [o \in Obj |-> @[o] + IF o \in lockbuf[j] THEN 1 ELSE 0]]
                 /\ \E S \in SUBSET lockbuf[j] : stack' = [stack EXCEPT ![j] = @ \cup S]
                 /\ lockbuf' = [lockbuf EXCEPT ![j] = {}]
          PROVE  \E di, dd, dl \in [Obj -> Nat] : Moves(j, di, dd, dl)
      <3> DEFINE d == [o \in Obj |-> IF o \in lockbuf[j] THEN 1 ELSE 0]
      <3>1. d \in [Obj -> Nat] /\ (\A o \in Obj : o \in lockbuf[j] => d[o] = 1)
            /\ (\A o \in Obj : o \notin lockbuf[j] => d[o] = 0)
        OBVIOUS
      <3>2. Adds(dec, dec', j, epoch[j], d)
        <4>1. \A i \in Job : \A e \in Epoch : \A q \in Obj : dec[i][e][q] \in Nat
          BY <1>b DEF Buffers
        <4>2. QED
          BY <1>b, <1>k, <2>3, <4>1 DEF Adds, Buffers
      <3> HIDE DEF d
      <3>3. \A q \in Obj : \A i \in Job : q \in InHand(i)' => q \in InHand(i)
        BY <1>k, <2>1, <2>3 DEF InHand
      <3>4. \A q \in Obj : Cardinality(Holders(q)') + d[q] = Cardinality(Holders(q))
        <4> SUFFICES ASSUME NEW q \in Obj
                     PROVE  Cardinality(Holders(q)') + d[q] = Cardinality(Holders(q))
          OBVIOUS
        <4>1. IsFiniteSet(Holders(q)) /\ Cardinality(Holders(q)) \in Nat
          BY FiniteHolders
        <4>2. CASE q \in lockbuf[j]
          <5>1. j \in Holders(q) /\ Holders(q)' = Holders(q) \ {j}
            BY <1>k, <2>3, <4>2 DEF Holders
          <5>2. Cardinality(Holders(q) \ {j}) = Cardinality(Holders(q)) - 1
            BY <4>1, <5>1, FS_RemoveElement
          <5>3. QED
            BY <3>1, <4>1, <4>2, <5>1, <5>2
        <4>3. CASE q \notin lockbuf[j]
          <5>1. Holders(q)' = Holders(q)
            BY <1>k, <2>3, <4>3 DEF Holders
          <5>2. QED
            BY <3>1, <4>1, <4>3, <5>1
        <4>4. QED
          BY <4>2, <4>3
      <3>5. \A q \in Obj : d[q] > 0 => Rooted(q)
        <4>1. \A q \in Obj : d[q] > 0 => q \in InHand(j)
          BY <3>1 DEF InHand
        <4>2. QED
          BY <4>1, Zenon DEF Rooted
      <3>6. \A q \in Obj : /\ kept'[q] + d[q] = kept[q] + zero[q] + d[q]
                           /\ ~(zero[q] > 0)
                           /\ q \in buffered' => q \in buffered /\ d[q] = 0
        BY <1>k, <1>z, <2>1, <2>3, <3>1
      <3>7. Moves(j, zero, d, d)
        BY <1>zi, <2>1, <3>2, <3>3, <3>4, <3>5, <3>6 DEF Moves
      <3>8. QED
        BY <1>z, <3>1, <3>7
    <2>4. QED
      BY <1>3, <2>2, <2>3 DEF Unlock
  <1>4. QED
    BY <1>1, <1>2, <1>3

(* gab_destroy drops all that is kept, as the first job.                   *)
LEMMA DestroyMoves ==
  ASSUME TypeOK, Phase, Destroy
  PROVE  \E di, dd, dl \in [Obj -> Nat] : Moves(1, di, dd, dl)
  <1> DEFINE zero == [q \in Obj |-> 0]
  <1>b. inc \in Buffers /\ dec \in Buffers
    BY Types
  <1>k. kept \in [Obj -> Nat] /\ 1 \in Job /\ epoch[1] \in Epoch /\ \A o \in Obj : kept[o] \in Nat
    BY DEF TypeOK, Job
  <1>z. zero \in [Obj -> Nat] /\ \A o \in Obj : zero[o] = 0
    OBVIOUS
  <1>zi. Adds(inc, inc, 1, epoch[1], zero)
    BY <1>b, <1>k, NothingAdds
  <1>h. \A o \in Obj : Cardinality(Holders(o)) \in Nat
    BY FiniteHolders
  <1> HIDE DEF zero
  <1>1. /\ dec' = [dec EXCEPT ![1][epoch[1]] = [o \in Obj |-> @[o] + kept[o]]]
        /\ kept' = [o \in Obj |-> 0] /\ messages' = None /\ turn = 0
        /\ UNCHANGED <<objects, stack, locked, lockbuf, reading, snapshot, inc, stk,
                       epoch, turn, rounds>>
    BY DEF Destroy
  <1>2. Adds(dec, dec', 1, epoch[1], kept)
    <2>1. \A i \in Job : \A e \in Epoch : \A q \in Obj : dec[i][e][q] \in Nat
      BY <1>b DEF Buffers
    <2>2. QED
      BY <1>b, <1>k, <1>1, <2>1 DEF Adds, Buffers
  <1>3. \A q \in Obj : /\ Holders(q)' = Holders(q)
                       /\ \A i \in Job : q \in InHand(i)' => q \in InHand(i)
    BY <1>1 DEF Holders, InHand
  <1>4. \A q \in Obj : /\ kept'[q] + kept[q] = kept[q] + zero[q] + zero[q]
                       /\ Cardinality(Holders(q)') + zero[q] = Cardinality(Holders(q))
                       /\ ~(zero[q] > 0) /\ ~(kept'[q] > 0) /\ messages' # q
    BY <1>k, <1>z, <1>h, <1>1, <1>3 DEF Obj
  <1>5. \A q \in Obj : kept[q] > 0 => Rooted(q)
    BY DEF Rooted
  <1>6. Moves(1, zero, kept, zero)
    BY <1>z, <1>zi, <1>1, <1>2, <1>3, <1>4, <1>5 DEF Moves, objects
  <1>7. QED
    BY <1>z, <1>k, <1>6

-----------------------------------------------------------------------------
(* A collection begins, and goes from job to job.                          *)

(* A collection begins: nothing has changed but the turn.                  *)
LEMMA StartStep ==
  ASSUME IInv, TypeOK', Start
  PROVE  IInv'
  <1>i. /\ TypeOK /\ Births /\ Kin /\ Phase /\ Slots /\ Balance /\ Counts
        /\ Gone /\ FreshKept /\ Flags /\ Holds /\ Saved
    BY Parts
  <1>u. /\ UNCHANGED <<status, refs, fresh, buffered, kids, stack, lockbuf, kept, messages>>
        /\ UNCHANGED <<reading, snapshot, inc, dec, stk, epoch, down>>
        /\ turn = 0 /\ turn' = 1
    BY DEF Start, objects, roots, buffers
  <1>n. Now' = Now /\ Later' = Later /\ Last' = Last
    BY <1>u DEF Now, Later, Last
  <1>l. \A o : Live(o)' = Live(o) /\ Holders(o)' = Holders(o)
    BY <1>u DEF Live, Holders
  <1>1. Births'
    BY <1>i, <1>u DEF Births
  <1>2. Kin'
    BY <1>i, <1>u DEF Kin, Live
  <1>j. \A j \in Job : ~(j < 0) /\ ~(j < 1)
    BY DEF Job
  <1>3. Phase'
    <2>1. down < 4
      BY DEF Start, Up
    <2>2. QED
      BY <1>i, <1>u, <1>n, <1>j, <2>1 DEF Phase
  <1>4. Slots'
    BY <1>i, <1>u, <1>n, <1>j DEF Slots
  <1>5. Balance'
    BY <1>i, <1>u, <1>n DEF Balance, Sum
  <1>6. Counts'
    <2>1. \A o : Balanced(o)' = Balanced(o)
      BY <1>u, <1>n DEF Balanced, Parents, Pending, Sum, Holders, Live
    <2>2. QED
      BY <1>i, <1>l, <2>1 DEF Counts
  <1>7. Gone'
    BY <1>i, <1>u, <1>n DEF Gone, Live
  <1>8. FreshKept'
    BY <1>i, <1>u DEF FreshKept
  <1>9. Flags'
    BY <1>i, <1>u DEF Flags, Holders
  <1>10. Holds'
    <2>1. \A o : Rooted(o)' = Rooted(o)
      BY <1>u, <1>n DEF Rooted, InHand
    <2>2. QED
      BY <1>i, <1>u, <1>l, <2>1 DEF Holds, Existing, Closed
  <1>11. Saved'
    <2>1. Starts'
      BY SavedAtStart, PTL
    <2>2. turn' <= 1
      BY <1>u
    <2>3. QED
      BY <1>4, <1>8, <1>10, <2>1, <2>2 DEF Starts
  <1>12. QED
    BY <1>1, <1>2, <1>3, <1>4, <1>5, <1>6, <1>7, <1>8, <1>9, <1>10, <1>11 DEF IInv

(* A job that reports is in the survivors with all that it holds, since    *)
(* its stacks are counted now.                                             *)
LEMMA ReportStep ==
  ASSUME IInv, TypeOK', NEW j \in Job, Report(j)
  PROVE  IInv'
  <1>i. /\ TypeOK /\ Births /\ Kin /\ Phase /\ Slots /\ Balance /\ Counts
        /\ Gone /\ FreshKept /\ Flags /\ Holds /\ Saved
    BY Parts
  <1>u. /\ UNCHANGED <<status, refs, fresh, buffered, kids, stack, lockbuf, kept, messages>>
        /\ UNCHANGED <<reading, snapshot, inc, dec, down>>
        /\ turn = j /\ turn' = j + 1 /\ reading[j] = None
    BY DEF Report, objects, roots
  <1>t. /\ stk \in Buffers /\ stk' \in Buffers
        /\ Now \in Epoch /\ Later \in Epoch /\ Last \in Epoch
        /\ Now # Later /\ Now # Last /\ Later # Last
    <2>1. stk' \in Buffers
      BY DEF TypeOK, Buffers
    <2>2. QED
      BY <1>i, <2>1, Types
  <1>j. \A i \in Job : i < turn' <=> i < turn \/ i = j
    BY <1>u DEF Job
  <1>x. epoch[j] = Now /\ ~(j < turn)
    BY <1>i, <1>u DEF Phase, Job
  <1>e. \A i \in Job \cup {Gc} : epoch'[i] = IF i = j THEN Later ELSE epoch[i]
    <2>1. epoch' = [epoch EXCEPT ![j] = Next3(epoch[j])]
      BY DEF Report
    <2>2. Next3(epoch[j]) = Later
      BY <1>x DEF Later, Now
    <2>3. epoch \in [Job \cup {Gc} -> Epoch]
      BY <1>i DEF TypeOK
    <2>4. QED
      BY <2>1, <2>2, <2>3
  <1>n. Now' = Now /\ Later' = Later /\ Last' = Last
    <2>1. epoch'[Gc] = epoch[Gc]
      BY <1>e DEF Gc, Job
    <2>2. QED
      BY <2>1 DEF Now, Later, Last
  <1>s. /\ \A i \in Job : \A e \in Epoch : \A o \in Obj :
              ~(i = j /\ e = Now) => stk'[i][e][o] = stk[i][e][o]
        /\ \A o \in Obj : stk'[j][Now][o] = stk[j][Now][o] + Bit(o \in stack[j])
                                              + Bit(o \in lockbuf[j])
    <2>1. stk' = [stk EXCEPT ![j][Now] =
                [o \in Obj |-> stk[j][Now][o] + Bit(o \in stack[j]) + Bit(o \in lockbuf[j])]]
      BY <1>x DEF Report
    <2>2. QED
      BY <1>t, <2>1 DEF Buffers
  <1>g. \A o \in Obj : /\ stk[j][Now][o] > 0 => stk'[j][Now][o] > 0
                       /\ o \in stack[j] \cup lockbuf[j] => stk'[j][Now][o] > 0
                       /\ stk'[j][Now][o] > 0 => stk[j][Now][o] > 0 \/ o \in stack[j] \cup lockbuf[j]
                       /\ o \notin stack[j] \cup lockbuf[j] => stk'[j][Now][o] = stk[j][Now][o]
    <2>1. \A o \in Obj : stk[j][Now][o] \in Nat
      BY <1>t DEF Buffers
    <2>2. QED
      BY <1>s, <2>1 DEF Bit
  <1>g2. \A i \in Job : \A o \in Obj :
            stk'[i][Now][o] > 0 => stk[i][Now][o] > 0 \/ (i = j /\ o \in stack[j] \cup lockbuf[j])
    BY <1>g, <1>s, <1>t
  <1>l. \A o : Live(o)' = Live(o) /\ Holders(o)' = Holders(o)
    BY <1>u DEF Live, Holders
  <1>1. Births'
    BY <1>i, <1>u DEF Births
  <1>2. Kin'
    BY <1>i, <1>u DEF Kin, Live
  <1>3. Phase'
    <2>1. turn > 0
      BY <1>u DEF Job
    <2>2. down' < 4
      BY <1>i, <1>u, <2>1 DEF Phase
    <2>3. \A i \in Job : epoch'[i] = IF i < turn' THEN Later ELSE Now
      BY <1>i, <1>e, <1>j DEF Phase
    <2>4. QED
      BY <1>n, <2>2, <2>3 DEF Phase
  <1>4. Slots'
    <2>1. \A i \in Job : \A o \in Obj :
             /\ inc[i][Last][o] = 0
             /\ stk'[i][Later][o] = 0
             /\ ~(i < turn') => inc[i][Later][o] = 0 /\ stk'[i][Now][o] = 0
      BY <1>i, <1>s, <1>t, <1>j DEF Slots
    <2>2. QED
      BY <1>n, <1>u, <2>1 DEF Slots
  <1>5. Balance'
    BY <1>i, <1>u, <1>n DEF Balance, Sum
  <1>6. Counts'
    <2>1. \A o \in Obj : Sum(stk', Last, o) = Sum(stk, Last, o)
      BY <1>s, <1>t, SumSame
    <2>2. ASSUME NEW o \in Obj
          PROVE  Balanced(o)' = Balanced(o)
      <3>1. Parents(o)' = Parents(o) /\ Holders(o)' = Holders(o)
        BY <1>u, <1>l DEF Parents
      <3>2. /\ Pending(inc', o) = Pending(inc, o) /\ Pending(dec', o) = Pending(dec, o)
            /\ Sum(stk', Last', o) = Sum(stk, Last, o) /\ snapshot'[Last'] = snapshot[Last]
            /\ refs' = refs /\ kept' = kept
        BY <1>u, <1>n, <2>1
      <3>3. QED
        BY <3>1, <3>2 DEF Balanced
    <2>3. QED
      BY <1>i, <1>l, <2>2 DEF Counts
  <1>10. PICK T \in SUBSET Obj : Existing(T)
    BY <1>i DEF Holds
  <1>h. \A o \in Obj : o \in stack[j] \cup lockbuf[j] => Rooted(o)
    <2>1. \A o \in Obj : o \in stack[j] \cup lockbuf[j] => o \in InHand(j)
      BY DEF InHand
    <2>2. QED
      BY <2>1, Zenon DEF Rooted
  <1>7. Gone'
    <2>1. \A o \in Obj : ~Live(o) => o \notin stack[j] \cup lockbuf[j]
      BY <1>10, <1>h DEF Existing
    <2>2. \A o \in Obj : ~Live(o) => \A i \in Job : \A e \in Epoch : stk'[i][e][o] = stk[i][e][o]
      BY <1>s, <1>g, <2>1
    <2>3. QED
      BY <1>i, <1>u, <1>n, <1>l, <2>2 DEF Gone
  <1>8. FreshKept'
    BY <1>i, <1>u DEF FreshKept
  <1>9. Flags'
    BY <1>i, <1>u DEF Flags, Holders
  <1>11. \A o \in Obj : Rooted(o)' => Rooted(o)
    <2> SUFFICES ASSUME NEW o \in Obj, Rooted(o)' PROVE Rooted(o)
      OBVIOUS
    <2>1. \/ \E i \in Job : \/ o \in InHand(i)
                            \/ \E e \in Epoch : inc[i][e][o] > 0
                            \/ stk'[i][Now][o] > 0
          \/ kept[o] > 0 \/ messages = o
      BY <1>u, <1>n DEF Rooted, InHand
    <2>2. CASE \E i \in Job : stk'[i][Now][o] > 0
      <3>1. (\E i \in Job : stk[i][Now][o] > 0) \/ o \in stack[j] \cup lockbuf[j]
        BY <1>g2, <2>2
      <3>2. QED
        BY <1>h, <3>1, Zenon DEF Rooted
    <2>3. QED
      BY <2>1, <2>2, Zenon DEF Rooted
  <1>12. Holds'
    <2>1. Existing(T)'
      BY <1>10, <1>11, <1>u, <1>l DEF Existing, Closed
    <2>2. QED
      BY <2>1 DEF Holds
  <1>13. Saved'
    <2>1. PICK S \in SUBSET Obj, G \in SUBSET Obj :
             Supports(S, G) /\ \A o \in Obj : Marked(o) => o \in S
      BY <1>i DEF Saved
    <2>2. \A o \in Obj : stk[j][Now][o] > 0 => stk'[j][Now][o] > 0
      BY <1>g
    <2>3. \A i \in Job : \A o \in Obj : stk[i][Now][o] > 0 => stk'[i][Now][o] > 0
      BY <1>s, <1>t, <2>2
    <2>4. \A o \in Obj : Added(o) => Added(o)'
      BY <1>u, <1>n, <2>3 DEF Added
    <2>5. \A o \in Obj : Grounded(o) => Grounded(o)'
      BY <1>u, <1>n, <2>3 DEF Grounded, Sum, Holders
    <2>6. Supports(S, G)'
      <3>1. \A o \in G : o \notin fresh' \/ Added(o)' \/ \E p \in G : o \in kids'[p]
        BY <1>u, <2>1, <2>4 DEF Supports
      <3>2. \A o \in S : Grounded(o)' \/ \E p \in G : o \in kids'[p]
        BY <1>u, <2>1, <2>5 DEF Supports
      <3>3. QED
        BY <1>u, <1>l, <2>1, <3>1, <3>2 DEF Supports, Closed
    <2> DEFINE X == stack[j] \cup lockbuf[j]
    <2>7. X \in SUBSET Obj /\ S \in SUBSET Obj /\ G \in SUBSET Obj /\ T \in SUBSET Obj
      BY <1>i DEF TypeOK
    <2>8. X \subseteq T
      BY <1>10, <1>h, <2>7 DEF Existing
    <2>9. \A o \in X : Grounded(o)' /\ (o \notin fresh' \/ Added(o)')
      <3> SUFFICES ASSUME NEW o \in X PROVE Grounded(o)' /\ Added(o)'
        OBVIOUS
      <3>1. stk'[j][Now][o] > 0
        BY <1>g, <2>7
      <3>2. QED
        BY <1>n, <3>1 DEF Grounded, Added
    <2>10. Closed(T)' /\ \A o \in T : Live(o)'
      BY <1>10, <1>u, <1>l DEF Existing, Closed
    <2>11. Extends'
      BY Extend, PTL
    <2>12. kids' \in [Obj -> SUBSET Obj]
      BY <1>i, <1>u DEF TypeOK
    <2>13. \A o \in Obj : Marked(o)' => Marked(o) \/ o \in X
      <3> SUFFICES ASSUME NEW o \in Obj, Marked(o)', o \notin X PROVE Marked(o)
        OBVIOUS
      <3>1. \/ \E i \in Job : \/ i < turn' /\ o \in InHand(i)
                              \/ inc[i][Later][o] > 0
            \/ kept[o] > 0 \/ messages = o
        BY <1>u, <1>n DEF Marked, InHand
      <3>2. o \notin InHand(j)
        BY <1>u DEF InHand, Obj
      <3>3. QED
        BY <1>j, <3>1, <3>2, Zenon DEF Marked
    <2> HIDE DEF X
    <2>14. \E S2, G2 \in SUBSET Obj : Supports(S2, G2)' /\ S \cup X \subseteq S2
      BY <2>6, <2>7, <2>8, <2>9, <2>10, <2>11, <2>12, Zenon DEF Extends
    <2>15. PICK S2 \in SUBSET Obj, G2 \in SUBSET Obj :
              Supports(S2, G2)' /\ S \cup X \subseteq S2
      BY <2>14
    <2>16. \A o \in Obj : Marked(o)' => o \in S2
      BY <2>1, <2>13, <2>15
    <2>17. QED
      BY <2>15, <2>16 DEF Saved
  <1>14. QED
    BY <1>1, <1>2, <1>3, <1>4, <1>5, <1>6, <1>7, <1>8, <1>9, <1>12, <1>13 DEF IInv

-----------------------------------------------------------------------------
(* A new object is the next one in order.                                  *)
LEMMA NextBorn ==
  ASSUME Births, Youngest < Objects
  PROVE  \E n \in Nat : /\ n + 1 = Youngest + 1 /\ n + 1 \in Obj
                        /\ \A o \in Obj : status[o] = "unborn" <=> o > n
  <1>1. PICK n \in 0..Objects : \A o \in Obj : status[o] = "unborn" <=> o > n
    BY DEF Births
  <1>2. {o \in Obj : status[o] # "unborn"} = 1..n
    BY <1>1 DEF Obj
  <1>3. Cardinality(1..n) = n
    BY FS_Interval
  <1>4. Youngest = n
    BY <1>2, <1>3 DEF Youngest
  <1>5. n + 1 \in Obj
    BY <1>4 DEF Obj
  <1>6. QED
    BY <1>1, <1>4, <1>5

(* It refers to what its job holds, and either its birth reference is in   *)
(* the buffer already or the lock buffer holds it.                         *)
LEMMA NewStep ==
  ASSUME IInv, TypeOK', NEW j \in Job, New(j)
  PROVE  IInv'
  <1>i. /\ TypeOK /\ Births /\ Kin /\ Phase /\ Slots /\ Balance /\ Counts
        /\ Gone /\ FreshKept /\ Flags /\ Holds /\ Saved
    BY Parts
  <1>1. PICK n \in Nat : /\ n + 1 = Youngest + 1 /\ n + 1 \in Obj
                         /\ \A q \in Obj : status[q] = "unborn" <=> q > n
    BY <1>i, NextBorn DEF New
  <1>2. PICK o \in Obj : o = n + 1
    BY <1>1
  <1>3. /\ status' = [status EXCEPT ![o] = "live"] /\ refs' = [refs EXCEPT ![o] = 1]
        /\ fresh' = fresh \cup {o}
        /\ UNCHANGED <<locked, kept, messages, reading, snapshot, inc, stk, epoch,
                       turn, rounds, down>>
    <2>1. o = Youngest + 1
      BY <1>1, <1>2
    <2>2. QED
      BY <2>1, Zenon DEF New
  <1>4. PICK K \in SUBSET (stack[j] \cup lockbuf[j]) : kids' = [kids EXCEPT ![o] = K]
    <2>1. o = Youngest + 1
      BY <1>1, <1>2
    <2>2. QED
      BY <2>1, Zenon DEF New
  <1>5. \/ /\ lockbuf' = [lockbuf EXCEPT ![j] = lockbuf[j] \cup {o}]
           /\ buffered' = buffered \cup {o} /\ stack' = stack /\ dec' = dec
        \/ /\ dec' = Queue(dec, j, o)
           /\ stack' = [stack EXCEPT ![j] = stack[j] \cup {o}]
           /\ lockbuf' = lockbuf /\ buffered' = buffered
    <2>1. o = Youngest + 1
      BY <1>1, <1>2
    <2>2. QED
      BY <2>1, Zenon DEF New
  <1>k. /\ kids \in [Obj -> SUBSET Obj] /\ status \in [Obj -> {"unborn", "live", "freed"}]
        /\ stack \in [Job -> SUBSET Obj] /\ lockbuf \in [Job -> SUBSET Obj]
        /\ refs \in [Obj -> Nat] /\ fresh \subseteq Obj /\ buffered \subseteq Obj
        /\ epoch[j] \in Epoch /\ turn \in 0..(Jobs + 1)
        /\ \A q \in Obj : kept[q] \in Nat
    BY <1>i DEF TypeOK
  <1>b. inc \in Buffers /\ dec \in Buffers /\ stk \in Buffers /\ dec' \in Buffers
    <2>1. dec' \in Buffers
      BY DEF TypeOK, Buffers
    <2>2. QED
      BY <1>i, <2>1, Types
  <1>t. /\ Now \in Epoch /\ Later \in Epoch /\ Last \in Epoch
        /\ Now # Later /\ Now # Last /\ Later # Last
        /\ \A y \in Epoch : y = Now \/ y = Later \/ y = Last
    BY <1>i, Types
  <1>n. Now' = Now /\ Later' = Later /\ Last' = Last
    BY <1>3 DEF Now, Later, Last
  <1>6. status[o] = "unborn" /\ ~Live(o) /\ Live(o)'
    BY <1>1, <1>2, <1>3, <1>k DEF Live
  <1>7. \A q \in Obj : q # o => status'[q] = status[q] /\ refs'[q] = refs[q] /\ kids'[q] = kids[q]
                                /\ (Live(q)' <=> Live(q)) /\ (q \in fresh' <=> q \in fresh)
    BY <1>3, <1>4, <1>k DEF Live
  <1>8. PICK T \in SUBSET Obj : Existing(T)
    BY <1>i DEF Holds
  <1>9. ~Rooted(o)
    BY <1>6, <1>8 DEF Existing
  <1>10. /\ kept[o] = 0 /\ messages # o
         /\ \A i \in Job : /\ o \notin InHand(i)
                           /\ \A e \in Epoch : inc[i][e][o] = 0 /\ dec[i][e][o] = 0 /\ stk[i][e][o] = 0
    <2>1. ~(kept[o] > 0) /\ messages # o
      BY <1>9, Zenon DEF Rooted
    <2>2. \A i \in Job : o \notin InHand(i) /\ \A e \in Epoch : ~(inc[i][e][o] > 0)
      BY <1>9, Zenon DEF Rooted
    <2>3. \A i \in Job : \A e \in Epoch : inc[i][e][o] \in Nat
      BY <1>b DEF Buffers
    <2>4. \A i \in Job : \A e \in Epoch : inc[i][e][o] = 0
      BY <2>2, <2>3
    <2>5. \A i \in Job : \A e \in Epoch : dec[i][e][o] = 0 /\ stk[i][e][o] = 0
      BY <1>i, <1>6 DEF Gone
    <2>6. kept[o] = 0
      BY <1>k, <2>1
    <2>7. QED
      BY <2>1, <2>2, <2>4, <2>5, <2>6
  <1>11. Holders(o) = {} /\ \A p \in Obj : o \notin kids[p]
    <2>1. \A i \in Job : o \notin lockbuf[i]
      BY <1>10 DEF InHand
    <2>2. \A p \in Obj : o \notin kids[p]
      BY <1>i, <1>6 DEF Kin
    <2>3. QED
      BY <2>1, <2>2 DEF Holders
  <1>12. K \subseteq T /\ (\A q \in K : q \in InHand(j))
    <2>1. \A q \in K : q \in Obj /\ q \in InHand(j)
      BY <1>k DEF InHand
    <2>2. \A q \in K : Rooted(q)
      BY <2>1, Zenon DEF Rooted
    <2>3. QED
      BY <1>8, <2>1, <2>2 DEF Existing
  <1>13. kids'[o] = K /\ refs'[o] = 1 /\ o \in fresh'
    BY <1>3, <1>4, <1>k
  <1>kq. \A p \in Obj : p # o => o \notin kids'[p]
    BY <1>7, <1>11
  <1>h. \A q \in Obj : q # o => Holders(q)' = Holders(q)
    BY <1>5, <1>k DEF Holders
  <1>hj. \/ /\ Holders(o)' = {j} /\ dec' = dec
         \/ /\ Holders(o)' = {} /\ dec' = Queue(dec, j, o)
    BY <1>5, <1>k, <1>11 DEF Holders
  <1>hand. \A i \in Job : \A q \in Obj :
              q \in InHand(i)' => q \in InHand(i) \/ (q = o /\ i = j)
    BY <1>3, <1>5, <1>k DEF InHand
  <1>ad. PICK d \in [Obj -> Nat] :
            /\ Adds(dec, dec', j, epoch[j], d)
            /\ \A q \in Obj : q # o => d[q] = 0
            /\ Cardinality(Holders(o)') + d[o] = 1
    <2>1. CASE Holders(o)' = {j} /\ dec' = dec
      <3>1. Cardinality(Holders(o)') = 1
        BY <2>1, FS_Singleton
      <3>2. Adds(dec, dec', j, epoch[j], [q \in Obj |-> 0])
        BY <1>b, <1>k, <2>1, NothingAdds
      <3>3. [q \in Obj |-> 0] \in [Obj -> Nat]
        OBVIOUS
      <3>4. QED
        BY <3>1, <3>2, <3>3
    <2>2. CASE Holders(o)' = {} /\ dec' = Queue(dec, j, o)
      <3>1. Cardinality(Holders(o)') = 0
        BY <2>2, FS_EmptySet
      <3>2. Adds(dec, dec', j, epoch[j], One(o))
        BY <1>b, <1>k, <2>2, QueueAdds
      <3>3. One(o) \in [Obj -> Nat] /\ One(o)[o] = 1 /\ \A q \in Obj : q # o => One(o)[q] = 0
        BY DEF One
      <3>4. QED
        BY <3>1, <3>2, <3>3
    <2>3. QED
      BY <1>hj, <2>1, <2>2
  <1>x. epoch[j] = Now \/ epoch[j] = Later
    BY <1>i DEF Phase
  <1>s. \A q \in Obj :
           /\ \A e \in Epoch : Sum(dec', e, q) >= Sum(dec, e, q)
           /\ q # o => \A e \in Epoch : Sum(dec', e, q) = Sum(dec, e, q)
           /\ Pending(dec', q) = Pending(dec, q) + d[q]
           /\ Sum(dec', epoch[j], q) = Sum(dec, epoch[j], q) + d[q]
    <2> SUFFICES ASSUME NEW q \in Obj
                 PROVE  /\ \A e \in Epoch : Sum(dec', e, q) >= Sum(dec, e, q)
                        /\ q # o => \A e \in Epoch : Sum(dec', e, q) = Sum(dec, e, q)
                        /\ Pending(dec', q) = Pending(dec, q) + d[q]
                        /\ Sum(dec', epoch[j], q) = Sum(dec, epoch[j], q) + d[q]
      OBVIOUS
    <2>1. /\ Sum(dec', epoch[j], q) = Sum(dec, epoch[j], q) + d[q]
          /\ \A e \in Epoch : e # epoch[j] => Sum(dec', e, q) = Sum(dec, e, q)
          /\ Pending(dec', q) = Pending(dec, q) + d[q]
      BY <1>b, <1>k, <1>ad, AddsSum
    <2>2. d[q] \in Nat /\ (q # o => d[q] = 0) /\ \A e \in Epoch : Sum(dec, e, q) \in Nat
      BY <1>b, <1>ad, SumNat
    <2>3. QED
      BY <2>1, <2>2
  <1>20. Births'
    <2>1. \A q \in Obj : status'[q] = "unborn" <=> q > n + 1
      BY <1>1, <1>2, <1>3, <1>k DEF Obj
    <2>2. n + 1 \in 0..Objects
      BY <1>1 DEF Obj
    <2>3. QED
      BY <2>1, <2>2 DEF Births
  <1>21. Kin'
    <2>1. ASSUME NEW p \in Obj, NEW q \in kids'[p]
          PROVE  q < p /\ status'[q] # "unborn"
      <3>1. CASE p = o
        <4>1. q \in T /\ q \in Obj
          BY <1>12, <1>13, <3>1
        <4>2. Live(q)
          BY <1>8, <4>1 DEF Existing
        <4>3. q # o
          BY <1>6, <4>2
        <4>4. ~(q > n)
          BY <1>1, <4>1, <4>2 DEF Live
        <4>5. QED
          BY <1>2, <1>7, <3>1, <4>1, <4>2, <4>3, <4>4 DEF Live, Obj
      <3>2. CASE p # o
        <4>1. q \in kids[p] /\ q # o /\ q \in Obj
          BY <1>7, <1>11, <1>k, <3>2
        <4>2. QED
          BY <1>i, <1>7, <4>1 DEF Kin
      <3>3. QED
        BY <3>1, <3>2
    <2>2. ASSUME NEW p \in Obj \ fresh', Live(p)', NEW q \in kids'[p]
          PROVE  Live(q)' /\ q \notin fresh'
      <3>1. p # o /\ p \notin fresh /\ Live(p) /\ q \in kids[p]
        BY <1>7, <1>13, <2>2
      <3>2. q \in Obj /\ q # o
        BY <1>11, <1>k, <3>1
      <3>3. QED
        BY <1>i, <1>7, <3>1, <3>2 DEF Kin
    <2>3. QED
      BY <2>1, <2>2 DEF Kin
  <1>22. Phase'
    BY <1>i, <1>3, <1>n DEF Phase
  <1>23. Slots'
    BY <1>i, <1>3, <1>n DEF Slots
  <1>24. Balance'
    <2>1. \A q \in Obj : Sum(inc, Later, q) <= kept[q] + Sum(dec', Now, q) + Sum(dec', Later, q)
      <3> SUFFICES ASSUME NEW q \in Obj
                   PROVE  Sum(inc, Later, q) <= kept[q] + Sum(dec', Now, q) + Sum(dec', Later, q)
        OBVIOUS
      <3>1. /\ Sum(dec', Now, q) >= Sum(dec, Now, q) /\ Sum(dec', Later, q) >= Sum(dec, Later, q)
            /\ Sum(inc, Later, q) <= kept[q] + Sum(dec, Now, q) + Sum(dec, Later, q)
        BY <1>i, <1>s, <1>t DEF Balance
      <3>2. /\ Sum(inc, Later, q) \in Nat /\ Sum(dec, Now, q) \in Nat /\ Sum(dec, Later, q) \in Nat
            /\ Sum(dec', Now, q) \in Nat /\ Sum(dec', Later, q) \in Nat /\ kept[q] \in Nat
        BY <1>b, <1>k, <1>t, SumNat
      <3>3. QED
        BY <3>1, <3>2
    <2>2. QED
      BY <1>3, <1>n, <2>1 DEF Balance
  <1>25. Counts'
    <2>1. ASSUME NEW q \in Obj, q # o, Live(q)'
          PROVE  Balanced(q)'
      <3>1. Parents(q)' = Parents(q)
        <4>1. \A p \in Obj : p \in Parents(q)' <=> p \in Parents(q)
          BY <1>7, <1>6, <1>13 DEF Parents
        <4>2. QED
          BY <4>1 DEF Parents
      <3>2. Pending(dec', q) = Pending(dec, q)
        <4>1. Pending(dec, q) \in Nat
          BY <1>b, SumNat DEF Pending, Epoch
        <4>2. d[q] = 0 /\ Pending(dec', q) = Pending(dec, q) + d[q]
          BY <1>ad, <1>s, <2>1
        <4>3. QED
          BY <4>1, <4>2
      <3>3. Balanced(q)
        BY <1>i, <1>7, <2>1 DEF Counts
      <3>4. refs'[q] = refs[q] /\ Holders(q)' = Holders(q)
        BY <1>7, <1>h, <2>1
      <3>5. Pending(inc', q) = Pending(inc, q) /\ Sum(stk', Last', q) = Sum(stk, Last, q)
            /\ snapshot'[Last'] = snapshot[Last] /\ kept'[q] = kept[q]
        BY <1>3, <1>n
      <3>6. QED
        BY <3>1, <3>2, <3>3, <3>4, <3>5 DEF Balanced
    <2>2. Balanced(o)'
      <3>1. Parents(o)' = {}
        BY <1>kq, <1>13 DEF Parents
      <3>2. Cardinality(Parents(o)') = 0
        BY <3>1, FS_EmptySet
      <3>3. Sum(stk, Last, o) = 0
        BY <1>b, <1>t, <1>10, SumZero
      <3>4. snapshot[Last] # o
        BY <1>i, <1>6 DEF Gone
      <3>5. Pending(inc, o) = 0 /\ Pending(dec, o) = 0
        <4>1. 0 \in Epoch /\ 1 \in Epoch /\ 2 \in Epoch
          BY DEF Epoch
        <4>2. QED
          BY <1>b, <1>10, <4>1, SumZero DEF Pending
      <3>6. Pending(dec', o) = d[o] /\ d[o] \in Nat
        BY <1>s, <1>ad, <3>5
      <3>7. Cardinality(Holders(o)') + d[o] = 1 /\ Cardinality(Holders(o)') \in Nat
        <4>1. HoldersCounted'
          BY AllHoldersCounted, PTL
        <4>2. QED
          BY <1>ad, <4>1 DEF HoldersCounted
      <3>8. Bit(snapshot[Last] = o) = 0
        BY <3>4 DEF Bit
      <3>9. 1 + 0 = 0 + 0 + Pending(dec', o) + 0 + 0 + Cardinality(Holders(o)')
        BY <3>6, <3>7
      <3>10. Pending(inc', o) = 0 /\ Sum(stk', Last', o) = 0 /\ Bit(snapshot'[Last'] = o) = 0
             /\ kept'[o] = 0
        BY <1>3, <1>n, <1>10, <3>3, <3>5, <3>8
      <3>11. QED
        BY <1>13, <3>2, <3>9, <3>10 DEF Balanced
    <2>3. QED
      BY <2>1, <2>2 DEF Counts
  <1>26. Gone'
    <2> SUFFICES ASSUME NEW q \in Obj, ~Live(q)'
                 PROVE  /\ refs'[q] = 0
                        /\ \A i \in Job : \A e \in Epoch : dec'[i][e][q] = 0 /\ stk'[i][e][q] = 0
                        /\ snapshot'[Last'] # q
      BY DEF Gone
    <2>1. q # o /\ ~Live(q)
      BY <1>6, <1>7
    <2>2. \A i \in Job : \A e \in Epoch : dec'[i][e][q] = dec[i][e][q]
      <3>1. d[q] = 0 /\ \A i \in Job : \A e \in Epoch : dec[i][e][q] \in Nat
        BY <1>ad, <1>b, <2>1 DEF Buffers
      <3>2. QED
        BY <1>ad, <3>1 DEF Adds
    <2>3. QED
      BY <1>i, <1>3, <1>7, <1>n, <2>1, <2>2 DEF Gone
  <1>27. FreshKept'
    BY <1>i, <1>3, <1>10 DEF FreshKept
  <1>28. Flags'
    <2> SUFFICES ASSUME NEW q \in buffered'
                 PROVE  status'[q] = "freed" \/ Holders(q)' # {}
      BY DEF Flags
    <2>1. CASE q = o
      <3>1. o \notin buffered
        BY <1>i, <1>6, <1>11 DEF Flags
      <3>2. QED
        BY <1>5, <1>k, <2>1, <3>1 DEF Holders
    <2>2. CASE q # o
      <3>1. q \in buffered /\ q \in Obj
        BY <1>5, <1>k, <2>2
      <3>2. QED
        BY <1>i, <1>7, <1>h, <2>2, <3>1 DEF Flags
    <2>3. QED
      BY <2>1, <2>2
  <1>29. \A q \in Obj : Rooted(q)' => Rooted(q) \/ q = o
    <2> SUFFICES ASSUME NEW q \in Obj, Rooted(q)', q # o PROVE Rooted(q)
      OBVIOUS
    <2>1. \/ \E i \in Job : \/ q \in InHand(i)'
                            \/ \E e \in Epoch : inc[i][e][q] > 0
                            \/ stk[i][Now][q] > 0
          \/ kept[q] > 0 \/ messages = q
      BY <1>3, <1>n DEF Rooted
    <2>2. QED
      BY <1>hand, <2>1, Zenon DEF Rooted
  <1>30. Holds'
    <2> DEFINE U == T \cup {o}
    <2>1. Existing(U)'
      <3>1. \A q \in Obj : Rooted(q)' => q \in U
        BY <1>8, <1>29 DEF Existing
      <3>2. \A q \in U : Live(q)'
        BY <1>6, <1>7, <1>8 DEF Existing
      <3>3. \A p \in U : kids'[p] \subseteq U
        BY <1>7, <1>8, <1>12, <1>13 DEF Existing, Closed
      <3>4. QED
        BY <3>1, <3>2, <3>3 DEF Existing, Closed
    <2>2. U \in SUBSET Obj
      OBVIOUS
    <2>3. QED
      BY <2>1, <2>2 DEF Holds
  <1>31. Saved'
    <2>1. PICK S \in SUBSET Obj, G \in SUBSET Obj :
             Supports(S, G) /\ \A q \in Obj : Marked(q) => q \in S
      BY <1>i DEF Saved
    <2>2. o \notin S
      BY <1>6, <2>1 DEF Supports
    <2>3. \A q \in Obj : Added(q)' = Added(q)
      BY <1>3, <1>n DEF Added
    <2>4. \A q \in S : Grounded(q) => Grounded(q)'
      <3> SUFFICES ASSUME NEW q \in S, Grounded(q) PROVE Grounded(q)'
        OBVIOUS
      <3>1. q \in Obj /\ q # o
        BY <2>2
      <3>2. /\ Holders(q)' = Holders(q)
            /\ Sum(dec', Now, q) = Sum(dec, Now, q) /\ Sum(dec', Later, q) = Sum(dec, Later, q)
        BY <1>h, <1>s, <1>t, <3>1
      <3>3. Sum(inc', Later', q) = Sum(inc, Later, q) /\ kept' = kept /\ messages' = messages
            /\ stk' = stk
        BY <1>3, <1>n
      <3>4. QED
        BY <1>n, <3>2, <3>3 DEF Grounded
    <2>5. Grounded(o)'
      <3>1. CASE Holders(o)' # {}
        BY <3>1 DEF Grounded
      <3>2. CASE Holders(o)' = {}
        <4>1. d[o] = 1
          BY <1>ad, <3>2, FS_EmptySet
        <4>2. Sum(dec', epoch[j], o) = Sum(dec, epoch[j], o) + 1
          BY <1>s, <4>1
        <4>3. Sum(inc, Later, o) = 0
          BY <1>b, <1>t, <1>10, SumZero
        <4>4. /\ Sum(dec, epoch[j], o) \in Nat
              /\ Sum(dec', Now, o) \in Nat /\ Sum(dec', Later, o) \in Nat
          BY <1>b, <1>k, <1>t, SumNat
        <4>5. Sum(inc, Later, o) < kept[o] + Sum(dec', Now, o) + Sum(dec', Later, o)
          <5>1. CASE epoch[j] = Now
            <6>1. Sum(dec', Now, o) > 0
              BY <4>2, <4>4, <5>1
            <6>2. QED
              BY <1>10, <4>3, <4>4, <6>1
          <5>2. CASE epoch[j] = Later
            <6>1. Sum(dec', Later, o) > 0
              BY <4>2, <4>4, <5>2
            <6>2. QED
              BY <1>10, <4>3, <4>4, <6>1
          <5>3. QED
            BY <1>x, <5>1, <5>2
        <4>6. QED
          BY <1>3, <1>n, <4>5 DEF Grounded
      <3>3. QED
        BY <3>1, <3>2
    <2>6. \A q \in Obj : Marked(q)' => Marked(q) \/ (q = o /\ j < turn)
      <3> SUFFICES ASSUME NEW q \in Obj, Marked(q)', ~(q = o /\ j < turn) PROVE Marked(q)
        OBVIOUS
      <3>1. \/ \E i \in Job : \/ i < turn /\ q \in InHand(i)'
                              \/ inc[i][Later][q] > 0
            \/ kept[q] > 0 \/ messages = q
        BY <1>3, <1>n DEF Marked
      <3>2. QED
        BY <1>hand, <3>1, Zenon DEF Marked
    <2>7. CASE j < turn
      <3> DEFINE U == S \cup {o}
      <3>1. K \subseteq S
        <4>1. \A q \in K : q \in Obj /\ Marked(q)
          <5>1. \A q \in K : q \in Obj
            BY <1>k
          <5>2. QED
            BY <1>12, <2>7, <5>1, Zenon DEF Marked
        <4>2. QED
          BY <2>1, <4>1
      <3>2. Supports(U, G)'
        <4>1. G \subseteq U
          BY <2>1 DEF Supports
        <4>2. \A p \in U : kids'[p] \subseteq U
          BY <1>7, <1>13, <2>1, <2>2, <3>1 DEF Supports, Closed
        <4>3. \A q \in U : Live(q)'
          BY <1>6, <1>7, <2>1 DEF Supports
        <4>4. \A q \in G : q \notin fresh' \/ Added(q)' \/ \E p \in G : q \in kids'[p]
          BY <1>7, <2>1, <2>2, <2>3 DEF Supports
        <4>5. \A q \in U : Grounded(q)' \/ \E p \in G : q \in kids'[p]
          BY <1>7, <2>1, <2>2, <2>4, <2>5 DEF Supports
        <4>6. QED
          BY <4>1, <4>2, <4>3, <4>4, <4>5 DEF Supports, Closed
      <3>3. U \in SUBSET Obj /\ \A q \in Obj : Marked(q)' => q \in U
        BY <2>1, <2>6
      <3>4. QED
        BY <3>2, <3>3 DEF Saved
    <2>8. CASE ~(j < turn)
      <3>1. Supports(S, G)'
        <4>1. G \subseteq S
          BY <2>1 DEF Supports
        <4>2. \A p \in S : kids'[p] \subseteq S
          BY <1>7, <2>1, <2>2 DEF Supports, Closed
        <4>3. \A q \in S : Live(q)'
          BY <1>7, <2>1, <2>2 DEF Supports
        <4>4. \A q \in G : q \notin fresh' \/ Added(q)' \/ \E p \in G : q \in kids'[p]
          BY <1>7, <2>1, <2>2, <2>3 DEF Supports
        <4>5. \A q \in S : Grounded(q)' \/ \E p \in G : q \in kids'[p]
          BY <1>7, <2>1, <2>2, <2>4 DEF Supports
        <4>6. QED
          BY <4>1, <4>2, <4>3, <4>4, <4>5 DEF Supports, Closed
      <3>2. \A q \in Obj : Marked(q)' => q \in S
        BY <2>1, <2>6, <2>8
      <3>3. QED
        BY <3>1, <3>2 DEF Saved
    <2>9. QED
      BY <2>7, <2>8
  <1>32. QED
    BY <1>20, <1>21, <1>22, <1>23, <1>24, <1>25, <1>26, <1>27, <1>28, <1>30, <1>31 DEF IInv

-----------------------------------------------------------------------------
(* What a collection does to the counts.                                   *)

Gains   == Increments(Now)
Losses  == Decrements(Now)
Reached == Counted(Gains)
Still   == {o \in fresh : ~Reached[o]}

(* The new parents whose children are counted now.                         *)
Arriving(o) == {p \in Obj : p \in fresh /\ Reached[p] /\ o \in kids[p]}

Total  == [o \in Obj |-> refs[o] + Gains[o] + Cardinality(Arriving(o))]
Fallen == Falls(Total, Losses, Still)

(* The counted parents that fall, and those that stay.                     *)
Falling(o) == {p \in Obj : p \notin Still /\ Fallen[p] /\ o \in kids[p]}
Staying(o) == {p \in Obj : Live(p) /\ p \notin Still /\ o \in kids[p] /\ ~Fallen[p]}

(* What else is left of the count when all is applied.                     *)
Rest(o) == (kept[o] + Sum(dec, Now, o) + Sum(dec, Later, o) - Sum(inc, Later, o))
           + Cardinality(Holders(o)) + Sum(stk, Now, o) + Bit(messages = o)

(* The sums of a collection, spelled out.                                  *)
LEMMA Amounts ==
  ASSUME TypeOK, NEW o \in Obj
  PROVE  /\ Gains[o] = Sum(inc, Now, o) + Sum(stk, Now, o) + Bit(messages = o)
         /\ Losses[o] = Sum(dec, Last, o) + Sum(stk, Last, o) + Bit(snapshot[Last] = o)
         /\ Sum(inc, Now, o) \in Nat /\ Sum(inc, Later, o) \in Nat /\ Sum(inc, Last, o) \in Nat
         /\ Sum(dec, Now, o) \in Nat /\ Sum(dec, Later, o) \in Nat /\ Sum(dec, Last, o) \in Nat
         /\ Sum(stk, Now, o) \in Nat /\ Sum(stk, Last, o) \in Nat
         /\ Bit(messages = o) \in Nat /\ Bit(snapshot[Last] = o) \in Nat
         /\ Gains[o] \in Nat /\ Losses[o] \in Nat
         /\ refs[o] \in Nat /\ kept[o] \in Nat
  <1>1. /\ Gains[o] = Sum(inc, Now, o) + Sum(stk, Now, o) + Bit(messages = o)
        /\ Losses[o] = Sum(dec, Last, o) + Sum(stk, Last, o) + Bit(snapshot[Last] = o)
    BY DEF Gains, Losses, Increments, Decrements, Last, Now
  <1>2. /\ Sum(inc, Now, o) \in Nat /\ Sum(inc, Later, o) \in Nat /\ Sum(inc, Last, o) \in Nat
        /\ Sum(dec, Now, o) \in Nat /\ Sum(dec, Later, o) \in Nat /\ Sum(dec, Last, o) \in Nat
        /\ Sum(stk, Now, o) \in Nat /\ Sum(stk, Last, o) \in Nat
    BY Types, SumNat
  <1>3. Bit(messages = o) \in Nat /\ Bit(snapshot[Last] = o) \in Nat
    BY DEF Bit
  <1>4. refs[o] \in Nat /\ kept[o] \in Nat
    BY DEF TypeOK
  <1>5. Gains[o] \in Nat /\ Losses[o] \in Nat
    BY <1>1, <1>2, <1>3
  <1>6. QED
    BY <1>1, <1>2, <1>3, <1>4, <1>5

(* The increments get to an object that has records of its own, or a new   *)
(* parent that they get to.                                                *)
LEMMA Reaching ==
  ASSUME TypeOK, Kin, NEW o \in Obj
  PROVE  Reached[o] <=> \/ Gains[o] > 0
                        \/ \E p \in Obj : p > o /\ p \in fresh /\ o \in kids[p] /\ Reached[p]
  <1>1. Reached[o] <=> \/ Gains[o] > 0
                       \/ \E p \in (o + 1)..Objects : p \in fresh /\ o \in kids[p] /\ Reached[p]
    BY CountedFacts DEF Reached
  <1>2. \A p : p \in (o + 1)..Objects <=> p \in Obj /\ p > o
    BY DEF Obj
  <1>3. QED
    BY <1>1, <1>2

(* They get only to what exists, and what that refers to exists.           *)
LEMMA ReachedAreLive ==
  ASSUME TypeOK, Kin, NEW T \in SUBSET Obj, Existing(T), NEW o \in Obj, Reached[o]
  PROVE  o \in T /\ Live(o) /\ \A q \in kids[o] : q \in T /\ Live(q)
  <1> DEFINE Bad == {q \in Obj : Reached[q] /\ q \notin T}
  <1>1. Bad = {}
    <2> SUFFICES ASSUME Bad # {} PROVE FALSE
      OBVIOUS
    <2>1. PICK y \in Bad : \A q \in Bad : q <= y
      BY HasYoungest
    <2>2. y \in Obj /\ Reached[y] /\ y \notin T
      OBVIOUS
    <2>3. CASE Gains[y] > 0
      <3>1. Sum(inc, Now, y) > 0 \/ Sum(stk, Now, y) > 0 \/ messages = y
        BY <2>2, <2>3, Amounts DEF Bit
      <3>2. inc \in Buffers /\ stk \in Buffers /\ Now \in Epoch
        BY Types
      <3>3. Rooted(y)
        BY <2>2, <3>1, <3>2, SumPart DEF Rooted
      <3>4. QED
        BY <2>2, <3>3 DEF Existing
    <2>4. ASSUME NEW p \in Obj, p > y, p \in fresh, y \in kids[p], Reached[p]
          PROVE  FALSE
      <3>1. p \notin Bad
        BY <2>1, <2>2, <2>4 DEF Obj
      <3>2. p \in T
        BY <2>4, <3>1
      <3>3. QED
        BY <2>2, <2>4, <3>2 DEF Existing, Closed
    <2>5. QED
      BY <2>2, <2>3, <2>4, Reaching
  <1>2. o \in T
    BY <1>1
  <1>3. QED
    BY <1>2 DEF Existing, Closed

(* What falls: its decrements and the parents that fall are all that count.*)
LEMMA FallsWhen ==
  ASSUME TypeOK, Kin, NEW o \in Obj
  PROVE  Fallen[o] <=> /\ Losses[o] + Cardinality(Falling(o)) > 0
                       /\ Total[o] = Losses[o] + Cardinality(Falling(o))
  <1>1. {p \in (o + 1)..Objects : p \notin Still /\ o \in kids[p] /\ Falls(Total, Losses, Still)[p]}
           = Falling(o)
    <2>1. \A p \in Obj : o \in kids[p] => p > o
      BY DEF Kin, Obj
    <2>2. \A p : p \in (o + 1)..Objects <=> p \in Obj /\ p > o
      BY DEF Obj
    <2>3. QED
      BY <2>1, <2>2 DEF Falling, Fallen
  <1>2. PICK n : n = Losses[o] + Cardinality(Falling(o))
    OBVIOUS
  <1>3. Falls(Total, Losses, Still)[o] <=> n > 0 /\ Total[o] = n
    BY <1>1, <1>2, FallsFacts
  <1>4. QED
    BY <1>2, <1>3 DEF Fallen

(* Sets of objects are finite.                                             *)
LEMMA FiniteObjects ==
  ASSUME NEW S \in SUBSET Obj
  PROVE  IsFiniteSet(S) /\ Cardinality(S) \in Nat /\ (Cardinality(S) = 0 <=> S = {})
  <1>1. IsFiniteSet(Obj)
    BY FS_Interval DEF Obj
  <1>2. IsFiniteSet(S)
    BY <1>1, FS_Subset
  <1>3. QED
    BY <1>2, FS_CardinalityType, FS_EmptySet

(* Two parts that have nothing in common.                                  *)
LEMMA Disjoint ==
  ASSUME NEW S \in SUBSET Obj, NEW U \in SUBSET Obj, S \cap U = {}
  PROVE  Cardinality(S \cup U) = Cardinality(S) + Cardinality(U)
  <1>1. IsFiniteSet(S) /\ IsFiniteSet(U) /\ Cardinality(S) \in Nat /\ Cardinality(U) \in Nat
    BY FiniteObjects
  <1>2. Cardinality(S \cap U) = 0
    BY FS_EmptySet
  <1>3. Cardinality(S \cup U) = Cardinality(S) + Cardinality(U) - Cardinality(S \cap U)
    BY <1>1, FS_Union
  <1>4. QED
    BY <1>1, <1>2, <1>3

(* Nothing counts or reaches what does not exist, so only what exists      *)
(* falls.                                                                  *)
LEMMA OnlyLiveFall ==
  ASSUME IInv, NEW o \in Obj, ~Live(o)
  PROVE  ~Fallen[o] /\ Falling(o) = {} /\ Total[o] = 0 /\ Losses[o] = 0
  <1>i. TypeOK /\ Kin /\ Gone /\ Holds
    BY Parts
  <1>1. PICK T \in SUBSET Obj : Existing(T)
    BY <1>i DEF Holds
  <1>2. ASSUME NEW q \in Obj, ~Live(q)
        PROVE  Losses[q] = 0
    <2>1. \A j \in Job : \A e \in Epoch : dec[j][e][q] = 0 /\ stk[j][e][q] = 0
      BY <1>i, <1>2 DEF Gone
    <2>2. Last \in Epoch /\ dec \in Buffers /\ stk \in Buffers
      BY <1>i, Types
    <2>3. Sum(dec, Last, q) = 0 /\ Sum(stk, Last, q) = 0
      BY <2>1, <2>2, SumZero
    <2>4. Bit(snapshot[Last] = q) = 0
      BY <1>i, <1>2 DEF Gone, Bit
    <2>5. QED
      BY <1>i, <2>3, <2>4, Amounts
  <1>3. ASSUME NEW q \in Obj, ~Live(q), \A p \in Obj : p > q /\ Fallen[p] => Live(p)
        PROVE  Falling(q) = {}
    <2> SUFFICES ASSUME NEW p \in Falling(q) PROVE FALSE
      OBVIOUS
    <2>1. p \in Obj /\ p \notin Still /\ Fallen[p] /\ q \in kids[p]
      BY DEF Falling
    <2>2. p > q
      BY <1>i, <2>1 DEF Kin, Obj
    <2>3. Live(p)
      BY <1>3, <2>1, <2>2
    <2>4. CASE p \in fresh
      <3>1. Reached[p]
        BY <2>1, <2>4 DEF Still
      <3>2. QED
        BY <1>1, <1>3, <1>i, <2>1, <3>1, ReachedAreLive
    <2>5. CASE p \notin fresh
      BY <1>3, <1>i, <2>1, <2>3, <2>5 DEF Kin
    <2>6. QED
      BY <2>4, <2>5
  <1> DEFINE Bad == {q \in Obj : ~Live(q) /\ Fallen[q]}
  <1>4. Bad = {}
    <2> SUFFICES ASSUME Bad # {} PROVE FALSE
      OBVIOUS
    <2>1. PICK y \in Bad : \A q \in Bad : q <= y
      BY HasYoungest
    <2>2. y \in Obj /\ ~Live(y) /\ Fallen[y]
      OBVIOUS
    <2>3. \A p \in Obj : p > y /\ Fallen[p] => Live(p)
      <3>1. \A p \in Obj : p > y => p \notin Bad
        BY <2>1, <2>2 DEF Obj
      <3>2. QED
        BY <3>1
    <2>4. Falling(y) = {}
      BY <1>3, <2>2, <2>3
    <2>5. Losses[y] + Cardinality(Falling(y)) = 0
      BY <1>2, <2>2, <2>4, FS_EmptySet
    <2>6. QED
      BY <1>i, <2>2, <2>5, FallsWhen
  <1>5. ~Fallen[o] /\ Falling(o) = {} /\ Losses[o] = 0
    <2>1. \A p \in Obj : Fallen[p] => Live(p)
      BY <1>4
    <2>2. QED
      BY <1>2, <1>3, <2>1
  <1>6. Total[o] = 0
    <2>1. refs[o] = 0
      BY <1>i DEF Gone
    <2>2. ~Reached[o]
      BY <1>1, <1>i, ReachedAreLive
    <2>3. Gains[o] = 0
      BY <1>i, <2>2, Reaching, Amounts
    <2>4. Arriving(o) = {}
      BY <1>1, <1>i, ReachedAreLive DEF Arriving
    <2>5. Cardinality(Arriving(o)) = 0
      BY <2>4, FS_EmptySet
    <2>6. QED
      BY <2>1, <2>3, <2>5 DEF Total
  <1>7. QED
    BY <1>5, <1>6

(* The count of an object, once the increments are in: the decrements, the *)
(* parents that fall, the parents that stay, and the rest.                 *)
LEMMA TotalParts ==
  ASSUME IInv, turn = Jobs + 1, NEW o \in Obj, Live(o)
  PROVE  /\ Total[o] = Losses[o] + Cardinality(Falling(o)) + Cardinality(Staying(o)) + Rest(o)
         /\ Rest(o) \in Nat
         /\ Grounded(o) => Rest(o) > 0
  <1>i. TypeOK /\ Kin /\ Slots /\ Balance /\ Counts /\ Holds
    BY Parts
  <1>1. PICK T \in SUBSET Obj : Existing(T)
    BY <1>i DEF Holds
  <1>2. Cardinality(Parents(o)) + Cardinality(Arriving(o))
          = Cardinality(Falling(o)) + Cardinality(Staying(o))
    <2>1. /\ Parents(o) \in SUBSET Obj /\ Arriving(o) \in SUBSET Obj
          /\ Falling(o) \in SUBSET Obj /\ Staying(o) \in SUBSET Obj
      BY DEF Parents, Arriving, Falling, Staying
    <2>2. Parents(o) \cap Arriving(o) = {} /\ Falling(o) \cap Staying(o) = {}
      BY DEF Parents, Arriving, Falling, Staying
    <2>3. \A p \in Obj : Fallen[p] => Live(p)
      BY OnlyLiveFall
    <2>4. \A p \in Obj : Reached[p] => Live(p)
      BY <1>1, <1>i, ReachedAreLive
    <2>5. Parents(o) \cup Arriving(o) = Falling(o) \cup Staying(o)
      BY <2>3, <2>4 DEF Parents, Arriving, Falling, Staying, Still
    <2>6. /\ Cardinality(Parents(o) \cup Arriving(o))
               = Cardinality(Parents(o)) + Cardinality(Arriving(o))
          /\ Cardinality(Falling(o) \cup Staying(o))
               = Cardinality(Falling(o)) + Cardinality(Staying(o))
      BY <2>1, <2>2, Disjoint
    <2>7. QED
      BY <2>5, <2>6
  <1>3. Sum(inc, Last, o) = 0
    <2>1. inc \in Buffers /\ Last \in Epoch
      BY <1>i, Types
    <2>2. QED
      BY <1>i, <2>1, SumZero DEF Slots
  <1>4. /\ Pending(inc, o) = Sum(inc, Now, o) + Sum(inc, Later, o) + Sum(inc, Last, o)
        /\ Pending(dec, o) = Sum(dec, Now, o) + Sum(dec, Later, o) + Sum(dec, Last, o)
    <2>1. inc \in Buffers /\ dec \in Buffers /\ Now \in Epoch
          /\ Later = Next3(Now) /\ Last = Prev3(Now)
      BY <1>i, Types DEF Now, Later, Last
    <2>2. QED
      BY <2>1, PendingParts
  <1>n. /\ Cardinality(Parents(o)) \in Nat /\ Cardinality(Arriving(o)) \in Nat
        /\ Cardinality(Falling(o)) \in Nat /\ Cardinality(Staying(o)) \in Nat
    <2>1. /\ Parents(o) \in SUBSET Obj /\ Arriving(o) \in SUBSET Obj
          /\ Falling(o) \in SUBSET Obj /\ Staying(o) \in SUBSET Obj
      BY DEF Parents, Arriving, Falling, Staying
    <2>2. QED
      BY <2>1, FiniteObjects
  <1>h. Cardinality(Holders(o)) \in Nat /\ (Cardinality(Holders(o)) = 0 <=> Holders(o) = {})
    BY FiniteHolders
  <1>5. /\ refs[o] + Pending(inc, o) =
             Cardinality(Parents(o)) + kept[o] + Pending(dec, o) + Sum(stk, Last, o)
             + Bit(snapshot[Last] = o) + Cardinality(Holders(o))
        /\ Total[o] = refs[o] + Gains[o] + Cardinality(Arriving(o))
    BY <1>i DEF Counts, Balanced, Total
  <1>6. Sum(inc, Later, o) <= kept[o] + Sum(dec, Now, o) + Sum(dec, Later, o)
    BY <1>i DEF Balance
  <1>a. /\ Gains[o] = Sum(inc, Now, o) + Sum(stk, Now, o) + Bit(messages = o)
        /\ Losses[o] = Sum(dec, Last, o) + Sum(stk, Last, o) + Bit(snapshot[Last] = o)
        /\ Sum(inc, Now, o) \in Nat /\ Sum(inc, Later, o) \in Nat /\ Sum(inc, Last, o) \in Nat
        /\ Sum(dec, Now, o) \in Nat /\ Sum(dec, Later, o) \in Nat /\ Sum(dec, Last, o) \in Nat
        /\ Sum(stk, Now, o) \in Nat /\ Sum(stk, Last, o) \in Nat
        /\ Bit(messages = o) \in Nat /\ Bit(snapshot[Last] = o) \in Nat
        /\ refs[o] \in Nat /\ kept[o] \in Nat
    BY <1>i, Amounts
  <1>7. Total[o] = Losses[o] + Cardinality(Falling(o)) + Cardinality(Staying(o)) + Rest(o)
    <2> DEFINE iN == Sum(inc, Now, o)
               iL == Sum(inc, Later, o)
               iP == Sum(inc, Last, o)
               dN == Sum(dec, Now, o)
               dL == Sum(dec, Later, o)
               dP == Sum(dec, Last, o)
               sN == Sum(stk, Now, o)
               sP == Sum(stk, Last, o)
               m  == Bit(messages = o)
               w  == Bit(snapshot[Last] = o)
               r  == refs[o]
               k  == kept[o]
               cP == Cardinality(Parents(o))
               cA == Cardinality(Arriving(o))
               cF == Cardinality(Falling(o))
               cS == Cardinality(Staying(o))
               cH == Cardinality(Holders(o))
    <2>1. /\ iN \in Nat /\ iL \in Nat /\ dN \in Nat /\ dL \in Nat /\ dP \in Nat /\ sN \in Nat
          /\ sP \in Nat /\ m \in Nat /\ w \in Nat /\ r \in Nat /\ k \in Nat
          /\ cP \in Nat /\ cA \in Nat /\ cF \in Nat /\ cS \in Nat /\ cH \in Nat
      BY <1>n, <1>h, <1>a
    <2>2. /\ Gains[o] = iN + sN + m /\ Losses[o] = dP + sP + w
          /\ Total[o] = r + Gains[o] + cA
      BY <1>5, <1>a
    <2>3. Rest(o) = (k + dN + dL - iL) + cH + sN + m
      BY DEF Rest
    <2>4. r + Pending(inc, o) = cP + k + Pending(dec, o) + sP + w + cH
      BY <1>5
    <2>5. Pending(inc, o) = iN + iL + iP /\ Pending(dec, o) = dN + dL + dP /\ iP = 0
      BY <1>3, <1>4
    <2>6. cP + cA = cF + cS
      BY <1>2
    <2> HIDE DEF iN, iL, iP, dN, dL, dP, sN, sP, m, w, r, k, cP, cA, cF, cS, cH
    <2>7. r + (iN + iL) = cP + k + (dN + dL + dP) + sP + w + cH
      BY <2>1, <2>4, <2>5
    <2>8. r + (iN + sN + m) + cA = (dP + sP + w) + cF + cS + ((k + dN + dL - iL) + cH + sN + m)
      BY <2>1, <2>6, <2>7
    <2>9. Total[o] = Losses[o] + cF + cS + Rest(o)
      BY <2>2, <2>3, <2>8
    <2>10. QED
      BY <2>9 DEF cF, cS
  <1>8. Rest(o) \in Nat
    BY <1>6, <1>h, <1>a DEF Rest
  <1>9. ASSUME Grounded(o)
        PROVE  Rest(o) > 0
    <2>1. \/ Sum(inc, Later, o) < kept[o] + Sum(dec, Now, o) + Sum(dec, Later, o)
          \/ Cardinality(Holders(o)) > 0
          \/ Sum(stk, Now, o) > 0
          \/ Bit(messages = o) > 0
      <3>1. CASE messages = o
        BY <3>1 DEF Bit
      <3>2. CASE \E j \in Job : stk[j][Now][o] > 0
        <4>1. stk \in Buffers /\ Now \in Epoch
          BY <1>i, Types
        <4>2. QED
          BY <3>2, <4>1, SumPart
      <3>3. CASE Holders(o) # {}
        BY <1>h, <3>3
      <3>4. QED
        BY <1>9, <3>1, <3>2, <3>3, Zenon DEF Grounded
    <2>2. QED
      BY <1>6, <1>h, <1>a, <2>1 DEF Rest
  <1>10. QED
    BY <1>7, <1>8, <1>9

(* What falls has no parent that stays, and nothing else is left of it.    *)
LEMMA NothingLeft ==
  ASSUME IInv, turn = Jobs + 1, NEW o \in Obj, Fallen[o]
  PROVE  /\ Live(o) /\ Staying(o) = {} /\ Rest(o) = 0
         /\ Total[o] - Losses[o] - Cardinality(Falling(o)) = 0
  <1>1. Live(o)
    BY OnlyLiveFall
  <1>2. Total[o] = Losses[o] + Cardinality(Falling(o))
    BY Parts, FallsWhen
  <1>3. /\ Total[o] = Losses[o] + Cardinality(Falling(o)) + Cardinality(Staying(o)) + Rest(o)
        /\ Rest(o) \in Nat
    BY <1>1, TotalParts
  <1>4. Falling(o) \in SUBSET Obj /\ Staying(o) \in SUBSET Obj
    BY DEF Falling, Staying
  <1>5. /\ Cardinality(Falling(o)) \in Nat /\ Cardinality(Staying(o)) \in Nat
        /\ (Cardinality(Staying(o)) = 0 <=> Staying(o) = {})
    BY <1>4, FiniteObjects
  <1>6. Losses[o] \in Nat
    BY Parts, Amounts
  <1>7. Cardinality(Staying(o)) = 0 /\ Rest(o) = 0
    BY <1>2, <1>3, <1>5, <1>6
  <1>8. QED
    BY <1>1, <1>2, <1>5, <1>6, <1>7

(* Survivors do survive: the youngest that fell would have a reason left,  *)
(* or a parent that stays.                                                 *)
LEMMA Survive ==
  ASSUME IInv, turn = Jobs + 1, NEW S \in SUBSET Obj, NEW G \in SUBSET Obj, Supports(S, G)
  PROVE  \A o \in S : ~Fallen[o]
  <1>i. TypeOK /\ Kin
    BY Parts
  <1>1. \A p \in G : p \notin Still
    <2> DEFINE Bad == {p \in G : p \in Still}
    <2> SUFFICES ASSUME Bad # {} PROVE FALSE
      OBVIOUS
    <2>1. PICK y \in Bad : \A q \in Bad : q <= y
      <3>1. Bad \in SUBSET Obj
        OBVIOUS
      <3>2. QED
        BY <3>1, HasYoungest
    <2>2. y \in Obj /\ y \in G /\ y \in fresh /\ ~Reached[y]
      BY DEF Still
    <2>3. CASE Added(y)
      <3>1. inc \in Buffers /\ stk \in Buffers /\ Now \in Epoch
        BY <1>i, Types
      <3>2. Sum(inc, Now, y) > 0 \/ Sum(stk, Now, y) > 0 \/ Bit(messages = y) > 0
        BY <2>2, <2>3, <3>1, SumPart DEF Added, Bit
      <3>3. Gains[y] > 0
        BY <1>i, <2>2, <3>2, Amounts
      <3>4. QED
        BY <1>i, <2>2, <3>3, Reaching
    <2>4. ASSUME NEW p \in G, y \in kids[p]
          PROVE  FALSE
      <3>1. p \in Obj /\ p > y /\ Live(p)
        BY <1>i, <2>4 DEF Kin, Obj, Supports
      <3>2. p \notin Bad
        BY <2>1, <2>2, <3>1 DEF Obj
      <3>3. p \notin Still
        BY <2>4, <3>2
      <3>4. p \in fresh
        BY <1>i, <2>2, <2>4, <3>1 DEF Kin
      <3>5. Reached[p]
        BY <3>3, <3>4 DEF Still
      <3>6. QED
        BY <1>i, <2>2, <2>4, <3>1, <3>4, <3>5, Reaching
    <2>5. QED
      BY <2>2, <2>3, <2>4 DEF Supports
  <1> DEFINE Bad == {o \in S : Fallen[o]}
  <1> SUFFICES ASSUME Bad # {} PROVE FALSE
    OBVIOUS
  <1>2. PICK y \in Bad : \A q \in Bad : q <= y
    <2>1. Bad \in SUBSET Obj
      OBVIOUS
    <2>2. QED
      BY <2>1, HasYoungest
  <1>3. y \in Obj /\ y \in S /\ Fallen[y]
    OBVIOUS
  <1>4. Live(y) /\ Staying(y) = {} /\ Rest(y) = 0
    BY <1>3, NothingLeft
  <1>5. ~Grounded(y)
    BY <1>3, <1>4, TotalParts
  <1>6. PICK p \in G : y \in kids[p]
    BY <1>3, <1>5 DEF Supports
  <1>7. p \in Obj /\ p > y /\ Live(p) /\ p \in S
    BY <1>i, <1>6 DEF Kin, Obj, Supports
  <1>8. ~Fallen[p]
    <2>1. p \notin Bad
      BY <1>2, <1>3, <1>7 DEF Obj
    <2>2. QED
      BY <1>7, <2>1
  <1>9. p \in Staying(y)
    BY <1>1, <1>6, <1>7, <1>8 DEF Staying
  <1>10. QED
    BY <1>4, <1>9

(* A buffer that is cleared for one epoch.                                 *)
LEMMA ClearedFacts ==
  ASSUME NEW b \in Buffers, NEW x \in Epoch
  PROVE  /\ Cleared(b, x) \in Buffers
         /\ \A j \in Job : \A o \in Obj : Cleared(b, x)[j][x][o] = 0
         /\ \A j \in Job : \A e \in Epoch : \A o \in Obj :
               e # x => Cleared(b, x)[j][e][o] = b[j][e][o]
  BY DEF Cleared, Buffers

(* The collection in the terms of these lemmas.                            *)
LEMMA CollectDoes ==
  ASSUME Collect
  PROVE  /\ turn = Jobs + 1 /\ turn' = 0
         /\ refs' = [o \in Obj |-> Total[o] - Losses[o] - Cardinality(Falling(o))]
         /\ fresh' = Still
         /\ status' = [o \in Obj |-> IF Fallen[o] /\ o \notin buffered THEN "freed" ELSE status[o]]
         /\ buffered' = buffered \cup {o \in Obj : Fallen[o]}
         /\ snapshot' = [snapshot EXCEPT ![Now] = messages]
         /\ inc' = Cleared(inc, Now) /\ dec' = Cleared(dec, Last) /\ stk' = Cleared(stk, Last)
         /\ epoch' = [epoch EXCEPT ![Gc] = Later]
         /\ UNCHANGED <<kids, stack, locked, lockbuf, kept, messages, reading>>
         /\ IF Up THEN rounds' = rounds + 1 /\ down' = down
                  ELSE down' = down + 1 /\ rounds' = rounds
  BY DEF Collect, Gains, Losses, Reached, Still, Arriving, Total, Fallen, Falling,
         Now, Later, Last, roots

(* The collection keeps the invariant.                                     *)
LEMMA CollectStep ==
  ASSUME IInv, Collect
  PROVE  IInv'
  <1>i. /\ TypeOK /\ Births /\ Kin /\ Phase /\ Slots /\ Balance /\ Counts
        /\ Gone /\ FreshKept /\ Flags /\ Holds /\ Saved
    BY Parts
  <1>c. /\ turn = Jobs + 1 /\ turn' = 0
        /\ refs' = [o \in Obj |-> Total[o] - Losses[o] - Cardinality(Falling(o))]
        /\ fresh' = Still
        /\ status' = [o \in Obj |-> IF Fallen[o] /\ o \notin buffered THEN "freed" ELSE status[o]]
        /\ buffered' = buffered \cup {o \in Obj : Fallen[o]}
        /\ snapshot' = [snapshot EXCEPT ![Now] = messages]
        /\ inc' = Cleared(inc, Now) /\ dec' = Cleared(dec, Last) /\ stk' = Cleared(stk, Last)
        /\ epoch' = [epoch EXCEPT ![Gc] = Later]
        /\ IF Up THEN rounds' = rounds + 1 /\ down' = down
                 ELSE down' = down + 1 /\ rounds' = rounds
    BY CollectDoes
  <1>u. UNCHANGED <<kids, stack, locked, lockbuf, kept, messages, reading>>
    BY CollectDoes
  <1>turn. turn = Jobs + 1 /\ turn' = 0
    BY <1>c
  <1>t. /\ inc \in Buffers /\ dec \in Buffers /\ stk \in Buffers
        /\ Now \in Epoch /\ Later \in Epoch /\ Last \in Epoch
        /\ Now # Later /\ Now # Last /\ Later # Last
        /\ \A x \in Epoch : x = Now \/ x = Later \/ x = Last
    BY <1>i, Types
  <1>k. /\ epoch \in [Job \cup {Gc} -> Epoch] /\ snapshot \in [Epoch -> Obj \cup {None}]
        /\ messages \in Obj \cup {None} /\ rounds \in Nat /\ down \in -1..4
        /\ status \in [Obj -> {"unborn", "live", "freed"}]
        /\ fresh \subseteq Obj /\ buffered \subseteq Obj /\ kids \in [Obj -> SUBSET Obj]
        /\ \A o \in Obj : kept[o] \in Nat
    BY <1>i DEF TypeOK
  <1>j. \A j \in Job : j < turn
    BY <1>turn DEF Job
  <1>n. Now' = Later /\ Last' = Now /\ Later' = Last
    <2>1. Now' = Later
      BY <1>c, <1>k DEF Now
    <2>2. Prev3(Later) = Now /\ Next3(Later) = Last
      BY <1>t, EpochFacts DEF Later, Last, Now
    <2>3. QED
      BY <2>1, <2>2 DEF Now, Later, Last
  <1>b. /\ inc' \in Buffers /\ dec' \in Buffers /\ stk' \in Buffers
        /\ \A j \in Job : \A o \in Obj : inc'[j][Now][o] = 0 /\ dec'[j][Last][o] = 0
                                         /\ stk'[j][Last][o] = 0
        /\ \A j \in Job : \A e \in Epoch : \A o \in Obj :
              /\ e # Now => inc'[j][e][o] = inc[j][e][o]
              /\ e # Last => dec'[j][e][o] = dec[j][e][o] /\ stk'[j][e][o] = stk[j][e][o]
    <2>1. inc' = Cleared(inc, Now) /\ dec' = Cleared(dec, Last) /\ stk' = Cleared(stk, Last)
      BY <1>c
    <2>2. /\ inc' \in Buffers
          /\ \A j \in Job : \A o \in Obj : inc'[j][Now][o] = 0
          /\ \A j \in Job : \A e \in Epoch : \A o \in Obj : e # Now => inc'[j][e][o] = inc[j][e][o]
      <3>1. /\ Cleared(inc, Now) \in Buffers
            /\ \A j \in Job : \A o \in Obj : Cleared(inc, Now)[j][Now][o] = 0
            /\ \A j \in Job : \A e \in Epoch : \A o \in Obj :
                  e # Now => Cleared(inc, Now)[j][e][o] = inc[j][e][o]
        BY <1>t, ClearedFacts
      <3>2. QED
        BY <2>1, <3>1
    <2>3. /\ dec' \in Buffers
          /\ \A j \in Job : \A o \in Obj : dec'[j][Last][o] = 0
          /\ \A j \in Job : \A e \in Epoch : \A o \in Obj : e # Last => dec'[j][e][o] = dec[j][e][o]
      <3>1. /\ Cleared(dec, Last) \in Buffers
            /\ \A j \in Job : \A o \in Obj : Cleared(dec, Last)[j][Last][o] = 0
            /\ \A j \in Job : \A e \in Epoch : \A o \in Obj :
                  e # Last => Cleared(dec, Last)[j][e][o] = dec[j][e][o]
        BY <1>t, ClearedFacts
      <3>2. QED
        BY <2>1, <3>1
    <2>4. /\ stk' \in Buffers
          /\ \A j \in Job : \A o \in Obj : stk'[j][Last][o] = 0
          /\ \A j \in Job : \A e \in Epoch : \A o \in Obj : e # Last => stk'[j][e][o] = stk[j][e][o]
      <3>1. /\ Cleared(stk, Last) \in Buffers
            /\ \A j \in Job : \A o \in Obj : Cleared(stk, Last)[j][Last][o] = 0
            /\ \A j \in Job : \A e \in Epoch : \A o \in Obj :
                  e # Last => Cleared(stk, Last)[j][e][o] = stk[j][e][o]
        BY <1>t, ClearedFacts
      <3>2. QED
        BY <2>1, <3>1
    <2>5. QED
      BY <2>2, <2>3, <2>4
  <1>z. \A j \in Job : \A o \in Obj :
           inc[j][Last][o] = 0 /\ inc'[j][Last][o] = 0 /\ stk[j][Later][o] = 0 /\ stk'[j][Later][o] = 0
    BY <1>i, <1>b, <1>t DEF Slots
  <1>T. PICK T \in SUBSET Obj : Existing(T)
    BY <1>i DEF Holds
  <1>S. PICK S \in SUBSET Obj, G \in SUBSET Obj :
           Supports(S, G) /\ \A o \in Obj : Marked(o) => o \in S
    BY <1>i DEF Saved
  <1>1. \A o \in S : ~Fallen[o]
    BY <1>S, <1>turn, Survive
  <1>2. \A o \in Obj : Fallen[o] => Live(o) /\ Staying(o) = {} /\ Rest(o) = 0
                                    /\ Total[o] - Losses[o] - Cardinality(Falling(o)) = 0
    BY <1>turn, NothingLeft
  (* An object in a lock buffer does not fall: its birth reference is there.*)
  <1>3. \A o \in Obj : Fallen[o] => o \notin buffered
    <2> SUFFICES ASSUME NEW o \in Obj, Fallen[o], o \in buffered PROVE FALSE
      OBVIOUS
    <2>1. Live(o) /\ Rest(o) = 0
      BY <1>2
    <2>2. Holders(o) # {}
      BY <1>i, <2>1 DEF Flags, Live
    <2>3. Grounded(o)
      BY <2>2 DEF Grounded
    <2>4. QED
      BY <1>turn, <2>1, <2>3, TotalParts
  <1>4. \A o \in Obj : status'[o] = IF Fallen[o] THEN "freed" ELSE status[o]
    BY <1>c, <1>3
  <1>5. \A o \in Obj : Live(o)' <=> Live(o) /\ ~Fallen[o]
    BY <1>4 DEF Live
  <1>6. \A o \in Obj : /\ Staying(o) \in SUBSET Obj /\ Cardinality(Staying(o)) \in Nat
                       /\ Cardinality(Falling(o)) \in Nat
    <2>1. \A o \in Obj : Staying(o) \in SUBSET Obj /\ Falling(o) \in SUBSET Obj
      BY DEF Staying, Falling
    <2>2. QED
      BY <2>1, FiniteObjects
  <1>7. \A o \in Obj : Live(o) => /\ refs'[o] = Cardinality(Staying(o)) + Rest(o)
                                  /\ Rest(o) \in Nat
    <2> SUFFICES ASSUME NEW o \in Obj, Live(o)
                 PROVE  refs'[o] = Cardinality(Staying(o)) + Rest(o) /\ Rest(o) \in Nat
      OBVIOUS
    <2>1. /\ Total[o] = Losses[o] + Cardinality(Falling(o)) + Cardinality(Staying(o)) + Rest(o)
          /\ Rest(o) \in Nat
      BY <1>turn, TotalParts
    <2>2. refs'[o] = Total[o] - Losses[o] - Cardinality(Falling(o))
      BY <1>c
    <2>3. Losses[o] \in Nat
      BY <1>i, Amounts
    <2>4. QED
      BY <1>6, <2>1, <2>2, <2>3
  <1>8. \A o \in Obj : ~Live(o) \/ Fallen[o] => refs'[o] = 0
    <2> SUFFICES ASSUME NEW o \in Obj, ~Live(o) \/ Fallen[o]
                 PROVE  refs'[o] = 0
      OBVIOUS
    <2>1. refs'[o] = Total[o] - Losses[o] - Cardinality(Falling(o))
      BY <1>c
    <2>2. CASE Fallen[o]
      BY <1>2, <2>1, <2>2
    <2>3. CASE ~Live(o)
      <3>1. Falling(o) = {} /\ Total[o] = 0 /\ Losses[o] = 0
        BY <2>3, OnlyLiveFall
      <3>2. Cardinality(Falling(o)) = 0
        BY <3>1, FS_EmptySet
      <3>3. QED
        BY <2>1, <3>1, <3>2
    <2>4. QED
      BY <2>2, <2>3
  <1>r. \A o \in Obj : refs'[o] \in Nat
    BY <1>6, <1>7, <1>8
  <1>10. TypeOK'
    <2>1. refs' \in [Obj -> Nat]
      BY <1>c, <1>r
    <2>2. fresh' \subseteq Obj /\ buffered' \subseteq Obj
      BY <1>c, <1>k DEF Still
    <2>3. status' \in [Obj -> {"unborn", "live", "freed"}]
      BY <1>c, <1>k
    <2>4. {inc', dec', stk'} \subseteq [Job -> [Epoch -> [Obj -> Nat]]]
      BY <1>b DEF Buffers
    <2>5. snapshot' \in [Epoch -> Obj \cup {None}]
      BY <1>c, <1>k
    <2>6. epoch' \in [Job \cup {Gc} -> Epoch]
      BY <1>c, <1>k, <1>t
    <2>7. rounds' \in Nat /\ down' \in -1..4
      <3>1. down < 4
        BY <1>i, <1>turn DEF Phase
      <3>2. QED
        BY <1>c, <1>k, <3>1 DEF Up
    <2>8. turn' \in 0..(Jobs + 1)
      BY <1>turn
    <2>9. /\ kids' \in [Obj -> SUBSET Obj] /\ stack' \in [Job -> SUBSET Obj]
          /\ locked' \in [Job -> Nat] /\ lockbuf' \in [Job -> SUBSET Obj]
          /\ kept' \in [Obj -> Nat] /\ messages' \in Obj \cup {None}
          /\ reading' \in [Job -> Obj \cup {None}]
      BY <1>i, <1>u DEF TypeOK
    <2>10. QED
      BY <2>1, <2>2, <2>3, <2>4, <2>5, <2>6, <2>7, <2>8, <2>9 DEF TypeOK
  <1>11. Births'
    <2>1. \A o \in Obj : status'[o] = "unborn" <=> status[o] = "unborn"
      BY <1>2, <1>4 DEF Live
    <2>2. QED
      BY <1>i, <2>1 DEF Births
  <1>12. Kin'
    <2>1. ASSUME NEW p \in Obj, NEW o \in kids[p]
          PROVE  o < p /\ status'[o] # "unborn"
      BY <1>i, <1>k, <1>4 DEF Kin
    <2>2. ASSUME NEW p \in Obj, p \notin Still, Live(p), ~Fallen[p], NEW o \in kids[p]
          PROVE  Live(o) /\ ~Fallen[o] /\ o \notin Still
      <3>0. o \in Obj /\ p > o
        BY <1>i, <1>k DEF Kin, Obj
      <3>1. p \in Staying(o)
        BY <2>2 DEF Staying
      <3>2. ~Fallen[o]
        BY <1>2, <3>0, <3>1
      <3>3. CASE p \in fresh
        <4>1. Reached[p]
          BY <2>2, <3>3 DEF Still
        <4>2. Live(o)
          BY <1>i, <1>T, <4>1, ReachedAreLive
        <4>3. Reached[o]
          BY <1>i, <3>0, <3>3, <4>1, Reaching
        <4>4. QED
          BY <3>2, <4>2, <4>3 DEF Still
      <3>4. CASE p \notin fresh
        BY <1>i, <2>2, <3>2, <3>4 DEF Kin, Still
      <3>5. QED
        BY <3>3, <3>4
    <2>3. ASSUME NEW p \in Obj \ fresh', Live(p)', NEW o \in kids'[p]
          PROVE  Live(o)' /\ o \notin fresh'
      <3>1. p \notin Still /\ Live(p) /\ ~Fallen[p] /\ o \in kids[p] /\ o \in Obj
        BY <1>5, <1>c, <1>u, <1>k, <2>3
      <3>2. QED
        BY <1>5, <1>c, <2>2, <3>1
    <2>4. QED
      BY <1>u, <2>1, <2>3 DEF Kin
  <1>13. Phase'
    <2>1. \A j \in Job : epoch'[j] = Later
      <3>1. \A j \in Job : j # Gc
        BY DEF Job, Gc
      <3>2. QED
        BY <1>i, <1>c, <1>k, <1>j, <3>1 DEF Phase
    <2>2. \A j \in Job : ~(j < turn')
      BY <1>turn DEF Job
    <2>3. ~(turn' > 0)
      BY <1>turn
    <2>4. QED
      BY <1>n, <2>1, <2>2, <2>3 DEF Phase
  <1>14. Slots'
    BY <1>b, <1>n, <1>z DEF Slots
  <1>sum. \A o \in Obj :
            /\ Sum(inc', Now, o) = 0 /\ Sum(inc', Last, o) = 0
            /\ Sum(inc', Later, o) = Sum(inc, Later, o)
            /\ Sum(dec', Now, o) = Sum(dec, Now, o) /\ Sum(dec', Later, o) = Sum(dec, Later, o)
            /\ Sum(dec', Last, o) = 0 /\ Sum(stk', Now, o) = Sum(stk, Now, o)
    <2> SUFFICES ASSUME NEW o \in Obj
                 PROVE  /\ Sum(inc', Now, o) = 0 /\ Sum(inc', Last, o) = 0
                        /\ Sum(inc', Later, o) = Sum(inc, Later, o)
                        /\ Sum(dec', Now, o) = Sum(dec, Now, o)
                        /\ Sum(dec', Later, o) = Sum(dec, Later, o)
                        /\ Sum(dec', Last, o) = 0 /\ Sum(stk', Now, o) = Sum(stk, Now, o)
      OBVIOUS
    <2>1. Sum(inc', Now, o) = 0 /\ Sum(inc', Last, o) = 0 /\ Sum(dec', Last, o) = 0
      BY <1>b, <1>t, <1>z, SumZero
    <2>2. \A j \in Job : /\ inc'[j][Later][o] = inc[j][Later][o]
                         /\ dec'[j][Now][o] = dec[j][Now][o]
                         /\ dec'[j][Later][o] = dec[j][Later][o]
                         /\ stk'[j][Now][o] = stk[j][Now][o]
      BY <1>b, <1>t
    <2>3. Sum(inc', Later, o) = Sum(inc, Later, o)
      BY <1>b, <1>t, <2>2, SumSame
    <2>4. Sum(dec', Now, o) = Sum(dec, Now, o) /\ Sum(dec', Later, o) = Sum(dec, Later, o)
      BY <1>b, <1>t, <2>2, SumSame
    <2>5. Sum(stk', Now, o) = Sum(stk, Now, o)
      BY <1>b, <1>t, <2>2, SumSame
    <2>6. QED
      BY <2>1, <2>3, <2>4, <2>5
  <1>15. Balance'
    <2> SUFFICES ASSUME NEW o \in Obj
                 PROVE  Sum(inc', Last, o) <= kept'[o] + Sum(dec', Later, o) + Sum(dec', Last, o)
      BY <1>n DEF Balance
    <2>1. Sum(dec, Later, o) \in Nat /\ kept[o] \in Nat
      BY <1>k, <1>t, SumNat
    <2>2. QED
      BY <1>sum, <1>u, <2>1
  <1>16. Counts'
    <2> SUFFICES ASSUME NEW o \in Obj, Live(o)' PROVE Balanced(o)'
      BY DEF Counts
    <2>1. Live(o) /\ ~Fallen[o]
      BY <1>5
    <2>2. Parents(o)' = Staying(o)
      BY <1>5, <1>c, <1>u DEF Parents, Staying
    <2>3. snapshot'[Last'] = messages
      BY <1>c, <1>k, <1>n, <1>t
    <2>4. Pending(inc', o) = Sum(inc, Later, o)
          /\ Pending(dec', o) = Sum(dec, Now, o) + Sum(dec, Later, o)
      <3>1. Later = Next3(Now) /\ Last = Prev3(Now)
        BY DEF Now, Later, Last
      <3>2. /\ Pending(inc', o) = Sum(inc', Now, o) + Sum(inc', Later, o) + Sum(inc', Last, o)
            /\ Pending(dec', o) = Sum(dec', Now, o) + Sum(dec', Later, o) + Sum(dec', Last, o)
        BY <1>b, <1>t, <3>1, PendingParts
      <3>3. Sum(inc, Later, o) \in Nat /\ Sum(dec, Now, o) \in Nat /\ Sum(dec, Later, o) \in Nat
        BY <1>t, SumNat
      <3>4. QED
        BY <1>sum, <3>2, <3>3
    <2>5. Sum(stk', Last', o) = Sum(stk, Now, o)
      BY <1>sum, <1>n
    <2>6. Holders(o)' = Holders(o) /\ kept'[o] = kept[o]
      BY <1>u DEF Holders
    <2>7. refs'[o] = Cardinality(Staying(o)) + Rest(o)
      BY <1>7, <2>1
    <2>8. /\ Sum(inc, Later, o) \in Nat /\ Sum(dec, Now, o) \in Nat /\ Sum(dec, Later, o) \in Nat
          /\ Sum(stk, Now, o) \in Nat /\ Bit(messages = o) \in Nat /\ kept[o] \in Nat
          /\ Cardinality(Holders(o)) \in Nat /\ Cardinality(Staying(o)) \in Nat
      BY <1>i, <1>6, Amounts, FiniteHolders
    <2> DEFINE iL == Sum(inc, Later, o)
               dN == Sum(dec, Now, o)
               dL == Sum(dec, Later, o)
               sN == Sum(stk, Now, o)
               m == Bit(messages = o)
               k == kept[o]
               h == Cardinality(Holders(o))
               s == Cardinality(Staying(o))
    <2>9. Rest(o) = (k + dN + dL - iL) + h + sN + m
      BY DEF Rest
    <2>10. /\ iL \in Nat /\ dN \in Nat /\ dL \in Nat /\ sN \in Nat /\ m \in Nat
           /\ k \in Nat /\ h \in Nat /\ s \in Nat
      BY <2>8
    <2>11. refs'[o] = s + Rest(o)
      BY <2>7
    <2> HIDE DEF iL, dN, dL, sN, m, k, h, s
    <2>12. refs'[o] + iL = s + k + (dN + dL) + sN + m + h
      BY <2>9, <2>10, <2>11
    <2>13. QED
      BY <2>2, <2>3, <2>4, <2>5, <2>6, <2>12 DEF Balanced, iL, dN, dL, sN, m, k, h, s
  (* What falls has no records left: it is not in S, so none waits to be   *)
  (* added, and then none is left to be taken away.                        *)
  <1>17. Gone'
    <2> SUFFICES ASSUME NEW o \in Obj, ~Live(o)'
                 PROVE  /\ refs'[o] = 0
                        /\ \A j \in Job : \A e \in Epoch : dec'[j][e][o] = 0 /\ stk'[j][e][o] = 0
                        /\ snapshot'[Last'] # o
      BY DEF Gone
    <2>0. ~Live(o) \/ Fallen[o]
      BY <1>5
    <2>1. refs'[o] = 0
      BY <1>8, <2>0
    <2>2. snapshot'[Last'] = messages
      BY <1>c, <1>k, <1>n, <1>t
    <2>3. CASE ~Live(o)
      <3>1. \A j \in Job : \A e \in Epoch : dec[j][e][o] = 0 /\ stk[j][e][o] = 0
        BY <1>i, <2>3 DEF Gone
      <3>2. \A j \in Job : \A e \in Epoch : dec'[j][e][o] = 0 /\ stk'[j][e][o] = 0
        BY <1>b, <3>1
      <3>3. messages # o
        BY <1>T, <2>3 DEF Existing, Rooted
      <3>4. QED
        BY <2>1, <2>2, <3>2, <3>3
    <2>4. CASE Fallen[o]
      <3>1. Rest(o) = 0
        BY <1>2, <2>4
      <3>2. ~Marked(o)
        BY <1>1, <1>S, <2>4
      <3>3. \A j \in Job : inc[j][Later][o] = 0
        <4>1. \A j \in Job : ~(inc[j][Later][o] > 0)
          BY <3>2, Zenon DEF Marked
        <4>2. \A j \in Job : inc[j][Later][o] \in Nat
          BY <1>t DEF Buffers
        <4>3. QED
          BY <4>1, <4>2
      <3>4. Sum(inc, Later, o) = 0
        BY <1>t, <3>3, SumZero
      <3>5. /\ Sum(dec, Now, o) \in Nat /\ Sum(dec, Later, o) \in Nat
            /\ Sum(stk, Now, o) \in Nat /\ Bit(messages = o) \in Nat /\ kept[o] \in Nat
            /\ Cardinality(Holders(o)) \in Nat
        BY <1>i, Amounts, FiniteHolders
      <3>6. Sum(dec, Now, o) = 0 /\ Sum(dec, Later, o) = 0 /\ Sum(stk, Now, o) = 0
        <4> DEFINE iL == Sum(inc, Later, o)
                   dN == Sum(dec, Now, o)
                   dL == Sum(dec, Later, o)
                   sN == Sum(stk, Now, o)
                   m == Bit(messages = o)
                   k == kept[o]
                   h == Cardinality(Holders(o))
        <4>1. (k + dN + dL - iL) + h + sN + m = 0 /\ iL = 0
          BY <3>1, <3>4 DEF Rest
        <4>2. dN \in Nat /\ dL \in Nat /\ sN \in Nat /\ m \in Nat /\ k \in Nat /\ h \in Nat
          BY <3>5
        <4> HIDE DEF iL, dN, dL, sN, m, k, h
        <4>3. dN = 0 /\ dL = 0 /\ sN = 0
          BY <4>1, <4>2
        <4>4. QED
          BY <4>3 DEF dN, dL, sN
      <3>7. \A j \in Job : dec[j][Now][o] = 0 /\ dec[j][Later][o] = 0 /\ stk[j][Now][o] = 0
        <4>1. \A j \in Job : /\ ~(dec[j][Now][o] > 0) /\ ~(dec[j][Later][o] > 0)
                             /\ ~(stk[j][Now][o] > 0)
          BY <1>t, <3>6, SumPart
        <4>2. \A j \in Job : dec[j][Now][o] \in Nat /\ dec[j][Later][o] \in Nat
                             /\ stk[j][Now][o] \in Nat
          BY <1>t DEF Buffers
        <4>3. QED
          BY <4>1, <4>2
      <3>8. \A j \in Job : \A e \in Epoch : dec'[j][e][o] = 0 /\ stk'[j][e][o] = 0
        BY <1>b, <1>t, <1>z, <3>7
      <3>9. messages # o
        BY <3>2, Zenon DEF Marked
      <3>10. QED
        BY <2>1, <2>2, <3>8, <3>9
    <2>5. QED
      BY <2>0, <2>3, <2>4
  <1>18. FreshKept'
    <2> SUFFICES ASSUME NEW o \in Still, kept[o] > 0
                 PROVE  \E j \in Job : \E e \in Epoch : inc'[j][e][o] > 0
      BY <1>c, <1>u DEF FreshKept
    <2>1. o \in Obj /\ o \in fresh /\ ~Reached[o]
      BY <1>k DEF Still
    <2>2. PICK j \in Job, e \in Epoch : inc[j][e][o] > 0
      BY <1>i, <2>1 DEF FreshKept
    <2>3. e # Now
      <3>1. SUFFICES ASSUME e = Now PROVE FALSE
        OBVIOUS
      <3>2. Sum(inc, Now, o) > 0
        BY <1>t, <2>1, <2>2, <3>1, SumPart
      <3>3. Gains[o] > 0
        BY <1>i, <2>1, <3>2, Amounts
      <3>4. QED
        BY <1>i, <2>1, <3>3, Reaching
    <2>4. inc'[j][e][o] > 0
      BY <1>b, <2>1, <2>2, <2>3
    <2>5. QED
      BY <2>4
  <1>19. Flags'
    BY <1>i, <1>c, <1>k, <1>3, <1>4, <1>u DEF Flags, Holders
  <1>20. Existing(S)'
    <2>1. \A o \in Obj : Rooted(o)' => o \in S
      <3> SUFFICES ASSUME NEW o \in Obj, Rooted(o)' PROVE Marked(o)
        BY <1>S
      <3>1. \/ \E j \in Job : \/ o \in InHand(j)
                              \/ \E e \in Epoch : inc'[j][e][o] > 0
                              \/ stk'[j][Later][o] > 0
            \/ kept[o] > 0 \/ messages = o
        BY <1>u, <1>n DEF Rooted, InHand
      <3>2. \A j \in Job : ~(stk'[j][Later][o] > 0)
        BY <1>z
      <3>3. \A j \in Job : \A e \in Epoch : inc'[j][e][o] > 0 => inc[j][Later][o] > 0
        BY <1>b, <1>t, <1>z
      <3>4. QED
        BY <1>j, <3>1, <3>2, <3>3, Zenon DEF Marked
    <2>2. Closed(S)' /\ \A o \in S : Live(o)'
      BY <1>1, <1>5, <1>S, <1>u DEF Supports, Closed
    <2>3. QED
      BY <2>1, <2>2 DEF Existing
  <1>21. Holds'
    BY <1>20 DEF Holds
  <1>22. Saved'
    <2>1. Starts'
      BY SavedAtStart, PTL
    <2>2. turn' <= 1
      BY <1>turn
    <2>3. QED
      BY <1>10, <1>14, <1>18, <1>21, <2>1, <2>2 DEF Starts
  <1>23. QED
    BY <1>10, <1>11, <1>12, <1>13, <1>14, <1>15, <1>16, <1>17, <1>18, <1>19, <1>21, <1>22 DEF IInv

-----------------------------------------------------------------------------
(* The theorems.  Late = {} leaves out what the run heap_handoff shows: a  *)
(* value that is handed to a job after the collection has reached it, by a *)
(* job that it has not reached, may be destroyed.                          *)

(* So does whatever a job does.                                            *)
LEMMA MutateStep ==
  ASSUME Late = {}, IInv, TypeOK', NEW j \in Job, Mutate(j)
  PROVE  IInv'
  <1>i. TypeOK /\ Phase
    BY Parts
  <1>1. CASE New(j)
    BY <1>1, NewStep
  <1>2. CASE \/ Push(j) \/ Pop(j) \/ Lock(j) \/ Define(j) \/ ReadLoad(j) \/ ReadUse(j)
             \/ \E i \in Job : Hand(i, j)
    BY <1>2, <1>i, QuietActions, QuietStep
  <1>3. CASE Keep(j) \/ Drop(j) \/ Unlock(j)
    <2>1. PICK di \in [Obj -> Nat], dd \in [Obj -> Nat], dl \in [Obj -> Nat] :
             Moves(j, di, dd, dl)
      BY <1>3, <1>i, MovingActions
    <2>2. QED
      BY <2>1, MovesStep
  <1>4. QED
    BY <1>1, <1>2, <1>3 DEF Mutate

(* And so does every step.                                                 *)
LEMMA StepInv ==
  ASSUME Late = {}, IInv, [Next]_vars
  PROVE  IInv'
  <1>i. TypeOK /\ Births /\ Phase
    BY Parts
  <1>1. CASE UNCHANGED vars
    <2>1. Quiet
      BY <1>1 DEF Quiet, vars, objects, roots, buffers, Rooted, Marked, InHand, Now, Later
    <2>2. TypeOK'
      BY <1>i, <1>1 DEF TypeOK, vars, objects, roots, buffers
    <2>3. QED
      BY <2>1, <2>2, QuietStep
  <1>2. ASSUME NEW j \in Job, Mutate(j)
        PROVE  IInv'
    <2>1. TypeOK'
      BY <1>2, <1>i, TypeStep
    <2>2. QED
      BY <1>2, <2>1, MutateStep
  <1>3. ASSUME NEW j \in Job, Report(j)
        PROVE  IInv'
    <2>1. TypeOK'
      BY <1>3, <1>i, TypeStep
    <2>2. QED
      BY <1>3, <2>1, ReportStep
  <1>4. CASE Start
    <2>1. 1 \in Job
      BY DEF Job
    <2>2. TypeOK'
      BY <1>4, <1>i, <2>1, TypeStep
    <2>3. QED
      BY <1>4, <2>2, StartStep
  <1>5. CASE Collect
    BY <1>5, CollectStep
  <1>6. CASE Destroy
    <2>1. 1 \in Job
      BY DEF Job
    <2>2. TypeOK'
      BY <1>6, <1>i, <2>1, TypeStep
    <2>3. PICK di \in [Obj -> Nat], dd \in [Obj -> Nat], dl \in [Obj -> Nat] :
             Moves(1, di, dd, dl)
      BY <1>6, <1>i, DestroyMoves
    <2>4. QED
      BY <2>1, <2>2, <2>3, MovesStep
  <1>7. QED
    BY <1>1, <1>2, <1>3, <1>4, <1>5, <1>6 DEF Next

(* The inductive invariant holds in every state that can be reached.       *)
THEOREM Inductive ==
  ASSUME Late = {}
  PROVE  Spec => []IInv
  <1>1. IInv /\ [Next]_vars => IInv'
    BY StepInv
  <1>2. QED
    BY <1>1, InitInv, PTL DEF Spec

(* Every variable has its type; above all, no count goes below zero.       *)
THEOREM TypesHold ==
  ASSUME Late = {}
  PROVE  Spec => []TypeOK
  <1>1. IInv => TypeOK
    BY DEF IInv
  <1>2. QED
    BY <1>1, Inductive, PTL

(* Nothing that a program can still get at is destroyed.                   *)
THEOREM NothingLost ==
  ASSUME Late = {}
  PROVE  Spec => []ReachableIsLive
  <1>1. ASSUME IInv
        PROVE  ReachableIsLive
    <2>1. PICK T \in SUBSET Obj : Existing(T)
      BY <1>1 DEF IInv, Holds
    <2>2. \A p \in T : kids[p] \subseteq T
      BY <2>1 DEF Existing, Closed
    <2>3. \A o \in Obj : \/ \E j \in Job : o \in stack[j] \cup lockbuf[j]
                         \/ kept[o] > 0 \/ messages = o
                         => o \in T
      <3>1. \A o \in Obj : \/ \E j \in Job : o \in stack[j] \cup lockbuf[j]
                           \/ kept[o] > 0 \/ messages = o
                           => Rooted(o)
        BY DEF Rooted, InHand
      <3>2. QED
        BY <2>1, <3>1 DEF Existing
    <2>4. Reachable \subseteq T
      BY <2>2, <2>3, ReachableWithin
    <2>5. QED
      BY <2>1, <2>4 DEF Existing, ReachableIsLive
  <1>2. QED
    BY <1>1, Inductive, PTL

(* The record in which a job looks up a message exists while it looks.     *)
THEOREM LookupIsSafe ==
  ASSUME Late = {}
  PROVE  Spec => []ReadIsLive
  <1>1. ASSUME IInv
        PROVE  ReadIsLive
    <2>1. PICK T \in SUBSET Obj : Existing(T)
      BY <1>1 DEF IInv, Holds
    <2>2. ASSUME NEW j \in Job, reading[j] # None
          PROVE  Live(reading[j])
      <3>1. reading[j] \in Obj
        BY <1>1, <2>2, Parts DEF TypeOK
      <3>2. Rooted(reading[j])
        BY DEF Rooted, InHand
      <3>3. QED
        BY <2>1, <3>1, <3>2 DEF Existing
    <2>3. QED
      BY <2>2 DEF ReadIsLive
  <1>2. QED
    BY <1>1, Inductive, PTL

(* No buffer holds a destroyed object: decrements never outnumber the      *)
(* references.                                                             *)
THEOREM NoneInBuffers ==
  ASSUME Late = {}
  PROVE  Spec => []BuffersAreLive
  <1>1. ASSUME IInv
        PROVE  BuffersAreLive
    <2>i. TypeOK /\ Gone /\ Holds
      BY <1>1, Parts
    <2>1. PICK T \in SUBSET Obj : Existing(T)
      BY <2>i DEF Holds
    <2>2. ASSUME NEW o \in Obj, status[o] = "freed", NEW j \in Job, NEW e \in Epoch
          PROVE  inc[j][e][o] = 0 /\ dec[j][e][o] = 0 /\ stk[j][e][o] = 0
      <3>1. ~Live(o)
        BY <2>2 DEF Live
      <3>2. ~Rooted(o)
        BY <2>1, <3>1 DEF Existing
      <3>3. ~(inc[j][e][o] > 0)
        BY <3>2, Zenon DEF Rooted
      <3>4. inc[j][e][o] \in Nat
        BY <2>i, Types DEF Buffers
      <3>5. dec[j][e][o] = 0 /\ stk[j][e][o] = 0
        BY <2>i, <3>1 DEF Gone
      <3>6. QED
        BY <3>3, <3>4, <3>5
    <2>3. QED
      BY <2>2 DEF BuffersAreLive
  <1>2. QED
    BY <1>1, Inductive, PTL

(* Every count is accounted for: by counted parents, kept references,      *)
(* birth references, and records that wait.                                *)
THEOREM CountsAreTrue ==
  ASSUME Late = {}
  PROVE  Spec => []Accounting
  <1>1. IInv => Accounting
    BY CountsAccount DEF IInv
  <1>2. QED
    BY <1>1, Inductive, PTL

-----------------------------------------------------------------------------
(* Nothing is left.                                                        *)

(* What exists is counted, so that an object whose count comes to zero has *)
(* been taken away by that very collection.                                *)
Counting == \A o \in Obj : Live(o) => refs[o] >= 1

(* A lock buffer is flushed by the outermost unlock.                       *)
Unlocked == \A j \in Job : locked[j] = 0 => lockbuf[j] = {}

(* A job does not write to an epoch that it has not entered.               *)
Ahead == \A j \in Job : \A o \in Obj : ~(j < turn) => dec[j][Later][o] = 0

(* gab_destroy has dropped everything.                                     *)
Dropped ==
  down >= 0 =>
    /\ \A j \in Job : stack[j] = {} /\ locked[j] = 0 /\ lockbuf[j] = {} /\ reading[j] = None
    /\ \A o \in Obj : kept[o] = 0
    /\ messages = None

(* The buffers run dry: at once those that only a job can fill, with the   *)
(* next collection what stacks and messages left, with the second the      *)
(* decrements that gab_destroy itself made.                                *)
DryAt(j, o) ==
  /\ down >= 0 => inc[j][Later][o] = 0 /\ dec[j][Later][o] = 0 /\ stk[j][Now][o] = 0
  /\ down >= 1 => inc[j][Now][o] = 0 /\ dec[j][Now][o] = 0 /\ stk[j][Last][o] = 0
  /\ down >= 2 => dec[j][Last][o] = 0

Dry ==
  /\ \A j \in Job : \A o \in Obj : DryAt(j, o)
  /\ down >= 1 => snapshot[Last] = None

DInv == IInv /\ Counting /\ Unlocked /\ Ahead /\ Dropped /\ Dry

(* Only objects that a collection takes away come to a count of zero.      *)
LEMMA CountingStep ==
  ASSUME IInv, IInv', Counting, [Next]_vars
  PROVE  Counting'
  <1>i. TypeOK /\ TypeOK' /\ Flags
    BY Parts DEF IInv
  <1>1. CASE Collect
    <2> SUFFICES ASSUME NEW o \in Obj, Live(o)' PROVE refs'[o] >= 1
      BY DEF Counting
    <2>1. /\ status' = [x \in Obj |-> IF Fallen[x] /\ x \notin buffered THEN "freed" ELSE status[x]]
          /\ refs' = [x \in Obj |-> Total[x] - Losses[x] - Cardinality(Falling(x))]
          /\ turn = Jobs + 1
      BY <1>1, CollectDoes
    <2>2. Live(o) /\ (Fallen[o] => o \in buffered)
      BY <2>1 DEF Live
    <2>3. ~Fallen[o]
      <3> SUFFICES ASSUME Fallen[o] PROVE FALSE
        OBVIOUS
      <3>1. Holders(o) # {}
        BY <1>i, <2>2 DEF Flags, Live
      <3>2. Grounded(o)
        BY <3>1 DEF Grounded
      <3>3. Rest(o) = 0
        BY <2>1, NothingLeft
      <3>4. QED
        BY <2>1, <2>2, <3>2, <3>3, TotalParts
    <2> DEFINE c == Cardinality(Falling(o))
               l == Losses[o]
               t == Total[o]
               a == Cardinality(Arriving(o))
    <2>4. c \in Nat /\ a \in Nat
      BY FiniteObjects DEF Falling, Arriving
    <2>5. l \in Nat /\ Gains[o] \in Nat /\ refs[o] \in Nat /\ refs[o] >= 1
      BY <1>i, <2>2, Amounts DEF Counting
    <2>6. t = refs[o] + Gains[o] + a
      BY DEF Total
    <2>7. ~(l + c > 0 /\ t = l + c)
      BY <1>i, <2>3, Parts, FallsWhen
    <2>8. refs'[o] = t - l - c /\ refs'[o] \in Nat
      BY <1>i, <2>1 DEF TypeOK
    <2> HIDE DEF c, l, t, a
    <2>9. QED
      BY <2>4, <2>5, <2>6, <2>7, <2>8
  <1>2. ASSUME NEW j \in Job, New(j)
        PROVE  Counting'
    <2>1. PICK o : /\ status' = [status EXCEPT ![o] = "live"]
                   /\ refs' = [refs EXCEPT ![o] = 1]
      BY <1>2, Zenon DEF New
    <2>2. \A x \in Obj : Live(x)' => refs'[x] >= 1
      BY <1>i, <2>1 DEF Counting, Live, TypeOK
    <2>3. QED
      BY <2>2 DEF Counting
  <1>3. CASE status' = status /\ refs' = refs
    BY <1>3 DEF Counting, Live
  <1>4. ASSUME NEW j \in Job, Mutate(j), ~New(j)
        PROVE  status' = status /\ refs' = refs
    BY <1>4 DEF Mutate, Push, Pop, Keep, Drop, Lock, Unlock, Define, ReadLoad, ReadUse, Hand, objects
  <1>5. ASSUME Start \/ Destroy \/ (\E j \in Job : Report(j)) \/ UNCHANGED vars
        PROVE  status' = status /\ refs' = refs
    BY <1>5 DEF Start, Destroy, Report, vars, objects
  <1>6. QED
    BY <1>1, <1>2, <1>3, <1>4, <1>5 DEF Next

(* An object enters a lock buffer under the lock only.                     *)
LEMMA UnlockedStep ==
  ASSUME TypeOK, Unlocked, [Next]_vars
  PROVE  Unlocked'
  <1>t. locked \in [Job -> Nat] /\ lockbuf \in [Job -> SUBSET Obj]
    BY DEF TypeOK
  <1>1. CASE locked' = locked /\ lockbuf' = lockbuf
    BY <1>1 DEF Unlocked
  <1>2. ASSUME NEW j \in Job, New(j)
        PROVE  Unlocked'
    <2>1. /\ locked' = locked
          /\ lockbuf' = lockbuf \/ (locked[j] > 0 /\ \E S : lockbuf' = [lockbuf EXCEPT ![j] = S])
      BY <1>2, Zenon DEF New
    <2>2. QED
      BY <1>t, <2>1 DEF Unlocked
  <1>3. ASSUME NEW j \in Job, Lock(j)
        PROVE  Unlocked'
    <2>1. locked' = [locked EXCEPT ![j] = locked[j] + 1] /\ lockbuf' = lockbuf
      BY <1>3 DEF Lock
    <2>2. QED
      BY <1>t, <2>1 DEF Unlocked
  <1>4. ASSUME NEW j \in Job, Unlock(j)
        PROVE  Unlocked'
    <2>1. /\ locked' = [locked EXCEPT ![j] = locked[j] - 1]
          /\ \/ locked[j] > 1 /\ lockbuf' = lockbuf
             \/ locked[j] = 1 /\ lockbuf' = [lockbuf EXCEPT ![j] = {}]
      BY <1>4 DEF Unlock
    <2>2. QED
      BY <1>t, <2>1 DEF Unlocked
  <1>5. ASSUME NEW j \in Job, Mutate(j), ~New(j), ~Lock(j), ~Unlock(j)
        PROVE  locked' = locked /\ lockbuf' = lockbuf
    BY <1>5 DEF Mutate, Push, Pop, Keep, Drop, Define, ReadLoad, ReadUse, Hand
  <1>6. ASSUME Start \/ Collect \/ Destroy \/ (\E j \in Job : Report(j)) \/ UNCHANGED vars
        PROVE  locked' = locked /\ lockbuf' = lockbuf
    BY <1>6 DEF Start, Collect, Destroy, Report, vars, roots
  <1>7. QED
    BY <1>1, <1>2, <1>3, <1>4, <1>5, <1>6 DEF Next

(* A job writes to the epoch that it is in.                                *)
LEMMA AheadStep ==
  ASSUME IInv, Ahead, [Next]_vars
  PROVE  Ahead'
  <1>i. TypeOK /\ Phase
    BY Parts
  <1>t. /\ dec \in Buffers /\ Now \in Epoch /\ Later \in Epoch /\ Last \in Epoch
        /\ Now # Later /\ Now # Last /\ Later # Last
    BY <1>i, Types
  <1>p. \A j \in Job : epoch[j] = IF j < turn THEN Later ELSE Now
    BY <1>i DEF Phase
  <1>1. ASSUME NEW j \in Job, NEW f, dec' = [dec EXCEPT ![j][epoch[j]] = f],
               turn' = turn, epoch' = epoch
        PROVE  Ahead'
    <2>1. Later' = Later
      BY <1>1 DEF Later
    <2> SUFFICES ASSUME NEW i \in Job, NEW o \in Obj, ~(i < turn) PROVE dec'[i][Later][o] = 0
      BY <1>1, <2>1 DEF Ahead
    <2>2. epoch[i] = Now /\ dec[i][Later][o] = 0
      BY <1>p DEF Ahead
    <2>3. dec'[i][Later] = dec[i][Later]
      BY <1>1, <1>t, <2>2 DEF Buffers
    <2>4. QED
      BY <2>2, <2>3
  <1>2. CASE dec' = dec /\ epoch' = epoch /\ turn' \in {turn, turn + 1}
    <2>1. Later' = Later /\ \A j \in Job : ~(j < turn') => ~(j < turn)
      <3>1. turn \in Nat /\ \A j \in Job : j \in Nat
        BY <1>i DEF TypeOK, Job
      <3>2. QED
        BY <1>2, <3>1 DEF Later
    <2>2. QED
      BY <1>2, <2>1 DEF Ahead
  <1>3. ASSUME NEW j \in Job, Report(j)
        PROVE  Ahead'
    <2>1. dec' = dec /\ epoch'[Gc] = epoch[Gc] /\ turn' = turn + 1
      BY <1>3, <1>i DEF Report, TypeOK, Job, Gc
    <2>2. Later' = Later /\ \A i \in Job : ~(i < turn') => ~(i < turn)
      <3>1. turn \in Nat /\ \A i \in Job : i \in Nat
        BY <1>i DEF TypeOK, Job
      <3>2. QED
        BY <2>1, <3>1 DEF Later
    <2>3. QED
      BY <2>1, <2>2 DEF Ahead
  <1>4. CASE Collect
    <2>1. dec' = Cleared(dec, Last) /\ epoch' = [epoch EXCEPT ![Gc] = Later]
      BY <1>4, CollectDoes
    <2>2. Later' = Last
      <3>1. epoch'[Gc] = Later
        BY <1>i, <2>1 DEF TypeOK
      <3>2. Next3(Later) = Last
        BY <1>i, EpochFacts DEF Later, Last, TypeOK
      <3>3. QED
        BY <3>1, <3>2 DEF Later
    <2>3. \A j \in Job : \A o \in Obj : Cleared(dec, Last)[j][Last][o] = 0
      BY <1>t, ClearedFacts
    <2>4. QED
      BY <2>1, <2>2, <2>3 DEF Ahead
  <1>5. ASSUME NEW j \in Job, New(j) \/ Drop(j) \/ Unlock(j)
        PROVE  Ahead'
    <2>1. turn' = turn /\ epoch' = epoch
      BY <1>5 DEF New, Drop, Unlock
    <2>2. dec' = dec \/ \E f : dec' = [dec EXCEPT ![j][epoch[j]] = f]
      <3>1. CASE New(j)
        <4>1. dec' = dec \/ \E o : dec' = Queue(dec, j, o)
          BY <3>1, Zenon DEF New
        <4>2. \A o : Queue(dec, j, o) = [dec EXCEPT ![j][epoch[j]] = [dec[j][epoch[j]] EXCEPT ![o] = @ + 1]]
          BY DEF Queue
        <4>3. QED
          BY <4>1, <4>2
      <3>2. CASE Drop(j)
        <4>1. \E o : dec' = Queue(dec, j, o)
          BY <3>2, Zenon DEF Drop
        <4>2. \A o : Queue(dec, j, o) = [dec EXCEPT ![j][epoch[j]] = [dec[j][epoch[j]] EXCEPT ![o] = @ + 1]]
          BY DEF Queue
        <4>3. QED
          BY <4>1, <4>2
      <3>3. CASE Unlock(j)
        <4>1. dec' = dec \/ dec' = [dec EXCEPT ![j][epoch[j]] =
                 [o \in Obj |-> @[o] + IF o \in lockbuf[j] THEN 1 ELSE 0]]
          BY <3>3, Zenon DEF Unlock
        <4>2. QED
          BY <4>1
      <3>4. QED
        BY <1>5, <3>1, <3>2, <3>3
    <2>3. QED
      BY <1>1, <1>2, <2>1, <2>2
  <1>6. CASE Destroy
    <2>1. /\ turn' = turn /\ epoch' = epoch /\ 1 \in Job
          /\ dec' = [dec EXCEPT ![1][epoch[1]] = [o \in Obj |-> @[o] + kept[o]]]
      BY <1>6 DEF Destroy, Job
    <2>2. QED
      BY <1>1, <2>1
  <1>7. ASSUME NEW j \in Job, Mutate(j), ~New(j), ~Drop(j), ~Unlock(j)
        PROVE  dec' = dec /\ epoch' = epoch /\ turn' = turn
    BY <1>7 DEF Mutate, Push, Pop, Keep, Lock, Define, ReadLoad, ReadUse, Hand, buffers
  <1>8. ASSUME Start \/ UNCHANGED vars
        PROVE  dec' = dec /\ epoch' = epoch /\ turn' \in {turn, turn + 1}
    BY <1>8 DEF Start, vars, buffers
  <1>9. QED
    BY <1>2, <1>3, <1>4, <1>5, <1>6, <1>7, <1>8 DEF Next

(* Once gab_destroy has dropped everything only collections are left.      *)
LEMMA OnlyCollections ==
  ASSUME TypeOK, Dropped, ~Up, Next
  PROVE  (\E j \in Job : Report(j)) \/ Start \/ Collect
  <1>1. /\ \A j \in Job : stack[j] = {} /\ locked[j] = 0 /\ reading[j] = None
        /\ \A o \in Obj : kept[o] = 0
    BY DEF Dropped, Up, TypeOK
  <1>2. \A j \in Job : ~Mutate(j)
    BY <1>1 DEF Mutate, New, Push, Pop, Keep, Drop, Lock, Unlock, Define, ReadLoad, ReadUse, Hand
  <1>3. ~Destroy
    BY DEF Destroy
  <1>4. QED
    BY <1>2, <1>3 DEF Next

(* And before that, nothing but gab_destroy itself begins it.              *)
LEMMA StillUp ==
  ASSUME Up, Next, ~Destroy
  PROVE  down' = -1
  <1>1. ASSUME NEW j \in Job, Mutate(j) \/ Report(j)
        PROVE  down' = down
    BY <1>1 DEF Mutate, New, Push, Pop, Keep, Drop, Lock, Unlock, Define, ReadLoad, ReadUse,
                Hand, Report
  <1>2. CASE Start \/ Collect
    BY <1>2 DEF Start, Collect, Up
  <1>3. QED
    BY <1>1, <1>2 DEF Next, Up

(* What was dropped stays dropped.                                         *)
LEMMA DroppedStep ==
  ASSUME TypeOK, Unlocked, Dropped, [Next]_vars
  PROVE  Dropped'
  <1>1. CASE UNCHANGED vars
    BY <1>1 DEF Dropped, vars, roots
  <1>2. CASE Up /\ Next /\ ~Destroy
    BY <1>2, StillUp DEF Dropped
  <1>3. CASE Destroy
    <2>1. /\ \A j \in Job : stack[j] = {} /\ locked[j] = 0 /\ reading[j] = None
          /\ UNCHANGED <<stack, locked, lockbuf, reading>>
          /\ kept' = [o \in Obj |-> 0] /\ messages' = None
      BY <1>3 DEF Destroy
    <2>2. QED
      BY <2>1 DEF Dropped, Unlocked
  <1>4. CASE ~Up /\ Next
    <2>1. UNCHANGED <<stack, locked, lockbuf, reading, kept, messages>>
      BY <1>4, OnlyCollections DEF Report, Start, Collect, roots
    <2>2. down >= 0
      BY <1>4 DEF Up, TypeOK
    <2>3. QED
      BY <2>1, <2>2 DEF Dropped
  <1>5. QED
    BY <1>1, <1>2, <1>3, <1>4

(* Buffers that have run dry stay so, and each collection leaves more dry. *)
LEMMA DryStep ==
  ASSUME IInv, Ahead, Dropped, Dry, [Next]_vars
  PROVE  Dry'
  <1>i. TypeOK /\ Phase /\ Slots
    BY Parts
  <1>t. /\ inc \in Buffers /\ dec \in Buffers /\ stk \in Buffers
        /\ Now \in Epoch /\ Later \in Epoch /\ Last \in Epoch
        /\ Now # Later /\ Now # Last /\ Later # Last
    BY <1>i, Types
  <1>d. down \in -1..4
    BY <1>i DEF TypeOK
  <1>1. CASE UNCHANGED <<inc, dec, stk, snapshot, down>> /\ epoch'[Gc] = epoch[Gc]
    <2>1. Now' = Now /\ Later' = Later /\ Last' = Last
      BY <1>1 DEF Now, Later, Last
    <2>2. QED
      BY <1>1, <2>1 DEF Dry, DryAt
  <1>2. CASE Up /\ Next /\ ~Destroy
    BY <1>2, StillUp DEF Dry, DryAt
  <1>3. CASE Destroy
    <2>1. /\ down' = 0 /\ turn = 0 /\ UNCHANGED <<inc, stk, epoch>> /\ 1 \in Job
          /\ dec' = [dec EXCEPT ![1][epoch[1]] = [o \in Obj |-> @[o] + kept[o]]]
      BY <1>3 DEF Destroy, Job
    <2>2. Now' = Now /\ Later' = Later
      BY <2>1 DEF Now, Later
    <2>3. epoch[1] = Now /\ \A j \in Job : ~(j < turn)
      BY <1>i, <2>1 DEF Phase, Job
    <2>4. \A j \in Job : \A o \in Obj :
             inc[j][Later][o] = 0 /\ dec[j][Later][o] = 0 /\ stk[j][Now][o] = 0
      BY <1>i, <2>3 DEF Slots, Ahead
    <2>5. \A j \in Job : dec'[j][Later] = dec[j][Later]
      BY <1>t, <2>1, <2>3 DEF Buffers
    <2>6. QED
      BY <2>1, <2>2, <2>4, <2>5 DEF Dry, DryAt
  <1>4. ASSUME ~Up, NEW j \in Job, Report(j)
        PROVE  Dry'
    <2>1. /\ UNCHANGED <<inc, dec, snapshot, down>> /\ turn = j
          /\ stk' = [stk EXCEPT ![j][epoch[j]] =
                        [o \in Obj |-> @[o] + Bit(o \in stack[j]) + Bit(o \in lockbuf[j])]]
          /\ epoch'[Gc] = epoch[Gc]
      BY <1>4, <1>i DEF Report, roots, TypeOK, Job, Gc
    <2>2. stack[j] = {} /\ lockbuf[j] = {} /\ epoch[j] = Now
      <3>1. down >= 0 /\ ~(j < j)
        BY <1>4, <1>d DEF Up, Job
      <3>2. QED
        BY <1>i, <2>1, <3>1 DEF Dropped, Phase
    <2>3. stk[j] \in [Epoch -> [Obj -> Nat]] /\ stk[j][Now] \in [Obj -> Nat]
      BY <1>t DEF Buffers
    <2>4. [o \in Obj |-> stk[j][Now][o] + Bit(o \in stack[j]) + Bit(o \in lockbuf[j])] = stk[j][Now]
      BY <2>2, <2>3 DEF Bit
    <2>5. stk' = stk
      <3>1. stk' = [stk EXCEPT ![j] = [stk[j] EXCEPT ![Now] =
                [o \in Obj |-> stk[j][Now][o] + Bit(o \in stack[j]) + Bit(o \in lockbuf[j])]]]
        BY <1>t, <2>1, <2>2 DEF Buffers
      <3>2. [stk[j] EXCEPT ![Now] = stk[j][Now]] = stk[j]
        BY <2>3
      <3>3. stk \in [Job -> [Epoch -> [Obj -> Nat]]]
        BY <1>t DEF Buffers
      <3>4. QED
        BY <2>4, <3>1, <3>2, <3>3
    <2>6. QED
      BY <1>1, <2>1, <2>5
  <1>5. CASE ~Up /\ Start
    BY <1>1, <1>5 DEF Start, buffers
  <1>6. CASE ~Up /\ Collect
    <2>1. /\ snapshot' = [snapshot EXCEPT ![Now] = messages]
          /\ inc' = Cleared(inc, Now) /\ dec' = Cleared(dec, Last) /\ stk' = Cleared(stk, Last)
          /\ epoch' = [epoch EXCEPT ![Gc] = Later] /\ down' = down + 1
      BY <1>6, CollectDoes
    <2>2. Now' = Later /\ Last' = Now /\ Later' = Last
      <3>1. Now' = Later
        BY <1>i, <2>1 DEF TypeOK, Now
      <3>2. Prev3(Later) = Now /\ Next3(Later) = Last
        BY <1>t, EpochFacts DEF Later, Last, Now
      <3>3. QED
        BY <3>1, <3>2 DEF Now, Later, Last
    <2>3. \A j \in Job : \A o \in Obj :
            /\ inc'[j][Later][o] = inc[j][Later][o] /\ inc'[j][Last][o] = inc[j][Last][o]
            /\ dec'[j][Now][o] = dec[j][Now][o] /\ dec'[j][Later][o] = dec[j][Later][o]
            /\ dec'[j][Last][o] = 0
            /\ stk'[j][Now][o] = stk[j][Now][o] /\ stk'[j][Later][o] = stk[j][Later][o]
      <3>1. \A j \in Job : \A o \in Obj :
            /\ Cleared(inc, Now)[j][Later][o] = inc[j][Later][o]
            /\ Cleared(inc, Now)[j][Last][o] = inc[j][Last][o]
        BY <1>t, ClearedFacts
      <3>2. \A j \in Job : \A o \in Obj :
            /\ Cleared(dec, Last)[j][Now][o] = dec[j][Now][o]
            /\ Cleared(dec, Last)[j][Later][o] = dec[j][Later][o]
            /\ Cleared(dec, Last)[j][Last][o] = 0
        BY <1>t, ClearedFacts
      <3>3. \A j \in Job : \A o \in Obj :
            /\ Cleared(stk, Last)[j][Now][o] = stk[j][Now][o]
            /\ Cleared(stk, Last)[j][Later][o] = stk[j][Later][o]
        BY <1>t, ClearedFacts
      <3>4. QED
        BY <2>1, <3>1, <3>2, <3>3
    <2>4. down >= 0 /\ (down' >= 2 => down >= 1) /\ messages = None
      BY <1>6, <1>d, <2>1 DEF Up, Dropped
    <2>5. \A j \in Job : \A o \in Obj :
            /\ inc[j][Later][o] = 0 /\ dec[j][Later][o] = 0 /\ stk[j][Now][o] = 0
            /\ down >= 1 => dec[j][Now][o] = 0
            /\ inc[j][Last][o] = 0 /\ stk[j][Later][o] = 0
      BY <1>i, <2>4 DEF Dry, DryAt, Slots
    <2>6. \A j \in Job : \A o \in Obj : DryAt(j, o)'
      BY <2>2, <2>3, <2>4, <2>5 DEF DryAt
    <2>7. snapshot'[Now] = None
      BY <1>i, <1>t, <2>1, <2>4 DEF TypeOK
    <2>8. QED
      BY <2>2, <2>6, <2>7 DEF Dry
  <1>7. CASE UNCHANGED vars
    BY <1>1, <1>7 DEF vars, buffers
  <1>8. QED
    BY <1>2, <1>3, <1>4, <1>5, <1>6, <1>7, <1>i, OnlyCollections

(* With this the end of gab_destroy can be told.                           *)
LEMMA Draining ==
  ASSUME Late = {}
  PROVE  Spec => []DInv
  <1>1. Init => DInv
    <2> SUFFICES ASSUME Init PROVE DInv
      OBVIOUS
    <2>1. IInv
      BY InitInv
    <2>2. Counting /\ Unlocked /\ Dropped /\ Dry
      BY DEF Init, Counting, Unlocked, Dropped, Dry, DryAt, Live
    <2>3. Ahead
      <3>1. \A j \in Job : \A e \in Epoch : \A o \in Obj : dec[j][e][o] = 0
        BY DEF Init, Empty
      <3>2. Later \in Epoch
        BY <2>1, Parts, Types
      <3>3. QED
        BY <3>1, <3>2 DEF Ahead
    <2>4. QED
      BY <2>1, <2>2, <2>3 DEF DInv
  <1>2. ASSUME DInv, [Next]_vars
        PROVE  DInv'
    <2>1. IInv /\ Counting /\ Unlocked /\ Ahead /\ Dropped /\ Dry /\ TypeOK
      BY <1>2, Parts DEF DInv
    <2>2. IInv'
      BY <1>2, <2>1, StepInv
    <2>3. Counting' /\ Unlocked' /\ Ahead' /\ Dropped' /\ Dry'
      BY <1>2, <2>1, <2>2, CountingStep, UnlockedStep, AheadStep, DroppedStep, DryStep
    <2>4. QED
      BY <2>2, <2>3 DEF DInv
  <1>3. QED
    BY <1>1, <1>2, PTL DEF Spec

(* The youngest object left would be counted by nobody.                    *)
LEMMA NothingCounts ==
  ASSUME DInv, down >= 2
  PROVE  /\ \A j \in Job : \A e \in Epoch : \A o \in Obj :
              inc[j][e][o] = 0 /\ dec[j][e][o] = 0 /\ stk[j][e][o] = 0
         /\ \A o \in Obj : ~Live(o)
  <1>i. TypeOK /\ Kin /\ Slots /\ Counts /\ Counting /\ Dropped /\ Dry
    BY Parts DEF DInv
  <1>t. /\ inc \in Buffers /\ dec \in Buffers /\ stk \in Buffers
        /\ Now \in Epoch /\ Later \in Epoch /\ Last \in Epoch
        /\ \A x \in Epoch : x = Now \/ x = Later \/ x = Last
    BY <1>i, Types
  <1>d. down \in -1..4 /\ down >= 0 /\ down >= 1
    BY <1>i DEF TypeOK
  <1>1. \A j \in Job : \A o \in Obj :
          /\ inc[j][Now][o] = 0 /\ inc[j][Later][o] = 0 /\ inc[j][Last][o] = 0
          /\ dec[j][Now][o] = 0 /\ dec[j][Later][o] = 0 /\ dec[j][Last][o] = 0
          /\ stk[j][Now][o] = 0 /\ stk[j][Later][o] = 0 /\ stk[j][Last][o] = 0
    BY <1>i, <1>d DEF Dry, DryAt, Slots
  <1>2. \A j \in Job : \A e \in Epoch : \A o \in Obj :
              inc[j][e][o] = 0 /\ dec[j][e][o] = 0 /\ stk[j][e][o] = 0
    BY <1>1, <1>t
  <1> DEFINE Left == {o \in Obj : Live(o)}
  <1>3. Left = {}
    <2> SUFFICES ASSUME Left # {} PROVE FALSE
      OBVIOUS
    <2>1. PICK y \in Left : \A q \in Left : q <= y
      BY HasYoungest
    <2>2. y \in Obj /\ Live(y)
      OBVIOUS
    <2>3. Parents(y) = {}
      <3> SUFFICES ASSUME NEW p \in Parents(y) PROVE FALSE
        OBVIOUS
      <3>1. p \in Obj /\ Live(p) /\ y < p
        BY <1>i DEF Parents, Kin
      <3>2. p <= y
        BY <2>1, <3>1
      <3>3. QED
        BY <2>2, <3>1, <3>2 DEF Obj
    <2>4. Holders(y) = {}
      BY <1>i, <1>d DEF Holders, Dropped
    <2>5. Cardinality(Parents(y)) = 0 /\ Cardinality(Holders(y)) = 0
      BY <2>3, <2>4, FS_EmptySet
    <2>6. \A e \in Epoch : Sum(inc, e, y) = 0 /\ Sum(dec, e, y) = 0 /\ Sum(stk, e, y) = 0
      BY <1>2, <1>t, <2>2, SumZero
    <2>7. Pending(inc, y) = 0 /\ Pending(dec, y) = 0 /\ Sum(stk, Last, y) = 0
      BY <1>t, <2>6 DEF Pending, Epoch
    <2>8. Bit(snapshot[Last] = y) = 0 /\ kept[y] = 0
      BY <1>i, <1>d, <2>2 DEF Bit, Dry, Dropped, Obj
    <2>9. refs[y] + Pending(inc, y) =
             Cardinality(Parents(y)) + kept[y] + Pending(dec, y) + Sum(stk, Last, y)
             + Bit(snapshot[Last] = y) + Cardinality(Holders(y))
      BY <1>i, <2>2 DEF Counts, Balanced
    <2>10. refs[y] \in Nat /\ refs[y] >= 1
      BY <1>i, <2>2 DEF Counting, TypeOK
    <2>11. QED
      BY <2>5, <2>7, <2>8, <2>9, <2>10
  <1>4. QED
    BY <1>2, <1>3

(* When gab_destroy has run its collections the buffers are empty and all  *)
(* objects are destroyed.  Two collections would do.                       *)
THEOREM AllIsReclaimed ==
  ASSUME Late = {}
  PROVE  Spec => []AllReclaimed
  <1>1. ASSUME DInv
        PROVE  AllReclaimed
    <2> SUFFICES ASSUME down = 4 PROVE AllReclaimed
      BY DEF AllReclaimed
    <2>1. /\ \A j \in Job : \A e \in Epoch : \A o \in Obj :
                inc[j][e][o] = 0 /\ dec[j][e][o] = 0 /\ stk[j][e][o] = 0
          /\ \A o \in Obj : ~Live(o)
      BY <1>1, NothingCounts
    <2>2. inc \in Buffers /\ dec \in Buffers /\ stk \in Buffers
      BY <1>1, Parts, Types DEF DInv
    <2>3. ASSUME NEW b \in Buffers, \A j \in Job : \A e \in Epoch : \A o \in Obj : b[j][e][o] = 0
          PROVE  b = [j \in Job |-> Empty]
      <3>1. \A j \in Job : \A e \in Epoch : b[j][e] = [o \in Obj |-> 0]
        BY <2>3 DEF Buffers
      <3>2. \A j \in Job : b[j] = Empty
        BY <3>1 DEF Buffers, Empty
      <3>3. QED
        BY <3>2 DEF Buffers
    <2>4. QED
      BY <2>1, <2>2, <2>3 DEF AllReclaimed
  <1>2. QED
    BY <1>1, Draining, PTL
=============================================================================

-------------------------- MODULE LocalWorkflow_proofs --------------------------
(***************************************************************************)
(* For every workflow whose conditions name its own steps, and however the *)
(* scripts end: the local backend considers a step after everything it     *)
(* depends on, and makes of it what the controller would; without cycles   *)
(* it forgets none.                                                        *)
(***************************************************************************)
EXTENDS LocalWorkflow, SequenceTheorems, FiniteSetTheorems, TLAPS

-----------------------------------------------------------------------------
(* The steps in the order of the file.                                     *)

LEMMA PlaceIs ==
  ASSUME NEW s \in Steps
  PROVE  Place(s) \in 1..NumSteps /\ Dag[Place(s)] = s
BY LocalAssumption DEF LocalAssumption, Place

\* InOrder(S) lists every step of S once: there is such a list, for the number
\* of steps of S up to a given one tells its position.
LEMMA InOrderLists ==
  ASSUME NEW S \in SUBSET Steps
  PROVE  /\ InOrder(S) \in Seq(S) /\ InOrder(S) \in Seq(Steps)
         /\ Range(InOrder(S)) = S /\ IsInjective(InOrder(S))
<1> DEFINE n == Cardinality(S)
           Upto(s) == {t \in S : Place(t) <= Place(s)}
           rank == [s \in S |-> Cardinality(Upto(s))]
           Increasing(q) == \A i, j \in 1..n : i < j => Place(q[i]) < Place(q[j])
<1>1. IsFiniteSet(S) /\ n \in Nat
  BY FS_Subset, FS_CardinalityType, LocalAssumption DEF LocalAssumption
<1>2. \A s \in S : Place(s) \in Nat /\ Dag[Place(s)] = s
  BY PlaceIs, LocalAssumption DEF LocalAssumption
<1>3. ASSUME NEW s \in S
      PROVE  IsFiniteSet(Upto(s)) /\ rank[s] = Cardinality(Upto(s)) /\ rank[s] \in 1..n
  <2>1. Upto(s) \in SUBSET S /\ s \in Upto(s)
    BY <1>2
  <2>2. IsFiniteSet(Upto(s)) /\ Cardinality(Upto(s)) <= n
    BY <1>1, <2>1, FS_Subset
  <2>3. Cardinality(Upto(s)) \in Nat /\ Cardinality(Upto(s)) # 0
    BY <2>1, <2>2, FS_CardinalityType, FS_EmptySet
  <2> QED BY <1>1, <2>2, <2>3
<1>4. ASSUME NEW s \in S, NEW t \in S, Place(s) < Place(t)
      PROVE  rank[s] < rank[t]
  <2>1. Upto(s) \in SUBSET Upto(t) /\ t \in Upto(t) /\ t \notin Upto(s)
    BY <1>2, <1>4
  <2>2. Cardinality(Upto(s)) <= Cardinality(Upto(t)) /\ Cardinality(Upto(s)) # Cardinality(Upto(t))
    BY <1>3, <2>1, FS_Subset
  <2>3. rank[s] \in Nat /\ rank[t] \in Nat
    BY <1>1, <1>3
  <2> QED BY <1>3, <2>2, <2>3
<1>5. \E q \in [1..n -> S] : Increasing(q)
  <2>1. rank \in Injection(S, 1..n)
    <3>1. rank \in [S -> 1..n]
      BY <1>3
    <3>2. ASSUME NEW s \in S, NEW t \in S, rank[s] = rank[t] PROVE s = t
      <4>1. rank[s] \in Nat /\ rank[t] \in Nat
        BY <1>1, <1>3
      <4>2. ~(Place(s) < Place(t)) /\ ~(Place(t) < Place(s))
        BY <1>4, <3>2, <4>1
      <4> QED BY <1>2, <4>2
    <3> QED BY <3>1, <3>2 DEF Injection, IsInjective
  <2>2. Cardinality(1..n) = n /\ IsFiniteSet(1..n)
    BY <1>1, FS_Interval
  <2>3. rank \in Surjection(S, 1..n)
    BY <2>1, <2>2, FS_Injection
  <2>4. \A i \in 1..n : \E s \in S : rank[s] = i
    BY <2>3 DEF Surjection
  <2> HIDE DEF rank
  <2> DEFINE q == [i \in 1..n |-> CHOOSE s \in S : rank[s] = i]
  <2>5. q \in [1..n -> S] /\ \A i \in 1..n : rank[q[i]] = i
    BY <2>4
  <2>6. ASSUME NEW i \in 1..n, NEW j \in 1..n, i < j
        PROVE  Place(q[i]) < Place(q[j])
    <3> HIDE DEF q
    <3>1. q[i] \in S /\ q[j] \in S /\ rank[q[i]] = i /\ rank[q[j]] = j
      BY <2>5
    <3>2. ~(Place(q[j]) < Place(q[i]))
      BY <1>1, <1>4, <2>6, <3>1
    <3>3. Place(q[i]) # Place(q[j])
      BY <1>1, <1>2, <2>6, <3>1
    <3> QED BY <1>2, <3>1, <3>2, <3>3
  <2> HIDE DEF q
  <2> QED BY <2>5, <2>6
<1>6. InOrder(S) = CHOOSE q \in [1..n -> S] : Increasing(q)
  BY DEF InOrder
<1> DEFINE q == InOrder(S)
<1>7. q \in [1..n -> S] /\ Increasing(q)
  <2> HIDE DEF Increasing
  <2> QED BY <1>5, <1>6
<1> HIDE DEF q
<1>8. IsInjective(q)
  <2> SUFFICES ASSUME NEW i \in 1..n, NEW j \in 1..n, q[i] = q[j] PROVE i = j
    BY <1>7 DEF IsInjective
  <2>1. Place(q[i]) \in Nat
    BY <1>2, <1>7
  <2> QED BY <1>1, <1>7, <2>1
<1>9. Range(q) = S
  <2>1. q \in Injection(1..n, S)
    BY <1>7, <1>8 DEF Injection
  <2>2. Cardinality(1..n) = n
    BY <1>1, FS_Interval
  <2>3. q \in Surjection(1..n, S)
    BY <1>1, <2>1, <2>2, FS_Injection
  <2> QED BY <1>7, <2>3 DEF Surjection, Range
<1>10. q \in Seq(S) /\ q \in Seq(Steps)
  BY <1>1, <1>7
<1> QED BY <1>8, <1>9, <1>10 DEF q

LEMMA TakeFirst ==
  ASSUME NEW q \in Seq(Steps), q # <<>>, IsInjective(q),
         NEW r \in Seq(Steps), IsInjective(r), Range(r) \cap Range(q) = {}
  PROVE  /\ Tail(q) \o r \in Seq(Steps) /\ IsInjective(Tail(q) \o r)
         /\ Range(Tail(q) \o r) = (Range(q) \ {Head(q)}) \cup Range(r)
         /\ Head(q) \in Range(q) /\ Head(q) \in Steps
<1> DEFINE t == Tail(q)
           n == t \o r
<1>1. /\ Len(q) \in Nat /\ Len(q) > 0 /\ DOMAIN q = 1..Len(q)
      /\ Head(q) = q[1] /\ q[1] \in Steps
  BY EmptySeq, LenProperties
<1>2. /\ t \in Seq(Steps) /\ Len(t) = Len(q) - 1
      /\ \A i \in 1..(Len(q) - 1) : t[i] = q[i + 1]
  BY HeadTailProperties
<1>3. Len(r) \in Nat /\ DOMAIN r = 1..Len(r)
  BY LenProperties
<1> HIDE DEF t
<1>4. /\ n \in Seq(Steps) /\ DOMAIN n = 1..(Len(t) + Len(r))
      /\ \A i \in DOMAIN n : n[i] = IF i <= Len(t) THEN t[i] ELSE r[i - Len(t)]
  BY <1>2, <1>3, ConcatProperties, LenProperties
<1> HIDE DEF n
<1> DEFINE Left(i) == i + 1 \in DOMAIN q /\ i + 1 # 1 /\ n[i] = q[i + 1]
           Right(i) == i - Len(t) \in DOMAIN r /\ n[i] = r[i - Len(t)]
<1>5. ASSUME NEW i \in DOMAIN n PROVE Left(i) \/ Right(i)
  <2>1. CASE i <= Len(t)
    BY <1>1, <1>2, <1>4, <2>1
  <2>2. CASE ~(i <= Len(t))
    <3>1. n[i] = r[i - Len(t)]
      BY <1>4, <2>2
    <3>2. i - Len(t) \in 1..Len(r)
      BY <1>1, <1>2, <1>3, <1>4, <2>2
    <3> QED BY <1>3, <3>1, <3>2
  <2> QED BY <2>1, <2>2
<1>6. /\ \A j \in DOMAIN q : j # 1 => \E i \in DOMAIN n : n[i] = q[j]
      /\ \A j \in DOMAIN r : \E i \in DOMAIN n : n[i] = r[j]
  <2>1. ASSUME NEW j \in DOMAIN q, j # 1 PROVE \E i \in DOMAIN n : n[i] = q[j]
    <3>1. j - 1 \in DOMAIN n /\ j - 1 \in 1..Len(t) /\ j - 1 <= Len(t) /\ (j - 1) + 1 = j
      BY <1>1, <1>2, <1>3, <1>4, <2>1
    <3>2. t[j - 1] = q[j]
      BY <1>2, <3>1
    <3>3. n[j - 1] = q[j]
      BY <1>4, <3>1, <3>2
    <3> QED BY <3>1, <3>3
  <2>2. ASSUME NEW j \in DOMAIN r PROVE \E i \in DOMAIN n : n[i] = r[j]
    <3> DEFINE i == j + Len(t)
    <3>1. i \in DOMAIN n /\ ~(i <= Len(t)) /\ i - Len(t) = j
      BY <1>1, <1>2, <1>3, <1>4
    <3> HIDE DEF i
    <3>2. n[i] = r[j]
      BY <1>4, <3>1
    <3> QED BY <3>1, <3>2
  <2> QED BY <2>1, <2>2
<1>7. \A i \in DOMAIN q, j \in DOMAIN r : q[i] # r[j]
  BY DEF Range
<1>8. IsInjective(n)
  <2> SUFFICES ASSUME NEW i \in DOMAIN n, NEW j \in DOMAIN n, n[i] = n[j] PROVE i = j
    BY DEF IsInjective
  <2>1. i \in Int /\ j \in Int /\ Len(t) \in Int
    BY <1>1, <1>2, <1>4
  <2>2. CASE Left(i) /\ Left(j)
    <3>1. i + 1 = j + 1
      BY <2>2, Zenon DEF IsInjective
    <3> QED BY <2>1, <3>1
  <2>3. CASE Right(i) /\ Right(j)
    <3>1. i - Len(t) = j - Len(t)
      BY <2>3, Zenon DEF IsInjective
    <3> QED BY <2>1, <3>1
  <2> QED BY <1>5, <1>7, <2>2, <2>3
<1>9. Range(n) = (Range(q) \ {Head(q)}) \cup Range(r)
  <2>1. ASSUME NEW i \in DOMAIN n PROVE n[i] \in (Range(q) \ {Head(q)}) \cup Range(r)
    <3>1. CASE i + 1 \in DOMAIN q /\ i + 1 # 1 /\ n[i] = q[i + 1]
      BY <1>1, <3>1 DEF Range, IsInjective
    <3> QED BY <1>5, <3>1 DEF Range
  <2>2. ASSUME NEW x \in (Range(q) \ {Head(q)}) \cup Range(r) PROVE \E i \in DOMAIN n : n[i] = x
    <3>1. CASE x \in Range(r)
      BY <1>6, <3>1 DEF Range
    <3>2. CASE x \in Range(q) /\ x # Head(q)
      BY <1>1, <1>6, <3>2 DEF Range
    <3> QED BY <3>1, <3>2
  <2> QED BY <2>1, <2>2 DEF Range
<1>10. Head(q) \in Range(q) /\ Head(q) \in Steps
  BY <1>1 DEF Range
<1> QED BY <1>4, <1>8, <1>9, <1>10 DEF n, t

LEMMA AddLast ==
  ASSUME NEW o \in Seq(Steps), IsInjective(o), NEW d \in Steps, d \notin Range(o)
  PROVE  /\ Append(o, d) \in Seq(Steps) /\ IsInjective(Append(o, d))
         /\ Range(Append(o, d)) = Range(o) \cup {d}
         /\ Len(o) \in Nat /\ Len(Append(o, d)) = Len(o) + 1
         /\ DOMAIN o = 1..Len(o) /\ DOMAIN Append(o, d) = 1..(Len(o) + 1)
         /\ \A i \in 1..Len(o) : Append(o, d)[i] = o[i]
         /\ Append(o, d)[Len(o) + 1] = d
<1> DEFINE n == Append(o, d)
<1>1. /\ Len(o) \in Nat /\ DOMAIN o = 1..Len(o) /\ n \in Seq(Steps) /\ Len(n) = Len(o) + 1
      /\ \A i \in 1..Len(o) : n[i] = o[i]
      /\ n[Len(o) + 1] = d
  BY LenProperties, AppendProperties
<1> HIDE DEF n
<1>2. DOMAIN n = 1..(Len(o) + 1)
  BY <1>1, LenProperties
<1>3. \A i \in 1..Len(o) : o[i] # d
  BY <1>1 DEF Range
<1>4. IsInjective(n)
  BY <1>1, <1>2, <1>3 DEF IsInjective
<1>5. Range(n) = Range(o) \cup {d}
  BY <1>1, <1>2 DEF Range
<1> QED BY <1>1, <1>2, <1>4, <1>5 DEF n

-----------------------------------------------------------------------------
(* The sort.                                                               *)

Outcomes == {"SUCCEEDED", "FAILED", "SKIPPED"}

Shape ==
  /\ wf \in Workflows /\ stage \in Stages
  /\ in_degree \in [Steps -> Nat] /\ queue \in Seq(Steps) /\ ordered \in Seq(Steps)
  /\ pos \in Nat /\ step_phase \in [Steps -> Outcomes \union {Undecided}]

\* The conditions of s on steps that are not in the result.
Unsorted(s) == {c \in Deps(s) : c.step \notin Range(ordered)}

\* Each step is once in the queue or in the result as soon as everything it
\* depends on is in the result, and stands behind it there.
SortInv ==
  /\ IsInjective(queue) /\ IsInjective(ordered) /\ Range(queue) \cap Range(ordered) = {}
  /\ \A s \in Steps : in_degree[s] = Cardinality(Unsorted(s))
  /\ \A s \in Steps : in_degree[s] = 0 <=> s \in Range(queue) \cup Range(ordered)
  /\ \A i \in 1..Len(ordered) : \A c \in wf.deps[ordered[i]] : \E j \in 1..(i - 1) : ordered[j] = c.step
  /\ stage # "sort" => queue = <<>>

LEMMA DepsAre ==
  ASSUME wf \in Workflows, NEW s \in Steps
  PROVE  IsFiniteSet(Deps(s)) /\ \A c \in Deps(s) : c.step \in Steps
BY LocalAssumption DEF LocalAssumption, Deps

LEMMA SortInit == Init => Shape /\ SortInv
<1> SUFFICES ASSUME Init PROVE Shape /\ SortInv
  OBVIOUS
<1> DEFINE roots == {s \in Steps : Deps(s) = {}}
<1>1. wf \in Workflows /\ queue = InOrder(roots) /\ ordered = <<>> /\ stage = "sort"
  BY DEF Init
<1>2. queue \in Seq(Steps) /\ IsInjective(queue) /\ Range(queue) = roots
  <2>1. roots \in SUBSET Steps
    OBVIOUS
  <2> HIDE DEF roots
  <2> QED BY <1>1, <2>1, InOrderLists
<1>3. ordered \in Seq(Steps) /\ Len(ordered) = 0 /\ DOMAIN ordered = {}
  BY <1>1, EmptySeq, LenProperties
<1>4. Range(ordered) = {} /\ IsInjective(ordered)
  BY <1>3 DEF Range, IsInjective
<1>5. ASSUME NEW s \in Steps
      PROVE  /\ in_degree[s] \in Nat /\ in_degree[s] = Cardinality(Unsorted(s))
             /\ in_degree[s] = 0 <=> s \in roots
  <2>1. Unsorted(s) = Deps(s)
    BY <1>4 DEF Unsorted
  <2>2. in_degree[s] = Cardinality(Deps(s))
    BY DEF Init
  <2> QED BY <1>1, <2>1, <2>2, DepsAre, FS_CardinalityType, FS_EmptySet
<1>6. Shape
  <2>1. in_degree \in [Steps -> Nat]
    BY <1>5 DEF Init
  <2> HIDE DEF roots
  <2> QED BY <1>1, <1>2, <1>3, <2>1 DEF Init, Shape, Stages
<1>7. \A i \in 1..Len(ordered) : FALSE
  BY <1>3
<1> HIDE DEF roots
<1> QED BY <1>1, <1>2, <1>4, <1>5, <1>6, <1>7 DEF SortInv

\* An entry of the queue sorted: what waited for it alone follows.
LEMMA SortOneKeeps ==
  ASSUME Shape, SortInv, SortOne
  PROVE  Shape' /\ SortInv'
<1> DEFINE d == Head(queue)
           freed == {s \in Steps : Edges(s, d) > 0 /\ in_degree[s] = Edges(s, d)}
           On(s) == {c \in Deps(s) : c.step = d}
<1>1. /\ queue # <<>> /\ queue' = Tail(queue) \o InOrder(freed)
      /\ ordered' = Append(ordered, d)
      /\ in_degree' = [s \in Steps |-> in_degree[s] - Edges(s, d)]
      /\ wf' = wf /\ stage' = stage /\ pos' = pos /\ step_phase' = step_phase
  BY DEF SortOne
<1>2. queue \in Seq(Steps) /\ ordered \in Seq(Steps) /\ wf \in Workflows
  BY DEF Shape
<1>3. d \in Steps /\ d \in Range(queue) /\ d \notin Range(ordered)
  <2>1. d = queue[1] /\ 1 \in DOMAIN queue /\ queue[1] \in Steps
    BY <1>1, <1>2, EmptySeq, LenProperties
  <2> QED BY <2>1 DEF Range, SortInv
<1>4. ASSUME NEW s \in Steps
      PROVE  /\ in_degree[s] \in Nat /\ Edges(s, d) \in Nat
             /\ in_degree[s] - Edges(s, d) \in Nat
             /\ in_degree[s] - Edges(s, d) = Cardinality(Unsorted(s) \ On(s))
  <2>1. IsFiniteSet(Unsorted(s)) /\ IsFiniteSet(On(s)) /\ On(s) \subseteq Unsorted(s)
    <3>1. IsFiniteSet(Deps(s))
      BY <1>2, DepsAre
    <3>2. Unsorted(s) \in SUBSET Deps(s) /\ On(s) \in SUBSET Deps(s)
      BY DEF Unsorted
    <3> QED BY <1>3, <3>1, <3>2, FS_Subset DEF Unsorted
  <2>2. /\ Edges(s, d) = Cardinality(On(s)) /\ in_degree[s] = Cardinality(Unsorted(s))
        /\ in_degree[s] \in Nat
    BY DEF Edges, SortInv, Shape
  <2>3. Cardinality(Unsorted(s) \ On(s)) \in Nat /\ Cardinality(On(s)) \in Nat
    BY <2>1, FS_Subset, FS_CardinalityType
  <2>4. Cardinality(Unsorted(s) \ On(s)) = Cardinality(Unsorted(s)) - Cardinality(On(s))
    <3>1. Unsorted(s) \cap On(s) = On(s)
      BY <2>1
    <3> QED BY <2>1, <3>1, FS_Difference
  <2> QED BY <2>2, <2>3, <2>4
<1>5. \A s \in Steps : s \in Range(queue) \cup Range(ordered) => in_degree[s] = 0
  BY DEF SortInv
<1>6. Range(InOrder(freed)) \cap (Range(queue) \cup Range(ordered)) = {}
  <2>1. freed \in SUBSET Steps /\ \A s \in freed : in_degree[s] # 0
    BY <1>4
  <2> HIDE DEF freed
  <2>2. Range(InOrder(freed)) = freed
    BY <2>1, InOrderLists
  <2> QED BY <1>5, <2>1, <2>2
<1>7. /\ queue' \in Seq(Steps) /\ IsInjective(queue')
      /\ Range(queue') = (Range(queue) \ {d}) \cup freed
  <2>1. freed \in SUBSET Steps
    OBVIOUS
  <2> HIDE DEF freed
  <2> DEFINE r == InOrder(freed)
  <2>2. r \in Seq(Steps) /\ IsInjective(r) /\ Range(r) = freed
    BY <2>1, InOrderLists
  <2>3. queue' = Tail(queue) \o r
    BY <1>1
  <2>4. Range(r) \cap Range(queue) = {}
    BY <1>6
  <2> HIDE DEF r
  <2> QED BY <1>1, <1>2, <2>2, <2>3, <2>4, TakeFirst DEF SortInv
<1>8. /\ ordered' \in Seq(Steps) /\ IsInjective(ordered')
      /\ Range(ordered') = Range(ordered) \cup {d}
      /\ Len(ordered) \in Nat /\ Len(ordered') = Len(ordered) + 1
      /\ DOMAIN ordered = 1..Len(ordered)
      /\ \A i \in 1..Len(ordered) : ordered'[i] = ordered[i]
      /\ ordered'[Len(ordered) + 1] = d
  <2> HIDE DEF d
  <2> QED BY <1>1, <1>2, <1>3, AddLast DEF SortInv
<1>9. \A s \in Steps : in_degree'[s] = in_degree[s] - Edges(s, d)
  BY <1>1
<1>10. in_degree' \in [Steps -> Nat]
  BY <1>1, <1>4
<1>11. \A s : Deps(s)' = Deps(s)
  BY <1>1 DEF Deps
<1>12. ASSUME NEW s \in Steps PROVE (in_degree[s] = Cardinality(Unsorted(s)))'
  <2>1. Unsorted(s)' = Unsorted(s) \ On(s)
    BY <1>8, <1>11 DEF Unsorted
  <2> QED BY <1>4, <1>9, <2>1
<1>13. ASSUME NEW s \in Steps
       PROVE  (in_degree[s] = 0 <=> s \in Range(queue) \cup Range(ordered))'
  <2>1. s \in freed <=> Edges(s, d) > 0 /\ in_degree[s] = Edges(s, d)
    OBVIOUS
  <2>2. in_degree[s] = 0 <=> s \in Range(queue) \cup Range(ordered)
    BY DEF SortInv
  <2>3. in_degree'[s] = 0 <=> in_degree[s] = 0 \/ s \in freed
    <3> DEFINE m == in_degree[s]
               e == Edges(s, d)
    <3>1. m \in Nat /\ e \in Nat /\ m - e \in Nat /\ in_degree'[s] = m - e
      BY <1>4, <1>9
    <3>2. s \in freed <=> e > 0 /\ m = e
      BY <2>1
    <3> HIDE DEF m, e, freed
    <3>3. in_degree'[s] = 0 <=> m = 0 \/ s \in freed
      BY <3>1, <3>2
    <3> QED BY <3>3 DEF m
  <2> HIDE DEF freed, d
  <2> QED BY <1>3, <1>7, <1>8, <2>2, <2>3
<1>14. ASSUME NEW i \in 1..Len(ordered'), NEW c \in wf'.deps[ordered'[i]]
       PROVE  \E j \in 1..(i - 1) : ordered'[j] = c.step
  <2>1. CASE i \in 1..Len(ordered)
    <3>1. PICK j \in 1..(i - 1) : ordered[j] = c.step
      BY <1>1, <1>8, <1>14, <2>1 DEF SortInv
    <3>2. j \in 1..Len(ordered)
      BY <1>8, <2>1
    <3> QED BY <1>8, <3>1, <3>2
  <2>2. CASE i = Len(ordered) + 1
    <3>1. c \in Deps(d)
      BY <1>1, <1>8, <1>14, <2>2 DEF Deps
    <3>2. Unsorted(d) = {}
      <4>1. in_degree[d] = 0 /\ in_degree[d] = Cardinality(Unsorted(d))
        BY <1>3, <1>5 DEF SortInv
      <4>2. Unsorted(d) \in SUBSET Deps(d) /\ IsFiniteSet(Deps(d))
        BY <1>2, <1>3, DepsAre DEF Unsorted
      <4>3. IsFiniteSet(Unsorted(d))
        BY <4>2, FS_Subset
      <4> HIDE DEF d
      <4> QED BY <4>1, <4>3, FS_EmptySet
    <3>3. c.step \in Range(ordered)
      BY <3>1, <3>2 DEF Unsorted
    <3>4. PICK j \in 1..Len(ordered) : ordered[j] = c.step
      BY <1>8, <3>3 DEF Range
    <3> QED BY <1>8, <2>2, <3>4
  <2> QED BY <1>8, <2>1, <2>2
<1>15. Range(queue') \cap Range(ordered') = {}
  <2>1. freed \cap Range(ordered) = {} /\ d \notin freed
    <3>1. freed \in SUBSET Steps
      OBVIOUS
    <3> HIDE DEF freed, d
    <3>2. Range(InOrder(freed)) = freed
      BY <3>1, InOrderLists
    <3> QED BY <1>3, <1>6, <3>2
  <2> HIDE DEF freed, d
  <2> QED BY <1>7, <1>8, <2>1 DEF SortInv
<1>16. stage' = "sort"
  BY <1>1 DEF SortOne
<1> HIDE DEF d, freed, On
<1>17. Shape'
  BY <1>1, <1>7, <1>8, <1>10 DEF Shape
<1> QED BY <1>7, <1>8, <1>12, <1>13, <1>14, <1>15, <1>16, <1>17 DEF SortInv

-----------------------------------------------------------------------------
(* The run.                                                                *)

RequiredFailed == \E s \in Steps \ wf.optional : step_phase[s] = "FAILED"

\* What is decided is what stands before the position in the result; the two
\* flags tell whether a required step has failed.
WalkInv ==
  /\ pos \in 1..(Len(ordered) + 1)
  /\ stage = "sort" => pos = 1
  /\ stage \in {"before", "script", "after"} => pos <= Len(ordered)
  /\ stage = "done" => pos > Len(ordered)
  /\ \A s \in Steps : step_phase[s] # Undecided <=> \E i \in 1..(pos - 1) : ordered[i] = s
  /\ teardown <=> RequiredFailed
  /\ succeeded <=> ~teardown

LocalInv == Shape /\ SortInv /\ WalkInv

\* The step at the position comes from the file, and is not decided yet.
LEMMA CurrentIsOpen ==
  ASSUME LocalInv, pos <= Len(ordered)
  PROVE  Current \in Steps /\ step_phase[Current] = Undecided
<1>1. pos \in 1..Len(ordered) /\ Len(ordered) \in Nat /\ DOMAIN ordered = 1..Len(ordered)
  BY LenProperties DEF LocalInv, Shape, WalkInv
<1>2. Current \in Steps
  BY <1>1 DEF LocalInv, Shape, Current
<1>3. \A i \in 1..(pos - 1) : ordered[i] # Current
  BY <1>1 DEF LocalInv, SortInv, IsInjective, Current
<1> QED BY <1>2, <1>3 DEF LocalInv, WalkInv

\* Current is decided, and the next one comes.
LEMMA DecideKeeps ==
  ASSUME LocalInv, stage # "sort", pos <= Len(ordered),
         NEW v \in Outcomes, step_phase' = [step_phase EXCEPT ![Current] = v],
         pos' = pos + 1, stage' = "step", UNCHANGED <<wf, sortVars>>,
         LET fails == v = "FAILED" /\ Current \notin wf.optional
         IN  (teardown' <=> teardown \/ fails) /\ (succeeded' <=> succeeded /\ ~fails)
  PROVE  LocalInv'
<1> DEFINE cur == Current
<1>1. cur \in Steps /\ step_phase[cur] = Undecided
  BY CurrentIsOpen
<1>2. pos \in 1..Len(ordered) /\ Len(ordered) \in Nat /\ cur = ordered[pos]
  BY LenProperties DEF LocalInv, Shape, WalkInv, Current
<1>3. wf' = wf /\ in_degree' = in_degree /\ queue' = queue /\ ordered' = ordered
  BY DEF sortVars
<1>4. Shape /\ SortInv /\ WalkInv
  BY DEF LocalInv
<1>5. step_phase' \in [Steps -> Outcomes \union {Undecided}]
  BY <1>4 DEF Shape
<1>6. \A s \in Steps : step_phase'[s] = IF s = cur THEN v ELSE step_phase[s]
  BY <1>4 DEF Shape
<1> HIDE DEF cur
<1>7. Shape'
  BY <1>2, <1>3, <1>4, <1>5 DEF Shape, Stages
<1>8. SortInv'
  BY <1>3, <1>4 DEF SortInv, Unsorted, Deps
<1>9. v # Undecided /\ Undecided # "FAILED"
  BY DEF Outcomes, Undecided
<1>10. ASSUME NEW s \in Steps
       PROVE  step_phase'[s] # Undecided <=> \E i \in 1..(pos' - 1) : ordered'[i] = s
  <2>1. step_phase[s] # Undecided <=> \E i \in 1..(pos - 1) : ordered[i] = s
    BY <1>4 DEF WalkInv
  <2>2. (\E i \in 1..(pos' - 1) : ordered'[i] = s) <=> s = cur \/ \E i \in 1..(pos - 1) : ordered[i] = s
    BY <1>2, <1>3
  <2> QED BY <1>6, <1>9, <2>1, <2>2
<1>11. RequiredFailed' <=> RequiredFailed \/ (v = "FAILED" /\ cur \notin wf.optional)
  BY <1>1, <1>3, <1>6, <1>9 DEF RequiredFailed
<1>12. (teardown' <=> RequiredFailed') /\ (succeeded' <=> ~teardown')
  BY <1>4, <1>11, Zenon DEF WalkInv, cur
<1>13. pos' \in 1..(Len(ordered') + 1)
  BY <1>2, <1>3
<1> QED BY <1>7, <1>8, <1>10, <1>12, <1>13 DEF LocalInv, WalkInv

\* A step that only moves on.
LEMMA MoveKeeps ==
  ASSUME LocalInv, stage' \in Stages \ {"sort"}, stage = "sort" => queue = <<>>,
         stage' \in {"before", "script", "after"} => pos <= Len(ordered),
         stage' = "done" => pos > Len(ordered),
         UNCHANGED <<wf, sortVars, pos, step_phase, teardown, succeeded>>
  PROVE  LocalInv'
<1>1. Shape'
  BY DEF LocalInv, Shape, sortVars
<1>2. SortInv'
  <2>1. wf' = wf /\ in_degree' = in_degree /\ queue' = queue /\ ordered' = ordered
    BY DEF sortVars
  <2>2. \A s : Unsorted(s)' = Unsorted(s)
    BY <2>1 DEF Unsorted, Deps
  <2>3. SortInv /\ queue = <<>>
    BY DEF LocalInv, SortInv
  <2> QED BY <2>1, <2>2, <2>3 DEF SortInv
<1>3. RequiredFailed' <=> RequiredFailed
  BY DEF RequiredFailed
<1>4. /\ pos' \in 1..(Len(ordered') + 1)
      /\ \A s \in Steps : step_phase'[s] # Undecided <=> \E i \in 1..(pos' - 1) : ordered'[i] = s
  BY DEF LocalInv, WalkInv, sortVars
<1>5. (teardown' <=> RequiredFailed') /\ (succeeded' <=> ~teardown')
  BY <1>3, Zenon DEF LocalInv, WalkInv
<1>6. pos' = pos /\ ordered' = ordered
  BY DEF sortVars
<1> QED BY <1>1, <1>2, <1>4, <1>5, <1>6 DEF LocalInv, WalkInv

LEMMA LocalInit == Init => LocalInv
<1> SUFFICES ASSUME Init PROVE LocalInv
  OBVIOUS
<1>1. Shape /\ SortInv
  BY SortInit
<1>2. Len(ordered) = 0 /\ pos = 1 /\ stage = "sort"
  BY EmptySeq DEF Init
<1>3. \A s \in Steps : step_phase[s] = Undecided
  BY DEF Init
<1>4. ~RequiredFailed
  BY <1>3, LocalAssumption DEF RequiredFailed, Undecided
<1>5. (teardown <=> RequiredFailed) /\ (succeeded <=> ~teardown)
  BY <1>4, Zenon DEF Init
<1> QED BY <1>1, <1>2, <1>3, <1>5 DEF LocalInv, WalkInv

LEMMA LocalStep == LocalInv /\ [Next]_vars => LocalInv'
<1> SUFFICES ASSUME LocalInv, [Next]_vars PROVE LocalInv'
  OBVIOUS
<1>1. CASE SortOne
  <2>1. Shape' /\ SortInv'
    BY <1>1, SortOneKeeps DEF LocalInv
  <2>2. /\ stage = "sort" /\ stage' = stage /\ pos' = pos /\ step_phase' = step_phase /\ wf' = wf
        /\ UNCHANGED <<teardown, succeeded>>
    BY <1>1 DEF SortOne
  <2>3. pos = 1
    BY <2>2 DEF LocalInv, WalkInv
  <2>4. Len(ordered') \in Nat
    BY <2>1, LenProperties DEF Shape
  <2>5. \A s \in Steps : step_phase'[s] # Undecided <=> \E i \in 1..(pos' - 1) : ordered'[i] = s
    BY <2>2, <2>3 DEF LocalInv, WalkInv
  <2>6. (teardown' <=> RequiredFailed') /\ (succeeded' <=> ~teardown')
    <3>1. RequiredFailed' <=> RequiredFailed
      BY <2>2 DEF RequiredFailed
    <3> QED BY <2>2, <3>1, Zenon DEF LocalInv, WalkInv
  <2> QED BY <2>1, <2>2, <2>3, <2>4, <2>5, <2>6 DEF LocalInv, WalkInv
<1>2. CASE Sorted
  BY <1>2, MoveKeeps DEF Sorted, Stages
<1>3. CASE SkipStep
  <2>1. "SKIPPED" \in Outcomes
    BY DEF Outcomes
  <2> QED BY <1>3, <2>1, DecideKeeps DEF SkipStep, Considering
<1>4. CASE StartStep
  <2>1. stage' \in {"before", "script"}
    BY <1>4 DEF StartStep
  <2> QED BY <1>4, <2>1, MoveKeeps DEF StartStep, Considering, Stages
<1>5. ASSUME NEW x \in Codes, BeforeScript(x) \/ Script(x) PROVE LocalInv'
  <2>1. /\ stage \in {"before", "script"} /\ stage' \in {"script", "after"}
        /\ UNCHANGED <<wf, sortVars, pos, step_phase, teardown, succeeded>>
    BY <1>5 DEF BeforeScript, Script, scriptUnchanged
  <2>2. pos <= Len(ordered)
    BY <2>1 DEF LocalInv, WalkInv
  <2> QED BY <2>1, <2>2, MoveKeeps DEF Stages
<1>6. CASE StepDone
  <2> DEFINE v == IF rc = 0 THEN "SUCCEEDED" ELSE "FAILED"
  <2>1. /\ stage = "after" /\ stage' = "step" /\ pos' = pos + 1
        /\ step_phase' = [step_phase EXCEPT ![Current] = v]
        /\ UNCHANGED <<wf, sortVars>>
    BY <1>6 DEF StepDone
  <2>2. v \in Outcomes /\ (v = "FAILED" <=> rc # 0)
    BY DEF Outcomes
  <2>3. LET fails == v = "FAILED" /\ Current \notin wf.optional
        IN  (teardown' <=> teardown \/ fails) /\ (succeeded' <=> succeeded /\ ~fails)
    BY <1>6, <2>2, Zenon DEF StepDone
  <2>4. pos <= Len(ordered)
    BY <2>1 DEF LocalInv, WalkInv
  <2> HIDE DEF v
  <2> QED BY <2>1, <2>2, <2>3, <2>4, DecideKeeps
<1>7. CASE Raises
  <2>1. pos <= Len(ordered)
    BY <1>7 DEF Raises, LocalInv, WalkInv
  <2> QED BY <1>7, <2>1, MoveKeeps DEF Raises, Stages
<1>8. CASE Return
  BY <1>8, MoveKeeps DEF Return, Stages
<1>9. CASE UNCHANGED vars
  BY <1>9 DEF vars, sortVars, LocalInv, Shape, SortInv, Unsorted, Deps, WalkInv, RequiredFailed
<1> QED BY <1>1, <1>2, <1>3, <1>4, <1>5, <1>6, <1>7, <1>8, <1>9 DEF Next

LEMMA LocalInvariance == Spec => []LocalInv
BY LocalInit, LocalStep, PTL DEF Spec

\* What TypeOK says and LocalInv leaves open.
ExitsTyped ==
  /\ exit_codes \in [Steps -> {{}} \union {{x} : x \in Codes \union {1}}]
  /\ rc \in Codes \union {1}
FlagsTyped == teardown \in BOOLEAN /\ succeeded \in BOOLEAN

LEMMA RestInit == Init => ExitsTyped /\ FlagsTyped
BY DEF Init, ExitsTyped, FlagsTyped, Codes

\* A script that the before_script keeps from running leaves the code 1, even if
\* no script ends with it.
LEMMA ExitsStep == ExitsTyped /\ [Next]_vars => ExitsTyped'
<1> SUFFICES ASSUME ExitsTyped, [Next]_vars PROVE ExitsTyped'
  OBVIOUS
<1>1. CASE StepDone
  <2>1. exit_codes' = [exit_codes EXCEPT ![Current] = {rc}] /\ rc' = rc
    BY <1>1 DEF StepDone
  <2> QED BY <2>1 DEF ExitsTyped
<1>2. ASSUME NEW x \in Codes, BeforeScript(x) \/ Script(x) PROVE ExitsTyped'
  BY <1>2 DEF BeforeScript, Script, scriptUnchanged, ExitsTyped
<1>3. CASE UNCHANGED <<exit_codes, rc>>
  BY <1>3 DEF ExitsTyped
<1> QED BY <1>1, <1>2, <1>3
        DEF Next, SortOne, Sorted, SkipStep, StartStep, Raises, Return, vars

LEMMA FlagsStep == FlagsTyped /\ [Next]_vars => FlagsTyped'
BY Zenon DEF FlagsTyped, Next, SortOne, Sorted, SkipStep, StartStep, BeforeScript, Script,
   scriptUnchanged, StepDone, Raises, Return, vars

(* The types hold in every reachable state, for any steps and exit codes.  *)
THEOREM LocalTypes == Spec => []TypeOK
<1>1. LocalInv /\ ExitsTyped /\ FlagsTyped => TypeOK
  <2> SUFFICES ASSUME LocalInv, ExitsTyped, FlagsTyped PROVE TypeOK
    OBVIOUS
  <2>1. DOMAIN wf.deps = Steps /\ wf.optional \subseteq Steps
    BY LocalAssumption DEF LocalAssumption, LocalInv, Shape
  <2>2. {teardown, succeeded} \subseteq BOOLEAN
    BY Zenon DEF FlagsTyped
  <2>3. step_phase \in [Steps -> {Undecided, "SUCCEEDED", "FAILED", "SKIPPED"}]
    BY DEF LocalInv, Shape, Outcomes
  <2>4. stage \in Stages /\ in_degree \in [Steps -> Nat] /\ queue \in Seq(Steps)
        /\ ordered \in Seq(Steps) /\ pos \in 1..(Len(ordered) + 1)
    BY DEF LocalInv, Shape, WalkInv
  <2> QED BY <2>1, <2>2, <2>3, <2>4 DEF TypeOK, ExitsTyped
<1> QED BY <1>1, LocalInvariance, RestInit, ExitsStep, FlagsStep, PTL DEF Spec

-----------------------------------------------------------------------------
(* What is made of a step.                                                 *)

LEMMA DependenciesFirst == LocalInv => DependenciesDecided
<1> SUFFICES ASSUME LocalInv, Considering, NEW c \in Deps(Current)
             PROVE  step_phase[c.step] # Undecided
  BY DEF DependenciesDecided
<1>1. pos \in 1..Len(ordered) /\ Len(ordered) \in Nat
  BY LenProperties DEF LocalInv, Shape, WalkInv, Considering
<1>2. PICK j \in 1..(pos - 1) : ordered[j] = c.step
  BY <1>1 DEF LocalInv, SortInv, Current, Deps
<1>3. Current \in Steps
  BY CurrentIsOpen DEF Considering
<1>4. c.step \in Steps
  BY <1>3, DepsAre DEF LocalInv, Shape
<1> QED BY <1>2, <1>4 DEF LocalInv, WalkInv

\* On what has been decided, the two backends read a condition alike.
LEMMA ConditionsAgree ==
  ASSUME NEW c, NEW ph, ph[c.step] = step_phase[c.step], step_phase[c.step] \in Outcomes
  PROVE  dep_satisfied(c) <=> Rules!dep_satisfied(ph, c, exit_codes)
<1>1. (\E x \in exit_codes[c.step] : x \in c.codes) <=> exit_codes[c.step] \intersect c.codes # {}
  OBVIOUS
<1>2. /\ step_phase[c.step] \in {"FAILED", "SKIPPED"} <=> ph[c.step] \in Rules!NOT_SUCCEEDED_PHASES
      /\ ph[c.step] \in Rules!TERMINAL_PHASES
  BY DEF Outcomes, Rules!NOT_SUCCEEDED_PHASES, Rules!TERMINAL_PHASES
<1> QED BY <1>1, <1>2 DEF dep_satisfied, Rules!dep_satisfied

\* A pending step with a condition that is decided against it is a dead end,
\* whatever else is skipped.
LEMMA DecidedAgainst ==
  ASSUME LocalInv, NEW s \in Steps, step_phase[s] = Undecided,
         \A c \in Deps(s) : step_phase[c.step] \in Outcomes,
         NEW c \in Deps(s), ~dep_satisfied(c)
  PROVE  s \in Rules!DeadEnds(step_phase, exit_codes)
<1> DEFINE pending == Rules!Pending(step_phase)
<1>1. pending = {t \in Steps : step_phase[t] = Undecided}
  BY DEF Rules!Pending, Undecided
<1>2. ASSUME NEW D \in SUBSET pending, s \notin D
      PROVE  ~Rules!DeadEndClosed(D, step_phase, exit_codes)
  <2> DEFINE ph == Rules!MarkSkipped(step_phase, D)
  <2>1. \A e \in Deps(s) : ph[e.step] = step_phase[e.step] /\ step_phase[e.step] \in Outcomes
    <3>1. \A e \in Deps(s) : e.step \in Steps /\ e.step \notin D
      BY <1>1, DepsAre DEF LocalInv, Shape, Outcomes, Undecided
    <3> QED BY <3>1 DEF Rules!MarkSkipped
  <2> HIDE DEF ph
  <2>2. ~Rules!dep_satisfied(ph, c, exit_codes)
    BY <2>1, ConditionsAgree
  <2>3. \A e \in Deps(s) : ph[e.step] \in Rules!TERMINAL_PHASES
    BY <2>1 DEF Outcomes, Rules!TERMINAL_PHASES
  <2>4. Rules!DeadEnd(s, ph, exit_codes)
    BY <2>2, <2>3 DEF Rules!DeadEnd, Deps
  <2>5. s \in pending \ D
    BY <1>1, <1>2
  <2> QED BY <2>4, <2>5 DEF Rules!DeadEndClosed, ph
<1>3. s \in pending
  BY <1>1
<1> QED BY <1>2, <1>3 DEF Rules!DeadEnds

LEMMA SkippedByBoth ==
  ASSUME LocalInv, Considering, ~Runs(Current)
  PROVE  Rules!Settle(step_phase, exit_codes)[Current] = "SKIPPED"
<1> DEFINE s == Current
           ex == exit_codes
           q == Rules!skip_dead_ends(step_phase, ex)
<1>1. s \in Steps /\ step_phase[s] = "PENDING"
  BY CurrentIsOpen DEF Considering, Undecided
<1>2. \A c \in Deps(s) : step_phase[c.step] \in Outcomes /\ c.step \in Steps
  BY <1>1, DependenciesFirst, DepsAre DEF DependenciesDecided, LocalInv, Shape
<1>3. \A t \in Steps : /\ t \in Rules!DeadEnds(step_phase, ex) => q[t] = "SKIPPED"
                       /\ t \notin Rules!DeadEnds(step_phase, ex) => q[t] = step_phase[t]
  BY DEF Rules!skip_dead_ends, Rules!MarkSkipped
<1>4. \A t \in Steps : step_phase[t] \in Outcomes => q[t] = step_phase[t]
  BY <1>3 DEF Rules!DeadEnds, Rules!Pending, Outcomes
<1> DEFINE kept == Rules!Pending(q) \ Rules!reactive_preserve_set(q, ex)
<1>5. Rules!Settle(step_phase, ex) =
        IF Rules!WorkflowFailed(q) THEN Rules!MarkSkipped(q, kept) ELSE q
  BY DEF Rules!Settle, Rules!apply_failure_teardown
<1>6. CASE s \in Rules!DeadEnds(step_phase, ex)
  <2>1. q[s] = "SKIPPED"
    BY <1>1, <1>3, <1>6
  <2> HIDE DEF q, s
  <2>2. Rules!MarkSkipped(q, kept)[s] = "SKIPPED"
    BY <1>1, <2>1 DEF Rules!MarkSkipped
  <2> QED BY <1>5, <2>1, <2>2 DEF s
<1>7. CASE s \notin Rules!DeadEnds(step_phase, ex)
  <2>1. teardown
    <3> SUFFICES ASSUME ~teardown PROVE FALSE
      BY Zenon
    <3>1. PICK c \in Deps(s) : ~dep_satisfied(c)
      BY Zenon DEF Runs
    <3> QED BY <1>1, <1>2, <1>7, <3>1, DecidedAgainst DEF Undecided
  <2>2. ~Reactive(s)
    BY <2>1, Zenon DEF Runs
  <2>3. Rules!WorkflowFailed(q)
    <3>1. PICK t \in Steps \ wf.optional : step_phase[t] = "FAILED"
      BY <2>1, Zenon DEF LocalInv, WalkInv, RequiredFailed
    <3>2. q[t] = "FAILED"
      BY <1>4, <3>1 DEF Outcomes
    <3> QED BY <3>1, <3>2 DEF Rules!WorkflowFailed
  <2>4. s \in Rules!Pending(q)
    BY <1>1, <1>3, <1>7 DEF Rules!Pending
  <2>5. s \notin Rules!reactive_preserve_set(q, ex)
    <3> SUFFICES ASSUME NEW c \in Deps(s), c.when \in {"ON_FAILURE", "ALWAYS"},
                        q[c.step] = "FAILED", Rules!dep_satisfied(q, c, ex)
                 PROVE  FALSE
      BY DEF Rules!reactive_preserve_set, Deps
    <3>1. q[c.step] = step_phase[c.step] /\ step_phase[c.step] \in Outcomes
      BY <1>2, <1>4
    <3> HIDE DEF q
    <3>2. dep_satisfied(c)
      BY <3>1, ConditionsAgree
    <3> QED BY <2>2, <3>1, <3>2 DEF Reactive
  <2> HIDE DEF q, s
  <2>6. Rules!MarkSkipped(q, kept)[s] = "SKIPPED"
    BY <1>1, <2>4, <2>5 DEF Rules!MarkSkipped
  <2> QED BY <1>5, <2>3, <2>6 DEF s
<1> QED BY <1>6, <1>7

LEMMA RunByBoth ==
  ASSUME LocalInv, Considering, Runs(Current)
  PROVE  IF Rules!WorkflowFailed(step_phase)
           THEN Current \in Rules!reactive_preserve_set(step_phase, exit_codes)
           ELSE Rules!Ready(Current, step_phase, exit_codes)
<1>1. Current \in Steps /\ step_phase[Current] = "PENDING"
  BY CurrentIsOpen DEF Considering, Undecided
<1>2. \A c \in Deps(Current) : step_phase[c.step] \in Outcomes
  BY <1>1, DependenciesFirst, DepsAre DEF DependenciesDecided, LocalInv, Shape
<1>3. \A c \in Deps(Current) : dep_satisfied(c) <=> Rules!dep_satisfied(step_phase, c, exit_codes)
  BY <1>2, ConditionsAgree
<1>4. teardown <=> Rules!WorkflowFailed(step_phase)
  BY Zenon DEF LocalInv, WalkInv, RequiredFailed, Rules!WorkflowFailed
<1>5. CASE Rules!WorkflowFailed(step_phase)
  <2>1. Reactive(Current)
    BY <1>4, <1>5, Zenon DEF Runs
  <2>2. Current \in Rules!reactive_preserve_set(step_phase, exit_codes)
    BY <1>1, <1>3, <2>1 DEF Reactive, Rules!reactive_preserve_set, Deps
  <2> QED BY <1>5, <2>2
<1>6. CASE ~Rules!WorkflowFailed(step_phase)
  <2>1. \A c \in Deps(Current) : dep_satisfied(c)
    BY <1>4, <1>6, Zenon DEF Runs
  <2>2. Rules!Ready(Current, step_phase, exit_codes)
    BY <1>1, <1>3, <2>1 DEF Rules!Ready, Deps
  <2> QED BY <1>6, <2>2
<1> QED BY <1>5, <1>6

(* For every workflow, with cycles or without: a step is skipped only if   *)
(* the controller would skip it; it is run only if the controller would    *)
(* submit it or, once a required step has failed, would not cancel it,     *)
(* which it may yet never submit.                                          *)
THEOREM LocalFollowsTheController == Spec => []FollowsTheController
<1>1. LocalInv => FollowsTheController
  BY RunByBoth, SkippedByBoth DEF FollowsTheController
<1> QED BY <1>1, LocalInvariance, PTL

-----------------------------------------------------------------------------
(* Every step of a workflow without cycles is sorted.                      *)

LEMMA AllSorted ==
  ASSUME LocalInv, stage # "sort", Acyclic(wf), NEW s \in Steps
  PROVE  s \in Range(ordered)
<1> SUFFICES ASSUME s \notin Range(ordered) PROVE FALSE
  OBVIOUS
<1>1. PICK height \in [Steps -> Nat] : \A t \in Steps : \A c \in wf.deps[t] : height[c.step] < height[t]
  <2>1. PICK height \in [Steps -> 1..NumSteps] :
          \A t \in Steps : \A c \in wf.deps[t] : height[c.step] < height[t]
    BY DEF Acyclic
  <2>2. height \in [Steps -> Nat]
    BY LocalAssumption DEF LocalAssumption
  <2> QED BY <2>1, <2>2
<1> DEFINE Left == Steps \ Range(ordered)
           heights == {height[t] : t \in Left}
<1>2. PICK h \in heights : \A k \in heights : ~(<<k, h>> \in OpToRel(<, Nat))
  <2>1. heights \in SUBSET Nat /\ heights # {}
    OBVIOUS
  <2> HIDE DEF heights
  <2> QED BY <2>1, NatLessThanWellFounded, WFMin
<1>3. PICK t \in Left : h = height[t]
  OBVIOUS
<1>4. queue = <<>>
  BY DEF LocalInv, SortInv
<1>5. Range(queue) = {}
  BY <1>4, EmptySeq, LenProperties DEF Range
<1>6. Cardinality(Unsorted(t)) # 0
  BY <1>3, <1>5 DEF LocalInv, SortInv
<1>7. PICK c \in Deps(t) : c.step \notin Range(ordered)
  <2>1. Unsorted(t) # {}
    BY <1>6, FS_EmptySet
  <2> QED BY <2>1 DEF Unsorted
<1>8. c.step \in Left
  BY <1>3, <1>7, DepsAre DEF LocalInv, Shape
<1>9. height[c.step] < height[t] /\ height[c.step] \in Nat /\ height[t] \in Nat
  BY <1>1, <1>3, <1>7, <1>8 DEF Deps
<1> QED BY <1>2, <1>3, <1>8, <1>9 DEF OpToRel

(* For every acyclic workflow: what a step depends on is decided when it   *)
(* is considered, a local run that returns has decided every step, and it  *)
(* says of the workflow what the controller would.                         *)
THEOREM LocalForgetsNothing ==
  ASSUME \A w \in Workflows : Acyclic(w)
  PROVE  Spec => []NothingForgotten
<1>1. LocalInv => NothingForgotten
  <2> SUFFICES ASSUME LocalInv PROVE NothingForgotten
    OBVIOUS
  <2>1. DependenciesDecided
    BY DependenciesFirst
  <2>2. ASSUME stage = "done", NEW s \in Steps PROVE step_phase[s] # Undecided
    <3>1. Acyclic(wf)
      BY DEF LocalInv, Shape
    <3>2. s \in Range(ordered)
      BY <2>2, <3>1, AllSorted
    <3>3. Len(ordered) \in Nat /\ DOMAIN ordered = 1..Len(ordered)
      BY LenProperties DEF LocalInv, Shape
    <3>4. PICK i \in 1..Len(ordered) : ordered[i] = s
      BY <3>2, <3>3 DEF Range
    <3>5. pos = Len(ordered) + 1
      BY <2>2, <3>3 DEF LocalInv, WalkInv
    <3> QED BY <3>3, <3>4, <3>5 DEF LocalInv, WalkInv
  <2>3. succeeded <=> ~Rules!WorkflowFailed(step_phase)
    BY Zenon DEF LocalInv, WalkInv, RequiredFailed, Rules!WorkflowFailed
  <2> QED BY <2>1, <2>2, <2>3, Zenon DEF NothingForgotten
<1> QED BY <1>1, LocalInvariance, PTL
=============================================================================

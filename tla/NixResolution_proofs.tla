------------------------ MODULE NixResolution_proofs ------------------------
(***************************************************************************)
(* Proofs about the nix-mode roles, for any number of submits, machines,   *)
(* stores, roles and faults, and whatever the names of build steps are cut *)
(* to: the types, that a step's closures are in their stores when it       *)
(* starts, that build steps are named and waited for as they should be,    *)
(* and that memos shared by submits mislead no role nobody edited.         *)
(***************************************************************************)
EXTENDS Staging, FiniteSetTheorems, WellFoundedInduction, TLAPS

-----------------------------------------------------------------------------
(* The names of the build steps.                                           *)

\* Every set of numbers has a least one: what Min returns.
LEMMA LeastNumber ==
  ASSUME NEW T \in SUBSET Nat, T # {}
  PROVE  Min(T) \in T /\ \A y \in T : Min(T) <= y
<1>1. PICK x \in T : \A y \in T : ~(<<y, x>> \in OpToRel(<, Nat))
  BY NatLessThanWellFounded, WFMin
<1>2. \A y \in T : x <= y
  <2> SUFFICES ASSUME NEW y \in T PROVE x <= y
    OBVIOUS
  <2>1. x \in Nat /\ y \in Nat
    OBVIOUS
  <2>2. ~(y < x)
    BY <1>1, <2>1 DEF OpToRel
  <2> QED BY <2>1, <2>2
<1>3. \E z \in T : \A y \in T : z =< y
  BY <1>2
<1> QED BY <1>3 DEF Min

\* Among Cardinality(taken) + 1 suffixes one is free: the name is not taken, and
\* its suffix is no larger than the names that are.
LEMMA UnusedIsFree ==
  ASSUME NEW name, NEW taken, IsFiniteSet(taken)
  PROVE  \E i \in 0..Cardinality(taken) :
           Unused(name, taken) = <<name, i>> /\ <<name, i>> \notin taken
<1> DEFINE c == Cardinality(taken)
           free == {i \in 0..c : <<name, i>> \notin taken}
           f == [i \in 0..c |-> <<name, i>>]
<1>1. c \in Nat
  BY FS_CardinalityType
<1>2. IsFiniteSet(0..c) /\ Cardinality(0..c) = c + 1
  BY <1>1, FS_Interval
<1>3. free # {}
  <2> SUFFICES ASSUME free = {} PROVE FALSE
    OBVIOUS
  <2>1. f \in [0..c -> taken]
    OBVIOUS
  <2>2. c < Cardinality(0..c)
    BY <1>1, <1>2
  <2> DEFINE I == 0..c
  <2> HIDE DEF f, I
  <2>3. \E x, y \in I : x # y /\ f[x] = f[y]
    <3>1. f \in [I -> taken] /\ IsFiniteSet(I) /\ Cardinality(taken) < Cardinality(I)
      BY <1>2, <2>1, <2>2 DEF I
    <3> HIDE DEF c
    <3> QED BY ONLY <3>1, IsFiniteSet(taken), FS_PigeonHole
  <2> QED BY <2>3 DEF f, I
<1>4. free \in SUBSET Nat
  BY <1>1
<1> HIDE DEF free
<1>5. Min(free) \in free
  BY <1>3, <1>4, LeastNumber
<1> QED BY <1>5 DEF Unused, free

\* What needed_builds holds.
Needs == [key : Keys, digest : Sources, role : Roles]

\* The names BuildNames gives the builds q of a workflow of the given steps.
Taken(f, i, steps) == steps \union {f[j] : j \in 1..(i - 1)}
Named(f, q, steps, m) ==
  \A i \in 1..m : f[i] = Unused(ShortName[q[i].key], Taken(f, i, steps))
Naming(q, steps, m) ==
  [1..m -> {ShortName[k] : k \in Keys} \X (0..(Len(q) + Cardinality(steps)))]
NamesOf(q, steps) == CHOOSE f \in Naming(q, steps, Len(q)) : Named(f, q, steps, Len(q))

LEMMA TakenIsFinite ==
  ASSUME NEW steps, IsFiniteSet(steps), NEW i \in Nat \ {0}, NEW f
  PROVE  /\ IsFiniteSet(Taken(f, i, steps))
         /\ Cardinality(Taken(f, i, steps)) <= Cardinality(steps) + (i - 1)
<1> DEFINE others == {f[j] : j \in 1..(i - 1)}
           g == [j \in 1..(i - 1) |-> f[j]]
<1>1. g \in Surjection(1..(i - 1), others)
  BY DEF Surjection
<1>2. IsFiniteSet(1..(i - 1)) /\ Cardinality(1..(i - 1)) = i - 1
  BY FS_Interval
<1> HIDE DEF g
<1>3. IsFiniteSet(others) /\ Cardinality(others) <= i - 1
  BY <1>1, <1>2, FS_Surjection
<1> HIDE DEF others
<1>4. /\ IsFiniteSet(steps \union others)
      /\ Cardinality(steps \union others)
           = Cardinality(steps) + Cardinality(others) - Cardinality(steps \cap others)
  BY <1>3, FS_Union
<1>5. IsFiniteSet(steps \cap others)
  BY <1>3, FS_Intersection
<1>6. /\ Cardinality(steps \cap others) \in Nat
      /\ Cardinality(steps) \in Nat /\ Cardinality(others) \in Nat
  BY <1>3, <1>5, FS_CardinalityType
<1>7. Taken(f, i, steps) = steps \union others
  BY DEF Taken, others
<1> QED BY <1>3, <1>4, <1>6, <1>7

(***************************************************************************)
(* A naming of the first m builds extends to one of the first m + 1.       *)
(***************************************************************************)
LEMMA OneMoreName ==
  ASSUME NEW q \in Seq(Needs),
         NEW steps, IsFiniteSet(steps), NEW m \in Nat, m < Len(q),
         NEW f \in Naming(q, steps, m), Named(f, q, steps, m)
  PROVE  \E g \in Naming(q, steps, m + 1) : Named(g, q, steps, m + 1)
<1> DEFINE new == Unused(ShortName[q[m + 1].key], Taken(f, m + 1, steps))
           g == [i \in 1..(m + 1) |-> IF i = m + 1 THEN new ELSE f[i]]
<1>0. Len(q) \in Nat /\ Cardinality(steps) \in Nat /\ q[m + 1].key \in Keys
  <2>1. Cardinality(steps) \in Nat
    BY FS_CardinalityType
  <2>2. m + 1 \in 1..Len(q)
    OBVIOUS
  <2>3. q[m + 1] \in Needs
    BY <2>2
  <2> QED BY <2>1, <2>3 DEF Needs
<1>1. /\ IsFiniteSet(Taken(f, m + 1, steps))
      /\ Cardinality(Taken(f, m + 1, steps)) <= Cardinality(steps) + m
  BY TakenIsFinite
<1>2. PICK i \in 0..Cardinality(Taken(f, m + 1, steps)) : new = <<ShortName[q[m + 1].key], i>>
  BY <1>1, UnusedIsFree
<1>3. i \in 0..(Len(q) + Cardinality(steps))
  <2>1. Cardinality(Taken(f, m + 1, steps)) \in Nat
    BY <1>1, FS_CardinalityType
  <2> QED BY <1>0, <1>1, <2>1
<1>4. new \in {ShortName[k] : k \in Keys} \X (0..(Len(q) + Cardinality(steps)))
  BY <1>0, <1>2, <1>3
<1> HIDE DEF new
<1>5. \A j \in 1..(m + 1) : Taken(g, j, steps) = Taken(f, j, steps)
  <2> SUFFICES ASSUME NEW j \in 1..(m + 1) PROVE Taken(g, j, steps) = Taken(f, j, steps)
    OBVIOUS
  <2>1. \A l \in 1..(j - 1) : l \in 1..(m + 1) /\ l # m + 1
    OBVIOUS
  <2>2. \A l \in 1..(j - 1) : g[l] = f[l]
    BY <2>1
  <2> HIDE DEF g
  <2>3. {g[l] : l \in 1..(j - 1)} = {f[l] : l \in 1..(j - 1)}
    BY <2>2
  <2> QED BY <2>3 DEF Taken
<1>6. Named(g, q, steps, m + 1)
  <2> SUFFICES ASSUME NEW j \in 1..(m + 1)
               PROVE  g[j] = Unused(ShortName[q[j].key], Taken(g, j, steps))
    BY DEF Named
  <2>1. CASE j = m + 1
    BY <2>1, <1>5 DEF new
  <2>2. CASE j # m + 1
    <3>1. j \in 1..m
      BY <2>2
    <3>2. f[j] = Unused(ShortName[q[j].key], Taken(f, j, steps))
      BY <3>1 DEF Named
    <3>3. g[j] = f[j]
      BY <2>2
    <3> QED BY <3>2, <3>3, <1>5
  <2> QED BY <2>1, <2>2
<1>7. g \in Naming(q, steps, m + 1)
  BY <1>4 DEF Naming
<1> QED BY <1>6, <1>7

LEMMA NamesAreThere ==
  ASSUME NEW q \in Seq(Needs),
         NEW steps, IsFiniteSet(steps)
  PROVE  NamesOf(q, steps) \in Naming(q, steps, Len(q)) /\ Named(NamesOf(q, steps), q, steps, Len(q))
<1> DEFINE Can(m) == \E f \in Naming(q, steps, m) : Named(f, q, steps, m)
           bad == {m \in 0..Len(q) : ~Can(m)}
<1>1. Can(0)
  <2>1. [i \in 1..0 |-> i] \in Naming(q, steps, 0)
    BY DEF Naming
  <2> QED BY <2>1 DEF Named
<1>2. ASSUME NEW m \in 0..Len(q), m # Len(q), Can(m) PROVE Can(m + 1)
  <2>1. m \in Nat /\ m < Len(q)
    BY <1>2
  <2>2. PICK f \in Naming(q, steps, m) : Named(f, q, steps, m)
    BY <1>2
  <2> QED BY <2>1, <2>2, OneMoreName
<1> HIDE DEF Can
<1>3. bad = {}
  <2> SUFFICES ASSUME bad # {} PROVE FALSE
    OBVIOUS
  <2>1. bad \in SUBSET Nat
    OBVIOUS
  <2> DEFINE least == Min(bad)
  <2>2. least \in bad /\ \A y \in bad : least <= y
    BY <2>1, LeastNumber
  <2> HIDE DEF least
  <2>3. least \in 1..Len(q) /\ ~Can(least)
    BY <2>2, <1>1
  <2>4. least - 1 \notin bad
    BY <2>2, <2>3
  <2>5. Can(least - 1)
    BY <2>3, <2>4
  <2>6. Can((least - 1) + 1)
    BY <2>3, <2>5, <1>2
  <2> QED BY <2>3, <2>6
<1>4. Can(Len(q))
  BY <1>3
<1> QED BY <1>4 DEF Can, NamesOf

(***************************************************************************)
(* No two builds of a workflow share a name, and none has the name of a    *)
(* step.                                                                   *)
(***************************************************************************)
LEMMA NamesDiffer ==
  ASSUME NEW q \in Seq(Needs),
         NEW steps, IsFiniteSet(steps)
  PROVE  /\ DOMAIN NamesOf(q, steps) = DOMAIN q
         /\ \A n \in DOMAIN q : NamesOf(q, steps)[n] \notin steps
         /\ \A m, n \in DOMAIN q : NamesOf(q, steps)[m] = NamesOf(q, steps)[n] => m = n
<1> DEFINE f == NamesOf(q, steps)
<1>1. f \in Naming(q, steps, Len(q)) /\ Named(f, q, steps, Len(q))
  BY NamesAreThere
<1>2. DOMAIN q = 1..Len(q) /\ Len(q) \in Nat
  OBVIOUS
<1> HIDE DEF f
<1>3. DOMAIN f = DOMAIN q
  BY <1>1, <1>2 DEF Naming
<1>4. ASSUME NEW i \in DOMAIN q PROVE f[i] \notin Taken(f, i, steps)
  <2>1. IsFiniteSet(Taken(f, i, steps))
    BY <1>2, TakenIsFinite
  <2>2. f[i] = Unused(ShortName[q[i].key], Taken(f, i, steps))
    BY <1>1, <1>2 DEF Named
  <2> DEFINE T == Taken(f, i, steps)
             name == ShortName[q[i].key]
  <2> HIDE DEF T, name
  <2>3. \E j \in 0..Cardinality(T) : Unused(name, T) = <<name, j>> /\ <<name, j>> \notin T
    BY <2>1, UnusedIsFree DEF T
  <2> QED BY <2>2, <2>3 DEF T, name
<1>5. \A i \in DOMAIN q : f[i] \notin steps
  BY <1>4 DEF Taken
<1>6. ASSUME NEW m \in DOMAIN q, NEW n \in DOMAIN q, m < n PROVE f[m] # f[n]
  <2>1. m \in 1..(n - 1)
    BY <1>2, <1>6
  <2> QED BY <2>1, <1>4 DEF Taken
<1>7. ASSUME NEW m \in DOMAIN q, NEW n \in DOMAIN q, f[m] = f[n] PROVE m = n
  <2>1. ~(m < n) /\ ~(n < m)
    BY <1>6, <1>7
  <2> QED BY <1>2, <2>1
<1>8. \A m, n \in DOMAIN q : f[m] = f[n] => m = n
  BY <1>7
<1> QED BY <1>3, <1>5, <1>8 DEF f

LEMMA BuildNamesAreNames ==
  ASSUME NEW s PROVE BuildNames(s) = NamesOf(needed[s], workflow[s].steps)
BY DEF BuildNames, NamesOf, Naming, Named, Taken

-----------------------------------------------------------------------------
(* Types and order.                                                        *)

\* Where a submit is: a role in hand, fingerprinted, located in a directory.
InHand == {"fingerprint", "lookup", "hit", "absent", "miss", "copy", "staged", "eval", "evaluated"}
Read == InHand \ {"fingerprint"}
Located == {"copy", "staged", "eval"}
Made == {"render", "launched"}
Pcs == InHand \union {"role", "inject", "raised"} \union Made

Memo == [Sources \X Targets -> Closures \union {None}]

Shape ==
  /\ workflow \in [Submits -> Workflows] /\ pc \in [Submits -> Pcs]
  /\ edited \in [Submits -> BOOLEAN]
  /\ digest \in [Submits -> Sources \union {None}] /\ root \in [Submits -> Sources \union {None}]
  /\ found \in [Submits -> Closures \union {None}]
  /\ keys \in [Submits -> Seq(Keys)] /\ needed \in [Submits -> Seq(Needs)]
  /\ DOMAIN staged = Submits /\ DOMAIN builds = Submits
  /\ DOMAIN depends = Submits /\ DOMAIN started = Submits
  /\ \A s \in Submits : started[s] \subseteq workflow[s].steps
  /\ \A s \in Submits : /\ DOMAIN staged[s] \subseteq Sources
                        /\ staged[s] \in [DOMAIN staged[s] -> Sources]
  /\ \A s \in Submits : \A b \in DOMAIN builds[s] : builds[s][b].key \in Keys
  /\ stored \subseteq Keys
  /\ localMemo \in [Machines -> Memo] /\ remoteMemo \in [MemoStores -> Memo]
  /\ faults \in 0..MaxFaults

InOrder(s) ==
  /\ Len(keys[s]) <= Len(Roles_(s))
  /\ pc[s] \in InHand => Len(keys[s]) < Len(Roles_(s))
  /\ pc[s] \in {"inject"} \union Made => Len(keys[s]) = Len(Roles_(s))
  /\ pc[s] \in Read => digest[s] \in Sources
  /\ pc[s] \in Located => root[s] \in Sources
  /\ pc[s] \in {"staged", "eval"} => root[s] \in DOMAIN staged[s]
  /\ pc[s] \in {"hit", "absent", "evaluated"} => found[s] # None

InOrders == \A s \in Submits : InOrder(s)

\* The steps of a submit that resolve and launch, and those of the cluster.
SubmitStep(s) ==
  \/ Edit(s) \/ NextRole(s) \/ fingerprint_nix_source_tree(s)
  \/ lookup_cached_closure_path(s) \/ Materialize(s) \/ copy_filtered(s)
  \/ CheckStaged(s) \/ Evaluate(s) \/ CheckHit(s) \/ CollectHit(s)
  \/ CheckEvaluated(s) \/ Raise(s) \/ _inject_build_steps(s) \/ _resolve_nix_role(s)
ClusterStep(s) ==
  \/ \E b \in DOMAIN builds[s] : RunBuild(s, b)
  \/ \E x \in workflow[s].steps : StartStep(s, x)

LEMMA NextSplits == Next => \E s \in Submits : SubmitStep(s) \/ ClusterStep(s)
BY DEF Next, SubmitStep, ClusterStep

\* A role and what is found for it is of the right kind.
LEMMA RoleInHand ==
  ASSUME Shape, NEW s \in Submits
  PROVE  /\ Roles_(s) \in Seq(Roles) /\ IsFiniteSet(workflow[s].steps)
         /\ \A i \in DOMAIN Roles_(s) :
              /\ Roles_(s)[i].step \in workflow[s].steps
              /\ Roles_(s)[i].source \in Sources /\ Roles_(s)[i].edited \in Sources
              /\ Roles_(s)[i].target \in Targets /\ Roles_(s)[i].store \in Stores
         /\ Len(keys[s]) < Len(Roles_(s)) =>
              /\ Len(keys[s]) + 1 \in DOMAIN Roles_(s) /\ Role(s) \in Roles
              /\ Role(s).target \in Targets /\ Role(s).store \in Stores
              /\ Source(s) \in Sources
<1>1. workflow[s] \in Workflows /\ keys[s] \in Seq(Keys)
  BY DEF Shape
<1>2. Roles_(s) \in Seq(Roles) /\ IsFiniteSet(workflow[s].steps)
  BY <1>1, NixAssumption DEF NixAssumption, Roles_
<1>3. \A i \in DOMAIN Roles_(s) :
        /\ Roles_(s)[i].step \in workflow[s].steps
        /\ Roles_(s)[i].source \in Sources /\ Roles_(s)[i].edited \in Sources
        /\ Roles_(s)[i].target \in Targets /\ Roles_(s)[i].store \in Stores
  <2> TAKE i \in DOMAIN Roles_(s)
  <2>1. Roles_(s)[i].step \in workflow[s].steps
    BY <1>1, NixAssumption DEF NixAssumption, Roles_
  <2>2. Roles_(s)[i] \in Roles
    BY <1>2
  <2> QED BY <2>1, <2>2 DEF Roles
<1>4. ASSUME Len(keys[s]) < Len(Roles_(s))
      PROVE  Len(keys[s]) + 1 \in DOMAIN Roles_(s) /\ Role(s) \in Roles
  <2>1. Len(keys[s]) + 1 \in 1..Len(Roles_(s))
    BY <1>1, <1>2, <1>4
  <2> QED BY <2>1, <1>2 DEF Role
<1>5. ASSUME Role(s) \in Roles
      PROVE  Role(s).target \in Targets /\ Role(s).store \in Stores /\ Source(s) \in Sources
  BY <1>5 DEF Roles, Source
<1> QED BY <1>2, <1>3, <1>4, <1>5

\* What a submit evaluates to, with its directory there.
LEMMA Evaluates ==
  ASSUME Shape, NEW s \in Submits, InOrder(s), pc[s] = "eval"
  PROVE  eval_closure_path(s) \in Closures
<1>1. Len(keys[s]) < Len(Roles_(s)) /\ root[s] \in DOMAIN staged[s]
  BY DEF InOrder, InHand
<1>2. staged[s][root[s]] \in Sources /\ Role(s).target \in Targets
  BY <1>1, RoleInHand DEF Shape
<1> QED BY <1>2, NixAssumption DEF NixAssumption, eval_closure_path

\* Collecting a role appends its key, and needs it if it has to be built.
LEMMA Collects ==
  ASSUME Shape, NEW s \in Submits, InOrder(s), NEW inStore \in BOOLEAN,
         pc[s] \in {"hit", "absent", "evaluated"}, Collect(s, inStore)
  PROVE  /\ keys' \in [Submits -> Seq(Keys)] /\ needed' \in [Submits -> Seq(Needs)]
         /\ pc' \in [Submits -> Pcs] /\ pc'[s] \in {"role", "raised"}
         /\ <<found[s], Role(s).store>> \in Keys
         /\ keys'[s] = Append(keys[s], <<found[s], Role(s).store>>)
         /\ Len(keys'[s]) = Len(keys[s]) + 1 /\ Len(keys[s]) < Len(Roles_(s))
         /\ \A t \in Submits \ {s} : keys'[t] = keys[t] /\ needed'[t] = needed[t] /\ pc'[t] = pc[t]
<1> DEFINE k == <<found[s], Role(s).store>>
           n == [key |-> k, digest |-> digest[s], role |-> Role(s)]
<1>1. Len(keys[s]) < Len(Roles_(s)) /\ found[s] # None /\ digest[s] \in Sources
  BY DEF InOrder, InHand, Read
<1>2. found[s] \in Closures
  BY <1>1 DEF Shape
<1>3. k \in Keys
  BY <1>1, <1>2, RoleInHand DEF Keys
<1>4. n \in Needs
  BY <1>1, <1>3, RoleInHand DEF Needs
<1> HIDE DEF k, n
<1>5. keys' = [keys EXCEPT ![s] = Append(keys[s], k)]
  BY DEF Collect, k
<1>6. keys[s] \in Seq(Keys) /\ needed[s] \in Seq(Needs)
  BY DEF Shape
<1>7. keys' \in [Submits -> Seq(Keys)] /\ Len(keys'[s]) = Len(keys[s]) + 1
        /\ keys'[s] = Append(keys[s], k)
  BY <1>3, <1>5, <1>6 DEF Shape
<1>8. needed' = needed \/ needed' = [needed EXCEPT ![s] = Append(needed[s], n)]
  BY DEF Collect, k, n
<1>9. needed' \in [Submits -> Seq(Needs)] /\ \A t \in Submits \ {s} : needed'[t] = needed[t]
  <2>1. needed \in [Submits -> Seq(Needs)] /\ Append(needed[s], n) \in Seq(Needs)
    BY <1>4, <1>6 DEF Shape
  <2> QED BY <1>8, <2>1
<1>10. pc' = [pc EXCEPT ![s] = "role"] \/ pc' = [pc EXCEPT ![s] = "raised"]
  BY DEF Collect, Goto
<1>11. /\ pc' \in [Submits -> Pcs] /\ pc'[s] \in {"role", "raised"}
       /\ \A t \in Submits \ {s} : pc'[t] = pc[t]
  BY <1>10 DEF Shape, Pcs
<1>12. \A t \in Submits \ {s} : keys'[t] = keys[t]
  BY <1>5 DEF Shape
<1> QED BY <1>1, <1>3, <1>7, <1>9, <1>11, <1>12 DEF k

\* Names and directories are looked up under a digest.
LEMMA Locates ==
  ASSUME Shape, NEW s \in Submits, InOrder(s), pc[s] \in {"hit", "miss"},
         NEW next \in {"absent", "staged"}, next = "absent" => found[s] # None,
         Locate(s, next), UNCHANGED <<found, keys, needed>>
  PROVE  Shape' /\ InOrder(s)'
<1>1. Len(keys[s]) < Len(Roles_(s)) /\ digest[s] \in Sources /\ Source(s) \in Sources
  BY RoleInHand DEF InOrder, InHand, Read
<1>2. root' = [root EXCEPT ![s] = Source(s)] /\ root' \in [Submits -> Sources \union {None}]
  BY <1>1 DEF Locate, Shape
<1>3. /\ pc' = [pc EXCEPT ![s] = IF Source(s) \in DOMAIN staged[s] THEN next ELSE "copy"]
      /\ pc' \in [Submits -> Pcs]
  BY DEF Locate, Goto, Shape, Pcs, InHand
<1>4. UNCHANGED <<edited, digest, staged, launched, stored, memos, faults, found, keys, needed>>
  BY DEF Locate
<1>5. Shape'
  BY <1>2, <1>3, <1>4 DEF Shape, launched, memos
<1>6. InOrder(s)'
  BY <1>1, <1>2, <1>3, <1>4 DEF InOrder, Roles_, launched, Shape, InHand, Read, Located, Made
<1> QED BY <1>5, <1>6

LEMMA ShapeInit == Init => Shape /\ InOrders
<1> SUFFICES ASSUME Init PROVE Shape /\ InOrders
  OBVIOUS
<1>1. Shape
  BY NixAssumption DEF NixAssumption, Init, Shape, Pcs, InHand, Made, Memo, Empty, Keys
<1>2. InOrders
  <2> SUFFICES ASSUME NEW s \in Submits PROVE InOrder(s)
    BY DEF InOrders
  <2>1. keys[s] = <<>> /\ pc[s] = "role"
    BY DEF Init
  <2>2. Roles_(s) \in Seq(Roles)
    BY <1>1, RoleInHand
  <2> QED BY <2>1, <2>2 DEF InOrder, InHand, Read, Located, Made
<1> QED BY <1>1, <1>2

(***************************************************************************)
(* A step of a submit s touches nothing of the others, and no closure      *)
(* leaves a store.                                                         *)
(***************************************************************************)
SameFor(t) ==
  /\ pc'[t] = pc[t] /\ edited'[t] = edited[t] /\ digest'[t] = digest[t] /\ root'[t] = root[t]
  /\ found'[t] = found[t] /\ staged'[t] = staged[t] /\ keys'[t] = keys[t]
  /\ needed'[t] = needed[t] /\ builds'[t] = builds[t] /\ depends'[t] = depends[t]
  /\ started'[t] = started[t]

LEMMA OthersStay ==
  ASSUME Shape, NEW s \in Submits, SubmitStep(s) \/ ClusterStep(s)
  PROVE  workflow' = workflow /\ stored \subseteq stored' /\ \A t \in Submits \ {s} : SameFor(t)
<1> USE DEF Goto, launched, reading, memos, submit
<1>1. CASE Edit(s)
  BY <1>1 DEF Edit, SameFor, Shape
<1>2. CASE NextRole(s)
  BY <1>2 DEF NextRole, SameFor, Shape
<1>3. CASE fingerprint_nix_source_tree(s)
  BY <1>3 DEF fingerprint_nix_source_tree, SameFor, Shape
<1>4. CASE lookup_cached_closure_path(s)
  BY <1>4 DEF lookup_cached_closure_path, SameFor, Shape
<1>5. CASE Materialize(s)
  BY <1>5 DEF Materialize, Locate, SameFor, Shape
<1>6. CASE copy_filtered(s)
  BY <1>6 DEF copy_filtered, SameFor, Shape
<1>7. CASE CheckStaged(s)
  BY <1>7 DEF CheckStaged, SameFor, Shape
<1>8. CASE Evaluate(s)
  BY <1>8 DEF Evaluate, SameFor, Shape
<1>9. ASSUME NEW inStore \in BOOLEAN, Collect(s, inStore)
      PROVE  \A t \in Submits \ {s} : keys'[t] = keys[t] /\ needed'[t] = needed[t] /\ pc'[t] = pc[t]
  <2>1. \A t \in Submits \ {s} : keys'[t] = keys[t] /\ pc'[t] = pc[t]
    BY <1>9 DEF Collect, Shape
  <2>2. \A t \in Submits \ {s} : needed'[t] = needed[t]
    BY <1>9, Zenon DEF Collect, Shape
  <2> QED BY <2>1, <2>2
<1>10. CASE CheckHit(s)
  <2>1. CASE InStore(s) /\ Collect(s, TRUE)
             /\ UNCHANGED <<edited, reading, staged, launched, stored, memos, faults>>
    BY <1>10, <1>9, <2>1 DEF CheckHit, SameFor
  <2>2. CASE ~InStore(s) /\ Locate(s, "absent") /\ UNCHANGED <<keys, needed>>
    BY <1>10, <2>2 DEF CheckHit, Locate, SameFor, Shape
  <2> QED BY <1>10, <2>1, <2>2 DEF CheckHit
<1>11. CASE CollectHit(s)
  BY <1>9, <1>11 DEF CollectHit, SameFor
<1>12. CASE CheckEvaluated(s)
  <2>1. InStore(s) \in BOOLEAN /\ Collect(s, InStore(s))
    BY <1>12 DEF CheckEvaluated, InStore
  <2>2. \A t \in Submits \ {s} : staged'[t] = staged[t]
    BY <1>12 DEF CheckEvaluated, Shape
  <2> QED BY <1>12, <1>9, <2>1, <2>2 DEF CheckEvaluated, SameFor
<1>13. CASE Raise(s)
  BY <1>13 DEF Raise, SameFor, Shape
<1>14. CASE _inject_build_steps(s)
  <2>1. \A t \in Submits \ {s} : builds'[t] = builds[t] /\ depends'[t] = depends[t]
    BY <1>14, Zenon DEF _inject_build_steps, Shape
  <2>2. \A t \in Submits \ {s} : pc'[t] = pc[t]
    BY <1>14 DEF _inject_build_steps, Shape
  <2> QED BY <1>14, <2>1, <2>2 DEF _inject_build_steps, SameFor
<1>15. CASE _resolve_nix_role(s)
  BY <1>15 DEF _resolve_nix_role, SameFor, Shape
<1>16. ASSUME NEW b \in DOMAIN builds[s], RunBuild(s, b)
       PROVE  workflow' = workflow /\ stored \subseteq stored' /\ \A t \in Submits \ {s} : SameFor(t)
  BY <1>16 DEF RunBuild, SameFor, Shape
<1>17. ASSUME NEW x \in workflow[s].steps, StartStep(s, x)
       PROVE  workflow' = workflow /\ stored \subseteq stored' /\ \A t \in Submits \ {s} : SameFor(t)
  BY <1>17 DEF StartStep, SameFor, Shape
<1> QED
  BY <1>1, <1>2, <1>3, <1>4, <1>5, <1>6, <1>7, <1>8, <1>10, <1>11, <1>12, <1>13, <1>14,
     <1>15, <1>16, <1>17 DEF SubmitStep, ClusterStep

LEMMA MemoWrites ==
  ASSUME Shape, NEW s \in Submits, InOrder(s), pc[s] \in {"lookup", "eval"},
         NEW c \in Closures, _write_local_closure_memo(s, c)
  PROVE  localMemo' \in [Machines -> Memo]
<1>1. MemoKey(s) \in Sources \X Targets
  BY RoleInHand DEF InOrder, InHand, Read, MemoKey
<1>2. localMemo[Machine[s]] \in Memo /\ Machine[s] \in Machines
  BY NixAssumption DEF NixAssumption, Shape
<1>3. [localMemo[Machine[s]] EXCEPT ![MemoKey(s)] = c] \in Memo
  BY <1>1, <1>2 DEF Memo
<1>4. localMemo' = [localMemo EXCEPT ![Machine[s]] = [localMemo[Machine[s]] EXCEPT ![MemoKey(s)] = c]]
  BY DEF _write_local_closure_memo
<1> QED BY <1>2, <1>3, <1>4 DEF Shape

LEMMA RemoteWrites ==
  ASSUME Shape, NEW s \in Submits, InOrder(s), pc[s] \in {"lookup", "eval"},
         NEW c \in Closures, _write_remote_closure_memo(s, c)
  PROVE  remoteMemo' \in [MemoStores -> Memo] /\ faults' \in 0..MaxFaults
<1>1. MemoKey(s) \in Sources \X Targets
  BY RoleInHand DEF InOrder, InHand, Read, MemoKey
<1>2. faults' \in 0..MaxFaults
  BY NixAssumption DEF NixAssumption, Shape, _write_remote_closure_memo, Fault
<1>3. CASE remoteMemo' = remoteMemo
  BY <1>2, <1>3 DEF Shape
<1>4. CASE HasRemote(s) /\ remoteMemo' = [remoteMemo EXCEPT ![Role(s).store][MemoKey(s)] = c]
  <2>1. remoteMemo[Role(s).store] \in Memo
    BY <1>4 DEF HasRemote, Shape
  <2>2. [remoteMemo[Role(s).store] EXCEPT ![MemoKey(s)] = c] \in Memo
    BY <1>1, <2>1 DEF Memo
  <2> QED BY <1>2, <1>4, <2>2 DEF Shape, HasRemote
<1> QED BY <1>3, <1>4 DEF _write_remote_closure_memo

(***************************************************************************)
(* The build steps are those of needed_builds, under their names, and each *)
(* step waits for the builds of its roles.                                 *)
(***************************************************************************)
LEMMA Injects ==
  ASSUME Shape, NEW s \in Submits, _inject_build_steps(s)
  PROVE  LET names == NamesOf(needed[s], workflow[s].steps)
         IN  /\ DOMAIN builds'[s] = {names[n] : n \in DOMAIN needed[s]}
             /\ \A n \in DOMAIN needed[s] :
                  builds'[s][names[n]] = _make_build_step(needed[s][n])
             /\ \A b \in DOMAIN builds'[s] : builds'[s][b].key \in Keys
             /\ depends'[s] = [x \in workflow[s].steps |-> Awaited(s, x, names)]
<1> DEFINE names == BuildNames(s)
           made == {names[n] : n \in DOMAIN names}
           At(b) == CHOOSE n \in DOMAIN names : names[n] = b
           waits == [x \in workflow[s].steps |-> Awaited(s, x, names)]
<1>1. needed[s] \in Seq(Needs) /\ IsFiniteSet(workflow[s].steps)
  BY RoleInHand DEF Shape
<1>2. names = NamesOf(needed[s], workflow[s].steps)
  BY BuildNamesAreNames
<1> HIDE DEF names
<1>3. /\ DOMAIN names = DOMAIN needed[s]
      /\ \A m, n \in DOMAIN needed[s] : names[m] = names[n] => m = n
  BY <1>1, <1>2, NamesDiffer
<1> DEFINE steps == [b \in made |-> _make_build_step(needed[s][At(b)])]
<1>4. builds' = [builds EXCEPT ![s] = steps] /\ depends' = [depends EXCEPT ![s] = waits]
  BY DEF _inject_build_steps, names
<1>5. \A n \in DOMAIN needed[s] : At(names[n]) = n
  BY <1>3
<1> HIDE DEF At
<1>6. \A n \in DOMAIN needed[s] : steps[names[n]] = _make_build_step(needed[s][n])
  BY <1>3, <1>5
<1>7. DOMAIN steps = {names[n] : n \in DOMAIN needed[s]}
  BY <1>3
<1> HIDE DEF steps, waits
<1>8. builds'[s] = steps /\ depends'[s] = waits
  BY <1>4 DEF Shape
<1>9. \A n \in DOMAIN needed[s] : steps[names[n]].key \in Keys
  <2> TAKE n \in DOMAIN needed[s]
  <2>1. needed[s][n] \in Needs
    BY <1>1
  <2>2. needed[s][n].key \in Keys
    BY <2>1 DEF Needs
  <2>3. _make_build_step(needed[s][n]).key = needed[s][n].key
    BY DEF _make_build_step
  <2>4. steps[names[n]] = _make_build_step(needed[s][n])
    BY <1>6
  <2> QED BY <2>2, <2>3, <2>4
<1>10. \A b \in DOMAIN steps : steps[b].key \in Keys
  BY <1>7, <1>9
<1> QED BY <1>2, <1>6, <1>7, <1>8, <1>10 DEF waits

LEMMA SubmitKeepsShape ==
  ASSUME Shape, NEW s \in Submits, InOrder(s), SubmitStep(s)
  PROVE  Shape' /\ InOrder(s)'
<1> USE DEF launched, reading, memos
<1>0. MaxFaults \in Nat
  BY NixAssumption DEF NixAssumption
<1>k. keys[s] \in Seq(Keys) /\ Roles_(s) \in Seq(Roles)
  BY RoleInHand DEF Shape
<1>l. Len(keys[s]) \in Nat /\ Len(Roles_(s)) \in Nat
  BY <1>k
<1>1. CASE Edit(s)
  <2>1. faults' \in 0..MaxFaults
    BY <1>0, <1>1 DEF Edit, Fault, Shape
  <2>2. edited' \in [Submits -> BOOLEAN]
    BY <1>1 DEF Edit, Shape
  <2> QED BY <1>1, <2>1, <2>2 DEF Edit, Shape, InOrder, Roles_
<1>2. CASE NextRole(s)
  <2>1. pc' \in [Submits -> Pcs]
    BY <1>2 DEF NextRole, Goto, Shape, Pcs, InHand
  <2>2. Shape'
    BY <1>2, <2>1 DEF NextRole, Shape
  <2>3. \/ pc'[s] = "inject" /\ Len(keys[s]) = Len(Roles_(s))
        \/ pc'[s] \in {"fingerprint", "raised"} /\ Len(keys[s]) < Len(Roles_(s))
    BY <1>2, <1>l DEF NextRole, Goto, Shape, InOrder
  <2>4. InOrder(s)'
    BY <1>2, <2>3 DEF NextRole, InOrder, InHand, Read, Located, Made, Roles_
  <2> QED BY <2>2, <2>4
<1>3. CASE fingerprint_nix_source_tree(s)
  <2>1. Len(keys[s]) < Len(Roles_(s)) /\ Source(s) \in Sources
    BY <1>3, RoleInHand DEF fingerprint_nix_source_tree, InOrder, InHand
  <2>2. Shape'
    BY <1>3, <2>1 DEF fingerprint_nix_source_tree, Goto, Shape, Pcs, InHand
  <2>3. pc'[s] = "lookup" /\ digest'[s] \in Sources /\ UNCHANGED <<keys, workflow>>
    BY <1>3, <2>1 DEF fingerprint_nix_source_tree, Goto, Shape
  <2>4. InOrder(s)'
    BY <2>1, <2>3 DEF InOrder, InHand, Read, Located, Made, Roles_
  <2> QED BY <2>2, <2>4
<1>4. CASE lookup_cached_closure_path(s)
  <2>1. Len(keys[s]) < Len(Roles_(s)) /\ digest[s] \in Sources /\ Role(s).target \in Targets
        /\ MemoKey(s) \in Sources \X Targets
    BY <1>4, RoleInHand DEF lookup_cached_closure_path, InOrder, InHand, Read, MemoKey
  <2>2. /\ _read_local_closure_memo(s) \in Closures \union {None}
        /\ _read_remote_closure_memo(s) \in Closures \union {None}
    BY <2>1, NixAssumption DEF NixAssumption, Shape, Memo, _read_local_closure_memo,
       _read_remote_closure_memo, HasRemote
  <2>3. /\ UNCHANGED <<edited, reading, staged, keys, needed, launched, stored, remoteMemo>>
        /\ pc[s] = "lookup"
    BY <1>4 DEF lookup_cached_closure_path
  <2>4. /\ found' \in [Submits -> Closures \union {None}] /\ pc' \in [Submits -> Pcs]
        /\ \/ pc'[s] = "hit" /\ found'[s] # None
           \/ pc'[s] = "miss"
        /\ faults' \in 0..MaxFaults
        /\ \/ localMemo' = localMemo
           \/ \E c \in Closures : _write_local_closure_memo(s, c)
    <3> DEFINE here == _read_local_closure_memo(s)
               there == _read_remote_closure_memo(s)
    <3> HIDE DEF here, there
    <3>1. CASE /\ Usable(here) /\ found' = [found EXCEPT ![s] = here] /\ Goto(s, "hit")
               /\ UNCHANGED <<localMemo, faults>>
      BY <2>2, <3>1 DEF here, Usable, Goto, Shape, Pcs, InHand
    <3>2. CASE /\ Usable(there) /\ found' = [found EXCEPT ![s] = there] /\ Goto(s, "hit")
               /\ _write_local_closure_memo(s, there) /\ UNCHANGED faults
      BY <2>2, <3>2 DEF there, Usable, Goto, Shape, Pcs, InHand
    <3>3. CASE Goto(s, "miss") /\ UNCHANGED <<found, localMemo>> /\ (UNCHANGED faults \/ Fault)
      BY <1>0, <3>3 DEF Fault, Goto, Shape, Pcs, InHand
    <3> QED BY <1>4, <3>1, <3>2, <3>3 DEF lookup_cached_closure_path, here, there
  <2>5. localMemo' \in [Machines -> Memo]
    BY <2>3, <2>4, MemoWrites DEF Shape
  <2>6. Shape'
    BY <2>3, <2>4, <2>5 DEF Shape
  <2>7. InOrder(s)'
    BY <2>1, <2>3, <2>4 DEF InOrder, InHand, Read, Located, Made, Roles_
  <2> QED BY <2>6, <2>7
<1>5. CASE Materialize(s)
  BY <1>5, Locates DEF Materialize
<1>6. CASE copy_filtered(s)
  <2>1. Len(keys[s]) < Len(Roles_(s)) /\ Source(s) \in Sources /\ root[s] \in Sources
        /\ digest[s] \in Sources
    BY <1>6, RoleInHand DEF copy_filtered, InOrder, InHand, Read, Located
  <2> DEFINE new == [d \in DOMAIN staged[s] \union {root[s]} |->
                       IF d = root[s] THEN Source(s) ELSE staged[s][d]]
  <2>2. staged' = [staged EXCEPT ![s] = new]
    BY <1>6 DEF copy_filtered
  <2>3. /\ DOMAIN staged[s] \subseteq Sources
        /\ \A d \in DOMAIN staged[s] : staged[s][d] \in Sources
    BY DEF Shape
  <2>4. DOMAIN new \subseteq Sources /\ new \in [DOMAIN new -> Sources] /\ root[s] \in DOMAIN new
    BY <2>1, <2>3
  <2> HIDE DEF new
  <2>5. /\ DOMAIN staged' = Submits
        /\ \A t \in Submits : /\ DOMAIN staged'[t] \subseteq Sources
                              /\ staged'[t] \in [DOMAIN staged'[t] -> Sources]
        /\ staged'[s] = new
    BY <2>2, <2>4 DEF Shape
  <2>6. /\ pc' \in [Submits -> Pcs]
        /\ pc'[s] \in {"staged", "absent"} /\ (pc'[s] = "absent" => found[s] # None)
    BY <1>6 DEF copy_filtered, Goto, Shape, Pcs, InHand
  <2>7. UNCHANGED <<edited, reading, found, keys, needed, launched, stored, memos, faults>>
    BY <1>6 DEF copy_filtered
  <2>8. Shape'
    BY <2>5, <2>6, <2>7 DEF Shape
  <2>9. InOrder(s)'
    BY <2>1, <2>4, <2>5, <2>6, <2>7 DEF InOrder, InHand, Read, Located, Made, Roles_
  <2> QED BY <2>8, <2>9
<1>7. CASE CheckStaged(s)
  <2>1. pc' \in [Submits -> Pcs] /\ pc'[s] \in {"eval", "raised"}
    BY <1>7 DEF CheckStaged, Goto, Shape, Pcs, InHand
  <2> QED
    BY <1>7, <2>1 DEF CheckStaged, Shape, InOrder, InHand, Read, Located, Made, Roles_
<1>8. CASE Evaluate(s)
  <2>1. pc[s] = "eval" /\ eval_closure_path(s) \in Closures
    BY <1>8, Evaluates DEF Evaluate
  <2> DEFINE c == eval_closure_path(s)
  <2>2. /\ _write_local_closure_memo(s, c) /\ _write_remote_closure_memo(s, c)
        /\ found' = [found EXCEPT ![s] = c] /\ Goto(s, "evaluated")
        /\ UNCHANGED <<edited, reading, staged, keys, needed, launched, stored>>
    BY <1>8 DEF Evaluate, store_cached_closure_path
  <2> HIDE DEF c
  <2>3. c \in Closures /\ c # None
    BY <2>1, NixAssumption DEF NixAssumption, c
  <2>4. /\ localMemo' \in [Machines -> Memo] /\ remoteMemo' \in [MemoStores -> Memo]
        /\ faults' \in 0..MaxFaults
    BY <2>1, <2>2, <2>3, MemoWrites, RemoteWrites
  <2>5. /\ found' \in [Submits -> Closures \union {None}] /\ found'[s] # None
        /\ pc' \in [Submits -> Pcs] /\ pc'[s] = "evaluated"
    BY <2>2, <2>3 DEF Goto, Shape, Pcs, InHand
  <2>6. Shape'
    BY <2>2, <2>4, <2>5 DEF Shape
  <2>7. InOrder(s)'
    BY <2>1, <2>2, <2>5 DEF InOrder, InHand, Read, Located, Made, Roles_
  <2> QED BY <2>6, <2>7
<1>9. CASE CheckHit(s)
  <2>1. CASE InStore(s) /\ Collect(s, TRUE)
             /\ UNCHANGED <<edited, reading, staged, launched, stored, memos, faults>>
    <3>1. pc[s] = "hit" /\ found' = found
      BY <1>9 DEF CheckHit
    <3>2. /\ keys' \in [Submits -> Seq(Keys)] /\ needed' \in [Submits -> Seq(Needs)]
          /\ pc' \in [Submits -> Pcs] /\ pc'[s] \in {"role", "raised"}
          /\ Len(keys'[s]) = Len(keys[s]) + 1 /\ Len(keys[s]) < Len(Roles_(s))
      BY <2>1, <3>1, Collects
    <3> QED BY <1>l, <2>1, <3>1, <3>2 DEF Shape, InOrder, InHand, Read, Located, Made, Roles_
  <2>2. CASE ~InStore(s) /\ Locate(s, "absent") /\ UNCHANGED <<keys, needed>>
    BY <1>9, <2>2, Locates DEF CheckHit, InOrder
  <2> QED BY <1>9, <2>1, <2>2 DEF CheckHit
<1>10. CASE CollectHit(s)
  <2>1. Collect(s, FALSE) /\ pc[s] = "absent"
        /\ UNCHANGED <<edited, reading, found, staged, launched, stored, memos, faults>>
    BY <1>10 DEF CollectHit
  <2>2. /\ keys' \in [Submits -> Seq(Keys)] /\ needed' \in [Submits -> Seq(Needs)]
        /\ pc' \in [Submits -> Pcs] /\ pc'[s] \in {"role", "raised"}
        /\ Len(keys'[s]) = Len(keys[s]) + 1 /\ Len(keys[s]) < Len(Roles_(s))
    BY <2>1, Collects
  <2> QED BY <1>l, <2>1, <2>2 DEF Shape, InOrder, InHand, Read, Located, Made, Roles_
<1>11. CASE CheckEvaluated(s)
  <2>1. Collect(s, InStore(s)) /\ InStore(s) \in BOOLEAN /\ pc[s] = "evaluated"
        /\ UNCHANGED <<edited, reading, found, launched, stored, memos, faults>>
    BY <1>11 DEF CheckEvaluated, InStore
  <2>2. /\ keys' \in [Submits -> Seq(Keys)] /\ needed' \in [Submits -> Seq(Needs)]
        /\ pc' \in [Submits -> Pcs] /\ pc'[s] \in {"role", "raised"}
        /\ Len(keys'[s]) = Len(keys[s]) + 1 /\ Len(keys[s]) < Len(Roles_(s))
    BY <2>1, Collects
  <2>3. /\ DOMAIN staged' = Submits
        /\ \A t \in Submits : /\ DOMAIN staged'[t] \subseteq Sources
                              /\ staged'[t] \in [DOMAIN staged'[t] -> Sources]
    <3> DEFINE rest == [d \in DOMAIN staged[s] \ {root[s]} |-> staged[s][d]]
    <3>1. staged' = staged \/ staged' = [staged EXCEPT ![s] = rest]
      BY <1>11 DEF CheckEvaluated
    <3>2. DOMAIN rest \subseteq Sources /\ rest \in [DOMAIN rest -> Sources]
      BY DEF Shape
    <3> HIDE DEF rest
    <3> QED BY <3>1, <3>2 DEF Shape
  <2> QED BY <1>l, <2>1, <2>2, <2>3 DEF Shape, InOrder, InHand, Read, Located, Made, Roles_
<1>12. CASE Raise(s)
  <2>1. faults' \in 0..MaxFaults
    BY <1>0, <1>12 DEF Raise, Fault, Shape
  <2>2. pc' \in [Submits -> Pcs] /\ pc'[s] = "raised"
    BY <1>12 DEF Raise, Goto, Shape, Pcs
  <2> QED
    BY <1>12, <2>1, <2>2 DEF Raise, Shape, InOrder, InHand, Read, Located, Made, Roles_
<1>13. CASE _inject_build_steps(s)
  <2>1. pc' \in [Submits -> Pcs] /\ pc'[s] = "render" /\ pc[s] = "inject"
    BY <1>13 DEF _inject_build_steps, Goto, Shape, Pcs, Made
  <2>2. DOMAIN builds' = Submits /\ DOMAIN depends' = Submits
    BY <1>13, Zenon DEF _inject_build_steps, Shape
  <2>4. \A t \in Submits : \A b \in DOMAIN builds'[t] : builds'[t][b].key \in Keys
    <3>1. \A t \in Submits \ {s} : builds'[t] = builds[t]
      BY <1>13, OthersStay DEF SubmitStep, SameFor
    <3>2. \A b \in DOMAIN builds'[s] : builds'[s][b].key \in Keys
      BY <1>13, Injects
    <3> QED BY <3>1, <3>2 DEF Shape
  <2>3. UNCHANGED <<edited, reading, found, staged, keys, needed, workflow, started,
                    stored, memos, faults>>
    BY <1>13 DEF _inject_build_steps
  <2> QED BY <2>1, <2>2, <2>3, <2>4 DEF Shape, InOrder, InHand, Read, Located, Made, Roles_
<1>14. CASE _resolve_nix_role(s)
  <2>1. pc' \in [Submits -> Pcs] /\ pc'[s] \in {"launched", "raised"} /\ pc[s] = "render"
    BY <1>14 DEF _resolve_nix_role, Goto, Shape, Pcs, Made
  <2>2. UNCHANGED <<edited, reading, found, staged, keys, needed, launched, stored, memos, faults>>
    BY <1>14 DEF _resolve_nix_role
  <2> QED BY <2>1, <2>2 DEF Shape, InOrder, InHand, Read, Located, Made, Roles_
<1> QED
  BY <1>1, <1>2, <1>3, <1>4, <1>5, <1>6, <1>7, <1>8, <1>9, <1>10, <1>11, <1>12, <1>13, <1>14
     DEF SubmitStep

LEMMA RunKeepsShape ==
  ASSUME Shape, NEW s \in Submits, InOrder(s), ClusterStep(s)
  PROVE  Shape' /\ InOrder(s)'
<1> USE DEF submit, reading, memos
<1>1. ASSUME NEW b \in DOMAIN builds[s], RunBuild(s, b) PROVE Shape' /\ InOrder(s)'
  <2>1. UNCHANGED <<submit, workflow, depends, started, memos>>
    BY <1>1 DEF RunBuild
  <2>2. DOMAIN builds' = Submits
    BY <1>1 DEF RunBuild, Shape
  <2>3. faults' \in 0..MaxFaults
    BY <1>1, NixAssumption DEF NixAssumption, RunBuild, Fault, Shape
  <2>4. InOrder(s)'
    BY <2>1 DEF InOrder, Roles_
  <2>5. pc[s] = "launched" /\ stored' \subseteq stored \union {builds[s][b].key}
    BY <1>1 DEF RunBuild
  <2>6. \A t \in Submits : \A a \in DOMAIN builds'[t] : builds'[t][a].key \in Keys
    <3>1. \E r \in {"failed", "succeeded"} : builds' = [builds EXCEPT ![s][b].status = r]
      BY <1>1 DEF RunBuild
    <3>2. ASSUME NEW t \in Submits, NEW a \in DOMAIN builds'[t]
          PROVE  a \in DOMAIN builds[t] /\ builds'[t][a].key = builds[t][a].key
      BY <3>1, <3>2 DEF Shape
    <3> QED BY <3>2 DEF Shape
  <2> QED BY <2>1, <2>2, <2>3, <2>4, <2>5, <2>6 DEF Shape
<1>2. ASSUME NEW x \in workflow[s].steps, StartStep(s, x) PROVE Shape' /\ InOrder(s)'
  BY <1>2 DEF StartStep, Shape, InOrder, Roles_
<1> QED BY <1>1, <1>2 DEF ClusterStep

LEMMA ShapeStep == Shape /\ InOrders /\ [Next]_vars => Shape' /\ InOrders'
<1> SUFFICES ASSUME Shape, InOrders, [Next]_vars PROVE Shape' /\ InOrders'
  OBVIOUS
<1>1. CASE UNCHANGED vars
  BY <1>1 DEF vars, submit, reading, launched, memos, Shape, InOrders, InOrder, Roles_
<1>2. CASE Next
  <2>1. PICK s \in Submits : SubmitStep(s) \/ ClusterStep(s)
    BY <1>2, NextSplits
  <2>2. InOrder(s)
    BY DEF InOrders
  <2>3. Shape' /\ InOrder(s)'
    BY <2>1, <2>2, SubmitKeepsShape, RunKeepsShape
  <2>4. workflow' = workflow /\ \A t \in Submits \ {s} : SameFor(t)
    BY <2>1, OthersStay
  <2>5. ASSUME NEW t \in Submits \ {s} PROVE InOrder(t)'
    BY <2>4 DEF SameFor, InOrders, InOrder, Roles_
  <2> QED BY <2>3, <2>5 DEF InOrders
<1> QED BY <1>1, <1>2

LEMMA ShapeIsTyped == Shape /\ InOrders => TypeOK
<1> SUFFICES ASSUME Shape, InOrders PROVE TypeOK
  OBVIOUS
<1>1. ASSUME NEW s \in Submits, NEW i \in DOMAIN needed[s]
      PROVE  needed[s][i].key \in Keys /\ needed[s][i].role \in Roles
  <2>1. needed[s][i] \in Needs
    BY <1>1 DEF Shape
  <2> QED BY <2>1 DEF Needs
<1>2. ASSUME NEW s \in Submits
      PROVE  /\ keys[s] \in Seq(Keys) /\ Len(keys[s]) <= Len(Roles_(s))
             /\ pc[s] \in {"hit", "absent", "evaluated"} => found[s] # None
             /\ pc[s] = "eval" => root[s] \in DOMAIN staged[s]
  BY DEF InOrders, InOrder, Shape
<1> QED BY <1>1, <1>2 DEF Shape, TypeOK, Pcs, InHand, Made, Memo

(***************************************************************************)
(* The type invariant of the submits, for every number of them, of         *)
(* machines, caches and faults.                                            *)
(***************************************************************************)
THEOREM NixTypes == Spec => []TypeOK
BY ShapeInit, ShapeStep, ShapeIsTyped, PTL DEF Spec

-----------------------------------------------------------------------------
(* ClosuresAreTheirs.                                                      *)

\* While nobody edits, the memos tell the truth of what they know, and what a
\* submit has read of the role in hand is what the role was when it began.
Unedited == \A s \in Submits : ~edited[s]
Right(memo) == \A k \in Sources \X Targets : memo[k] \in {None, Outputs[k]}
MemosAreRight ==
  (\A m \in Machines : Right(localMemo[m])) /\ (\A x \in MemoStores : Right(remoteMemo[x]))
ReadIsRight(s) ==
  /\ \A d \in DOMAIN staged[s] : staged[s][d] = d
  /\ pc[s] \in Read => /\ digest[s] = Role(s).source
                       /\ found[s] \in {None, Outputs[<<Role(s).source, Role(s).target>>]}
  /\ pc[s] \in Located => root[s] = Role(s).source
KeysAreRight(s) ==
  \A i \in DOMAIN keys[s] :
    LET r == Roles_(s)[i] IN keys[s][i] = <<Outputs[<<r.source, r.target>>], r.store>>
ClosureInv ==
  Unedited => MemosAreRight /\ \A s \in Submits : ReadIsRight(s) /\ KeysAreRight(s)

LEMMA ClosureInit == Init => ClosureInv
BY DEF Init, Empty, ClosureInv, MemosAreRight, Right, ReadIsRight, KeysAreRight, InHand, Read,
       Located

LEMMA RightWrite ==
  ASSUME NEW memo \in Memo, Right(memo), NEW k \in Sources \X Targets
  PROVE  Right([memo EXCEPT ![k] = Outputs[k]])
BY DEF Right, Memo

LEMMA LocalWriteIsRight ==
  ASSUME Shape, MemosAreRight, NEW s \in Submits, MemoKey(s) \in Sources \X Targets,
         _write_local_closure_memo(s, Outputs[MemoKey(s)])
  PROVE  \A m \in Machines : Right(localMemo'[m])
<1> DEFINE m == Machine[s]
           new == [localMemo[m] EXCEPT ![MemoKey(s)] = Outputs[MemoKey(s)]]
<1>1. m \in Machines /\ localMemo[m] \in Memo
  BY NixAssumption DEF NixAssumption, Shape
<1>2. Right(new)
  BY <1>1, RightWrite DEF MemosAreRight
<1>3. localMemo' = [localMemo EXCEPT ![m] = new]
  BY DEF _write_local_closure_memo
<1> HIDE DEF new, m
<1> QED BY <1>1, <1>2, <1>3 DEF Shape, MemosAreRight

LEMMA RemoteWriteIsRight ==
  ASSUME Shape, MemosAreRight, NEW s \in Submits, MemoKey(s) \in Sources \X Targets,
         _write_remote_closure_memo(s, Outputs[MemoKey(s)])
  PROVE  \A x \in MemoStores : Right(remoteMemo'[x])
<1> DEFINE x == Role(s).store
           new == [remoteMemo[x] EXCEPT ![MemoKey(s)] = Outputs[MemoKey(s)]]
<1>1. CASE remoteMemo' = remoteMemo
  BY <1>1 DEF MemosAreRight
<1>2. CASE x \in MemoStores /\ remoteMemo' = [remoteMemo EXCEPT ![x] = new]
  <2>1. remoteMemo[x] \in Memo
    BY <1>2 DEF Shape
  <2>2. Right(new)
    BY <1>2, <2>1, RightWrite DEF MemosAreRight
  <2> HIDE DEF new, x
  <2> QED BY <1>2, <2>2 DEF Shape, MemosAreRight
<1> QED BY <1>1, <1>2 DEF _write_remote_closure_memo, HasRemote

\* A closure found for the role in hand is kept under the role.
LEMMA CollectIsRight ==
  ASSUME Shape, NEW s \in Submits, InOrder(s), ReadIsRight(s), KeysAreRight(s),
         NEW inStore \in BOOLEAN, pc[s] \in {"hit", "absent", "evaluated"}, Collect(s, inStore),
         UNCHANGED workflow, \A d \in DOMAIN staged'[s] : staged'[s][d] = d
  PROVE  ReadIsRight(s)' /\ KeysAreRight(s)'
<1> DEFINE k == <<found[s], Role(s).store>>
<1>1. /\ keys'[s] = Append(keys[s], k) /\ pc'[s] \in {"role", "raised"}
      /\ Len(keys[s]) < Len(Roles_(s))
  BY Collects
<1>2. found[s] = Outputs[<<Role(s).source, Role(s).target>>]
  BY DEF InOrder, ReadIsRight, InHand, Read
<1>3. ReadIsRight(s)'
  BY <1>1 DEF ReadIsRight, InHand, Read, Located
<1>4. ASSUME NEW i \in DOMAIN keys'[s]
      PROVE  LET r == Roles_(s)[i] IN keys'[s][i] = <<Outputs[<<r.source, r.target>>], r.store>>
  <2>1. keys[s] \in Seq(Keys)
    BY DEF Shape
  <2>2. CASE i \in DOMAIN keys[s]
    BY <1>1, <2>1, <2>2 DEF KeysAreRight
  <2>3. CASE i = Len(keys[s]) + 1
    BY <1>1, <1>2, <2>1, <2>3 DEF Role
  <2>4. i \in 1..(Len(keys[s]) + 1)
    BY <1>1, <2>1
  <2> QED BY <2>1, <2>2, <2>3, <2>4
<1>5. Roles_(s)' = Roles_(s)
  BY DEF Roles_
<1>6. KeysAreRight(s)'
  BY <1>4, <1>5 DEF KeysAreRight
<1> QED BY <1>3, <1>6

LEMMA LocateIsRight ==
  ASSUME Shape, NEW s \in Submits, ~edited[s], pc[s] \in {"hit", "miss"}, ReadIsRight(s),
         NEW next \in {"absent", "staged"}, Locate(s, next), UNCHANGED <<found, keys, needed>>
  PROVE  ReadIsRight(s)'
<1>1. root'[s] = Role(s).source
  BY DEF Locate, Source, Shape
<1>2. UNCHANGED <<staged, digest, found, keys, workflow>>
  BY DEF Locate, launched
<1>3. Role(s)' = Role(s)
  BY <1>2 DEF Role, Roles_
<1> QED BY <1>1, <1>2, <1>3 DEF ReadIsRight, InHand, Read

LEMMA SubmitIsRight ==
  ASSUME Shape, NEW s \in Submits, InOrder(s), SubmitStep(s), ~edited[s], ~edited'[s],
         MemosAreRight, ReadIsRight(s), KeysAreRight(s)
  PROVE  MemosAreRight' /\ ReadIsRight(s)' /\ KeysAreRight(s)'
<1> USE DEF launched, reading, memos
<1>0. Source(s) = Role(s).source
  BY DEF Source
<1>1. CASE Edit(s)
  BY <1>1 DEF Edit, Shape
<1>2. CASE NextRole(s)
  <2>1. pc'[s] \notin Read /\ pc'[s] \notin Located
    BY <1>2 DEF NextRole, Goto, Shape, InHand, Read, Located
  <2> QED BY <1>2, <2>1 DEF NextRole, MemosAreRight, ReadIsRight, KeysAreRight, Roles_, Role
<1>3. CASE fingerprint_nix_source_tree(s)
  <2>1. /\ pc'[s] = "lookup" /\ digest'[s] = Role(s).source /\ found'[s] = None
        /\ UNCHANGED <<staged, keys, workflow, localMemo, remoteMemo>>
    BY <1>0, <1>3 DEF fingerprint_nix_source_tree, Goto, Shape
  <2>2. Role(s)' = Role(s) /\ Roles_(s)' = Roles_(s)
    BY <2>1 DEF Role, Roles_
  <2>3. ReadIsRight(s)'
    BY <2>1, <2>2 DEF ReadIsRight, Located
  <2> QED BY <2>1, <2>2, <2>3 DEF MemosAreRight, KeysAreRight
<1>4. CASE lookup_cached_closure_path(s)
  <2>1. /\ Len(keys[s]) < Len(Roles_(s)) /\ MemoKey(s) \in Sources \X Targets
        /\ MemoKey(s) = <<Role(s).source, Role(s).target>> /\ digest[s] = Role(s).source
    BY <1>4, RoleInHand DEF lookup_cached_closure_path, InOrder, InHand, Read, MemoKey,
       ReadIsRight
  <2>2. /\ UNCHANGED <<edited, reading, staged, keys, needed, launched, stored, remoteMemo>>
        /\ pc[s] = "lookup"
    BY <1>4 DEF lookup_cached_closure_path
  <2> DEFINE here == _read_local_closure_memo(s)
             there == _read_remote_closure_memo(s)
             c == Outputs[MemoKey(s)]
  <2>3. here \in {None, c} /\ there \in {None, c}
    BY <2>1, NixAssumption DEF NixAssumption, MemosAreRight, Right, _read_local_closure_memo,
       _read_remote_closure_memo, HasRemote
  <2>4. /\ found'[s] = found[s] \/ found'[s] = c
        /\ localMemo' = localMemo \/ _write_local_closure_memo(s, c)
        /\ pc'[s] \in {"hit", "miss"}
    <3> HIDE DEF here, there, c
    <3>1. CASE /\ Usable(here) /\ found' = [found EXCEPT ![s] = here] /\ Goto(s, "hit")
               /\ UNCHANGED <<localMemo, faults>>
      BY <2>3, <3>1 DEF Usable, Goto, Shape
    <3>2. CASE /\ Usable(there) /\ found' = [found EXCEPT ![s] = there] /\ Goto(s, "hit")
               /\ _write_local_closure_memo(s, there) /\ UNCHANGED faults
      <4>1. there = c
        BY <2>3, <3>2 DEF Usable
      <4> QED BY <3>2, <4>1 DEF Goto, Shape
    <3>3. CASE Goto(s, "miss") /\ UNCHANGED <<found, localMemo>>
      BY <3>3 DEF Goto, Shape
    <3> QED BY <1>4, <3>1, <3>2, <3>3 DEF lookup_cached_closure_path, here, there
  <2>5. MemosAreRight'
    BY <2>1, <2>2, <2>4, LocalWriteIsRight DEF MemosAreRight
  <2>6. Role(s)' = Role(s) /\ Roles_(s)' = Roles_(s)
    BY <2>2 DEF Role, Roles_
  <2>7. ReadIsRight(s)'
    BY <2>1, <2>2, <2>4, <2>6 DEF ReadIsRight, InHand, Read, Located
  <2> QED BY <2>2, <2>5, <2>6, <2>7 DEF KeysAreRight
<1>5. CASE Materialize(s)
  <2>1. ReadIsRight(s)'
    BY <1>5, LocateIsRight DEF Materialize
  <2> QED BY <1>5, <2>1 DEF Materialize, Locate, MemosAreRight, KeysAreRight, Roles_
<1>6. CASE copy_filtered(s)
  <2> DEFINE new == [d \in DOMAIN staged[s] \union {root[s]} |->
                       IF d = root[s] THEN Source(s) ELSE staged[s][d]]
  <2>1. root[s] = Role(s).source /\ pc[s] = "copy"
    BY <1>6 DEF copy_filtered, ReadIsRight, Located
  <2>2. \A d \in DOMAIN new : new[d] = d
    BY <1>0, <2>1 DEF ReadIsRight
  <2>3. staged' = [staged EXCEPT ![s] = new]
    BY <1>6 DEF copy_filtered
  <2> HIDE DEF new
  <2>4. staged'[s] = new
    BY <2>3 DEF Shape
  <2>5. UNCHANGED <<digest, root, found, keys, workflow, localMemo, remoteMemo>>
    BY <1>6 DEF copy_filtered
  <2>6. Role(s)' = Role(s) /\ Roles_(s)' = Roles_(s)
    BY <2>5 DEF Role, Roles_
  <2>7. ReadIsRight(s)'
    BY <2>1, <2>2, <2>4, <2>5, <2>6 DEF ReadIsRight, InHand, Read
  <2> QED BY <2>5, <2>6, <2>7 DEF MemosAreRight, KeysAreRight
<1>7. CASE CheckStaged(s)
  <2>1. /\ pc[s] = "staged"
        /\ UNCHANGED <<digest, root, found, staged, keys, workflow, localMemo, remoteMemo>>
    BY <1>7 DEF CheckStaged
  <2>2. Role(s)' = Role(s) /\ Roles_(s)' = Roles_(s)
    BY <2>1 DEF Role, Roles_
  <2>3. ReadIsRight(s)'
    BY <2>1, <2>2 DEF ReadIsRight, InHand, Read, Located
  <2> QED BY <2>1, <2>2, <2>3 DEF MemosAreRight, KeysAreRight
<1>8. CASE Evaluate(s)
  <2>1. /\ pc[s] = "eval" /\ pc'[s] = "evaluated"
        /\ UNCHANGED <<digest, root, staged, keys, workflow>>
    BY <1>8 DEF Evaluate, Goto, Shape
  <2>2. /\ Len(keys[s]) < Len(Roles_(s)) /\ MemoKey(s) \in Sources \X Targets
        /\ MemoKey(s) = <<Role(s).source, Role(s).target>> /\ digest[s] = Role(s).source
    BY <2>1, RoleInHand DEF InOrder, InHand, Read, MemoKey, ReadIsRight
  <2>3. eval_closure_path(s) = Outputs[MemoKey(s)]
    BY <2>1, <2>2 DEF InOrder, ReadIsRight, Located, eval_closure_path
  <2>4. /\ _write_local_closure_memo(s, Outputs[MemoKey(s)])
        /\ _write_remote_closure_memo(s, Outputs[MemoKey(s)])
        /\ found'[s] = Outputs[MemoKey(s)]
    BY <1>8, <2>3 DEF Evaluate, store_cached_closure_path, Shape
  <2>5. MemosAreRight'
    BY <2>2, <2>4, LocalWriteIsRight, RemoteWriteIsRight DEF MemosAreRight
  <2>6. Role(s)' = Role(s) /\ Roles_(s)' = Roles_(s)
    BY <2>1 DEF Role, Roles_
  <2>7. ReadIsRight(s)'
    BY <2>1, <2>2, <2>4, <2>6 DEF ReadIsRight, Located
  <2> QED BY <2>1, <2>5, <2>6, <2>7 DEF KeysAreRight
<1>9. CASE CheckHit(s)
  <2>1. CASE InStore(s) /\ Collect(s, TRUE)
             /\ UNCHANGED <<edited, reading, staged, launched, stored, memos, faults>>
    BY <1>9, <2>1, CollectIsRight DEF CheckHit, MemosAreRight, ReadIsRight
  <2>2. CASE ~InStore(s) /\ Locate(s, "absent") /\ UNCHANGED <<keys, needed>>
    <3>1. ReadIsRight(s)'
      BY <1>9, <2>2, LocateIsRight DEF CheckHit
    <3> QED BY <2>2, <3>1 DEF Locate, MemosAreRight, KeysAreRight, Roles_
  <2> QED BY <1>9, <2>1, <2>2 DEF CheckHit
<1>10. CASE CollectHit(s)
  BY <1>10, CollectIsRight DEF CollectHit, MemosAreRight, ReadIsRight
<1>11. CASE CheckEvaluated(s)
  <2>1. Collect(s, InStore(s)) /\ InStore(s) \in BOOLEAN /\ pc[s] = "evaluated"
        /\ UNCHANGED <<edited, reading, found, launched, stored, memos, faults>>
    BY <1>11 DEF CheckEvaluated, InStore
  <2>2. \A d \in DOMAIN staged'[s] : staged'[s][d] = d
    <3> DEFINE rest == [d \in DOMAIN staged[s] \ {root[s]} |-> staged[s][d]]
    <3>1. staged' = staged \/ staged' = [staged EXCEPT ![s] = rest]
      BY <1>11 DEF CheckEvaluated
    <3>2. \A d \in DOMAIN rest : rest[d] = d
      BY DEF ReadIsRight
    <3> HIDE DEF rest
    <3> QED BY <3>1, <3>2 DEF Shape, ReadIsRight
  <2> QED BY <2>1, <2>2, CollectIsRight DEF MemosAreRight
<1>12. CASE Raise(s)
  <2>1. pc'[s] = "raised"
    BY <1>12 DEF Raise, Goto, Shape
  <2> QED BY <1>12, <2>1 DEF Raise, MemosAreRight, ReadIsRight, KeysAreRight, Roles_, Role,
          InHand, Read, Located
<1>13. CASE _inject_build_steps(s)
  <2>1. pc'[s] = "render" /\ UNCHANGED <<staged, keys, workflow, localMemo, remoteMemo>>
    BY <1>13 DEF _inject_build_steps, Goto, Shape
  <2> QED BY <2>1 DEF MemosAreRight, ReadIsRight, KeysAreRight, Roles_, Role, InHand, Read, Located
<1>14. CASE _resolve_nix_role(s)
  <2>1. /\ pc'[s] \in {"launched", "raised"}
        /\ UNCHANGED <<staged, keys, workflow, localMemo, remoteMemo>>
    BY <1>14 DEF _resolve_nix_role, Goto, Shape
  <2> QED BY <2>1 DEF MemosAreRight, ReadIsRight, KeysAreRight, Roles_, Role, InHand, Read, Located
<1> QED
  BY <1>1, <1>2, <1>3, <1>4, <1>5, <1>6, <1>7, <1>8, <1>9, <1>10, <1>11, <1>12, <1>13, <1>14
     DEF SubmitStep

LEMMA RunIsRight ==
  ASSUME Shape, NEW s \in Submits, ClusterStep(s), MemosAreRight, ReadIsRight(s), KeysAreRight(s)
  PROVE  MemosAreRight' /\ ReadIsRight(s)' /\ KeysAreRight(s)'
<1>1. UNCHANGED <<pc, digest, root, found, staged, keys, workflow, localMemo, remoteMemo>>
  BY DEF ClusterStep, RunBuild, StartStep, submit, reading, memos
<1> QED BY <1>1 DEF MemosAreRight, ReadIsRight, KeysAreRight, Role, Roles_

\* An edit stays made.
LEMMA EditStays ==
  ASSUME Shape, NEW s \in Submits, SubmitStep(s) \/ ClusterStep(s), edited[s]
  PROVE  edited'[s]
<1>1. edited' = edited \/ Edit(s)
  BY DEF SubmitStep, ClusterStep, NextRole, fingerprint_nix_source_tree, lookup_cached_closure_path,
     Materialize, Locate, copy_filtered, CheckStaged, Evaluate, CheckHit, CollectHit,
     CheckEvaluated, Raise, _inject_build_steps, _resolve_nix_role, RunBuild, StartStep, submit
<1> QED BY <1>1 DEF Edit

LEMMA ClosureStep ==
  Shape /\ InOrders /\ ClosureInv /\ [Next]_vars => ClosureInv'
<1> SUFFICES ASSUME Shape, InOrders, ClosureInv, [Next]_vars, Unedited' PROVE
      (MemosAreRight /\ \A s \in Submits : ReadIsRight(s) /\ KeysAreRight(s))'
  BY DEF ClosureInv
<1>1. CASE UNCHANGED vars
  <2>1. Unedited
    BY <1>1 DEF vars, submit, Unedited
  <2> QED BY <1>1, <2>1 DEF ClosureInv, vars, submit, reading, launched, memos, MemosAreRight,
          ReadIsRight, KeysAreRight, Role, Roles_
<1>2. CASE Next
  <2>1. PICK s \in Submits : SubmitStep(s) \/ ClusterStep(s)
    BY <1>2, NextSplits
  <2>2. workflow' = workflow /\ \A t \in Submits \ {s} : SameFor(t)
    BY <2>1, OthersStay
  <2>3. Unedited /\ ~edited[s] /\ ~edited'[s]
    BY <2>1, <2>2, EditStays DEF Unedited, SameFor
  <2>4. MemosAreRight /\ \A t \in Submits : ReadIsRight(t) /\ KeysAreRight(t)
    BY <2>3 DEF ClosureInv
  <2>5. MemosAreRight' /\ ReadIsRight(s)' /\ KeysAreRight(s)'
    BY <2>1, <2>3, <2>4, SubmitIsRight, RunIsRight DEF InOrders
  <2>6. ASSUME NEW t \in Submits \ {s} PROVE ReadIsRight(t)' /\ KeysAreRight(t)'
    <3>1. /\ pc'[t] = pc[t] /\ digest'[t] = digest[t] /\ root'[t] = root[t]
          /\ found'[t] = found[t] /\ staged'[t] = staged[t] /\ keys'[t] = keys[t]
      BY <2>2 DEF SameFor
    <3>2. Roles_(t)' = Roles_(t) /\ Role(t)' = Role(t)
      BY <2>2, <3>1 DEF Role, Roles_
    <3>3. ReadIsRight(t)'
      BY <2>4, <3>1, <3>2 DEF ReadIsRight
    <3>4. KeysAreRight(t)'
      BY <2>4, <3>1, <3>2 DEF KeysAreRight
    <3> QED BY <3>3, <3>4
  <2> QED BY <2>5, <2>6
<1> QED BY <1>1, <1>2

(***************************************************************************)
(* ClosuresAreTheirs: whatever memos other submits wrote, on this machine  *)
(* or beside a shared store, and whatever failed, a role whose code nobody *)
(* edited is resolved to what nix makes of its own source and target.      *)
(***************************************************************************)
THEOREM ClosuresOfTheirOwn == Spec => []ClosuresAreTheirs
<1>1. ClosureInv => ClosuresAreTheirs
  BY DEF ClosureInv, Unedited, KeysAreRight, ClosuresAreTheirs
<1> QED BY <1>1, ShapeInit, ShapeStep, ClosureInit, ClosureStep, PTL DEF Spec

-----------------------------------------------------------------------------
(* ConsumersAreSupplied and BuildsAreWired.                                *)

\* A queue of builds has the key.
Ordered(q, k) == \E n \in DOMAIN q : q[n].key = k

\* A role done with has its closure in the store, or has it built.
KeysAreMet(s) ==
  \A i \in DOMAIN keys[s] :
    keys[s][i] \in stored \/ (Roles_(s)[i].build /\ Ordered(needed[s], keys[s][i]))

\* What is to be built is built once, with leave, and for some role.
NeedsAreOne(s) ==
  /\ \A m, n \in DOMAIN needed[s] : needed[s][m].key = needed[s][n].key => m = n
  /\ \A n \in DOMAIN needed[s] :
       /\ needed[s][n].role.build
       /\ \E i \in DOMAIN keys[s] : keys[s][i] = needed[s][n].key

\* The build steps are those of needed_builds; one that succeeded has pushed.
Wired(s) ==
  LET names == NamesOf(needed[s], workflow[s].steps)
  IN  /\ DOMAIN builds[s] = {names[n] : n \in DOMAIN needed[s]}
      /\ \A n \in DOMAIN needed[s] :
           /\ builds[s][names[n]].key = needed[s][n].key
           /\ builds[s][names[n]].consent = needed[s][n].role.build
           /\ builds[s][names[n]].status = "succeeded" => needed[s][n].key \in stored
      /\ \A x \in workflow[s].steps : depends[s][x] = Awaited(s, x, names)

Supplied(s) ==
  /\ started[s] # {} => pc[s] = "launched"
  /\ \A i \in DOMAIN Roles_(s) : Roles_(s)[i].step \in started[s] => keys[s][i] \in stored

SupplyInv(s) ==
  /\ pc[s] # "raised" => KeysAreMet(s)
  /\ NeedsAreOne(s)
  /\ pc[s] \in Made => Wired(s)
  /\ Supplied(s)
SupplyInvs == \A s \in Submits : SupplyInv(s)

LEMMA SupplyInit == Init => SupplyInvs
<1> SUFFICES ASSUME Init, NEW s \in Submits PROVE SupplyInv(s)
  BY DEF SupplyInvs
<1>1. pc[s] = "role" /\ keys[s] = <<>> /\ needed[s] = <<>> /\ started[s] = {}
  BY DEF Init
<1> QED BY <1>1 DEF SupplyInv, KeysAreMet, NeedsAreOne, Supplied, Made

\* What others push and what a submit reads take nothing from it.
LEMMA SupplyStays ==
  ASSUME NEW s \in Submits, SupplyInv(s), workflow' = workflow, stored \subseteq stored',
         keys'[s] = keys[s], needed'[s] = needed[s], started'[s] = started[s],
         \/ pc'[s] = pc[s] /\ builds'[s] = builds[s] /\ depends'[s] = depends[s]
         \/ pc'[s] \notin Made /\ pc[s] \notin {"launched", "raised"}
  PROVE  SupplyInv(s)'
<1>0. Roles_(s)' = Roles_(s)
  BY DEF Roles_
<1>1. pc'[s] # "raised" => KeysAreMet(s)'
  <2>1. ASSUME pc'[s] # "raised" PROVE KeysAreMet(s)
    BY <2>1 DEF SupplyInv
  <2> QED BY <1>0, <2>1 DEF KeysAreMet, Ordered
<1>2. NeedsAreOne(s)'
  BY DEF SupplyInv, NeedsAreOne
<1>3. ASSUME pc'[s] \in Made PROVE Wired(s)'
  <2>1. Wired(s) /\ builds'[s] = builds[s] /\ depends'[s] = depends[s]
    BY <1>3 DEF SupplyInv
  <2> DEFINE names == NamesOf(needed[s], workflow[s].steps)
  <2>2. names' = names
    OBVIOUS
  <2>3. /\ DOMAIN builds[s] = {names[n] : n \in DOMAIN needed[s]}
        /\ \A n \in DOMAIN needed[s] :
             /\ builds[s][names[n]].key = needed[s][n].key
             /\ builds[s][names[n]].consent = needed[s][n].role.build
             /\ builds[s][names[n]].status = "succeeded" => needed[s][n].key \in stored
        /\ \A x \in workflow[s].steps : depends[s][x] = Awaited(s, x, names)
    BY <2>1 DEF Wired
  <2>4. \A x \in workflow[s].steps : Awaited(s, x, names)' = Awaited(s, x, names)
    BY <1>0, <2>2 DEF Awaited
  <2> HIDE DEF names
  <2>5. /\ DOMAIN builds'[s] = {names[n] : n \in DOMAIN needed'[s]}
        /\ \A n \in DOMAIN needed'[s] :
             /\ builds'[s][names[n]].key = needed'[s][n].key
             /\ builds'[s][names[n]].consent = needed'[s][n].role.build
             /\ builds'[s][names[n]].status = "succeeded" => needed'[s][n].key \in stored'
        /\ \A x \in workflow'[s].steps : depends'[s][x] = Awaited(s, x, names)
    BY <2>1, <2>3
  <2> QED BY <2>2, <2>4, <2>5 DEF Wired, names
<1>4. Supplied(s)'
  BY <1>0 DEF SupplyInv, Supplied
<1> QED BY <1>1, <1>2, <1>3, <1>4 DEF SupplyInv

LEMMA SupplyCollects ==
  ASSUME Shape, NEW s \in Submits, InOrder(s), SupplyInv(s), NEW inStore \in BOOLEAN,
         pc[s] \in {"hit", "absent", "evaluated"}, Collect(s, inStore),
         inStore => InStore(s), UNCHANGED <<launched, stored>>
  PROVE  SupplyInv(s)'
<1> DEFINE k == <<found[s], Role(s).store>>
           len == Len(keys[s])
           more == [key |-> k, digest |-> digest[s], role |-> Role(s)]
<1>1. /\ keys'[s] = Append(keys[s], k) /\ pc'[s] \in {"role", "raised"} /\ len < Len(Roles_(s))
      /\ needed'[s] \in Seq(Needs)
  BY Collects
<1>2. keys[s] \in Seq(Keys) /\ needed[s] \in Seq(Needs) /\ Roles_(s)' = Roles_(s)
  BY DEF Shape, Roles_, launched
<1>3. KeysAreMet(s) /\ NeedsAreOne(s) /\ Supplied(s) /\ started[s] = {}
  BY DEF SupplyInv, Supplied
<1>4. Roles_(s)[len + 1] = Role(s)
  BY DEF Role
<1>5. Scheduled(s, k) <=> Ordered(needed[s], k)
  BY DEF Scheduled, SameBuild, Ordered
<1>6. /\ \/ needed'[s] = needed[s]
         \/ needed'[s] = Append(needed[s], more) /\ ~Ordered(needed[s], k) /\ Role(s).build
      /\ \/ pc'[s] = "raised"
         \/ k \in stored
         \/ Role(s).build /\ (needed'[s] = Append(needed[s], more) \/ Ordered(needed[s], k))
  <2>1. CASE inStore /\ UNCHANGED needed
    BY <2>1 DEF InStore
  <2>2. CASE ~inStore /\ ~Role(s).build /\ Goto(s, "raised") /\ UNCHANGED needed
    BY <2>2 DEF Goto, Shape
  <2>3. CASE /\ ~inStore /\ Role(s).build
             /\ needed' = IF Scheduled(s, k) THEN needed
                          ELSE [needed EXCEPT ![s] = Append(needed[s], more)]
    <3>1. CASE Scheduled(s, k)
      BY <2>3, <3>1, <1>5
    <3>2. CASE ~Scheduled(s, k)
      <4>1. needed' = [needed EXCEPT ![s] = Append(needed[s], more)]
        BY <2>3, <3>2
      <4> HIDE DEF more
      <4>2. needed'[s] = Append(needed[s], more)
        BY <4>1 DEF Shape
      <4> QED BY <2>3, <3>2, <4>2, <1>5
    <3> QED BY <3>1, <3>2
  <2> QED BY <2>1, <2>2, <2>3 DEF Collect
<1> HIDE DEF k, more
<1>7. more.key = k /\ more.role = Role(s)
  BY DEF more
\* needed only grows.
<1>8. /\ DOMAIN needed[s] \subseteq DOMAIN needed'[s]
      /\ \A n \in DOMAIN needed[s] : needed'[s][n] = needed[s][n]
      /\ \A n \in DOMAIN needed'[s] \ DOMAIN needed[s] :
           /\ needed'[s][n] = more /\ n = Len(needed[s]) + 1
           /\ ~Ordered(needed[s], k) /\ Role(s).build
      /\ needed'[s] = Append(needed[s], more) =>
           \E n \in DOMAIN needed'[s] : needed'[s][n] = more
  <2>1. CASE needed'[s] = needed[s] /\ needed'[s] # Append(needed[s], more)
    BY <2>1
  <2>2. CASE needed'[s] = Append(needed[s], more) /\ ~Ordered(needed[s], k) /\ Role(s).build
    <3>1. DOMAIN needed'[s] = 1..(Len(needed[s]) + 1) /\ DOMAIN needed[s] = 1..Len(needed[s])
      BY <1>2, <2>2
    <3>2. \A n \in DOMAIN needed[s] : needed'[s][n] = needed[s][n]
      BY <1>2, <2>2, <3>1
    <3>3. needed'[s][Len(needed[s]) + 1] = more
      BY <1>2, <2>2
    <3>4. Len(needed[s]) \in Nat
      BY <1>2
    <3> QED BY <2>2, <3>1, <3>2, <3>3, <3>4
  <2>3. CASE needed'[s] = needed[s] /\ needed'[s] = Append(needed[s], more)
    <3>1. Len(Append(needed[s], more)) = Len(needed[s]) + 1 /\ Len(needed[s]) \in Nat
      BY <1>2
    <3> QED BY <2>3, <3>1
  <2> QED BY <1>6, <2>1, <2>2, <2>3
<1>9. /\ DOMAIN keys'[s] = DOMAIN keys[s] \union {len + 1}
      /\ \A i \in DOMAIN keys[s] : keys'[s][i] = keys[s][i]
      /\ keys'[s][len + 1] = k
  BY <1>1, <1>2
<1>10. ASSUME pc'[s] # "raised" PROVE KeysAreMet(s)'
  <2> SUFFICES ASSUME NEW i \in DOMAIN keys'[s]
               PROVE  \/ keys'[s][i] \in stored
                      \/ Roles_(s)[i].build /\ Ordered(needed'[s], keys'[s][i])
    BY <1>2 DEF KeysAreMet
  <2>1. CASE i \in DOMAIN keys[s]
    <3>1. keys[s][i] \in stored \/ (Roles_(s)[i].build /\ Ordered(needed[s], keys[s][i]))
      BY <2>1, <1>3 DEF KeysAreMet
    <3> QED BY <2>1, <3>1, <1>8, <1>9 DEF Ordered
  <2>2. CASE i = len + 1
    <3>1. k \in stored \/ (Role(s).build /\ Ordered(needed'[s], k))
      BY <1>6, <1>7, <1>8, <1>10 DEF Ordered
    <3> QED BY <2>2, <3>1, <1>4, <1>9
  <2> QED BY <2>1, <2>2, <1>9
<1>11. NeedsAreOne(s)'
  <2>1. ASSUME NEW m \in DOMAIN needed'[s], NEW n \in DOMAIN needed'[s],
               needed'[s][m].key = needed'[s][n].key
        PROVE  m = n
    BY <2>1, <1>3, <1>7, <1>8 DEF NeedsAreOne, Ordered
  <2>2. ASSUME NEW n \in DOMAIN needed'[s]
        PROVE  needed'[s][n].role.build /\ \E i \in DOMAIN keys'[s] : keys'[s][i] = needed'[s][n].key
    BY <1>3, <1>7, <1>8, <1>9 DEF NeedsAreOne
  <2> QED BY <2>1, <2>2 DEF NeedsAreOne
<1>12. Supplied(s)'
  BY <1>3 DEF Supplied, launched
<1> QED BY <1>1, <1>10, <1>11, <1>12 DEF SupplyInv, Made

LEMMA SupplyInjects ==
  ASSUME Shape, NEW s \in Submits, SupplyInv(s), _inject_build_steps(s)
  PROVE  SupplyInv(s)'
<1> DEFINE names == NamesOf(needed[s], workflow[s].steps)
<1>1. /\ pc[s] = "inject" /\ pc'[s] = "render"
      /\ UNCHANGED <<keys, needed, workflow, started, stored>>
  BY DEF _inject_build_steps, Goto, Shape
<1>2. Roles_(s)' = Roles_(s) /\ started[s] = {}
  BY <1>1 DEF Roles_, SupplyInv, Supplied
<1>3. KeysAreMet(s)' /\ NeedsAreOne(s)' /\ Supplied(s)'
  BY <1>1, <1>2 DEF SupplyInv, KeysAreMet, NeedsAreOne, Supplied, Ordered
<1>4. /\ DOMAIN builds'[s] = {names[n] : n \in DOMAIN needed[s]}
      /\ \A n \in DOMAIN needed[s] : builds'[s][names[n]] = _make_build_step(needed[s][n])
      /\ \A x \in workflow[s].steps : depends'[s][x] = Awaited(s, x, names)
  BY Injects
<1>5. names' = names
  BY <1>1
<1>6. \A x \in workflow[s].steps : Awaited(s, x, names)' = Awaited(s, x, names)
  BY <1>1, <1>2, <1>5 DEF Awaited
<1> HIDE DEF names
<1>7. ASSUME NEW n \in DOMAIN needed[s]
      PROVE  /\ builds'[s][names[n]].key = needed[s][n].key
             /\ builds'[s][names[n]].consent = needed[s][n].role.build
             /\ builds'[s][names[n]].status # "succeeded"
  <2>1. builds'[s][names[n]] = _make_build_step(needed[s][n])
    BY <1>4
  <2>2. /\ _make_build_step(needed[s][n]).key = needed[s][n].key
        /\ _make_build_step(needed[s][n]).consent = needed[s][n].role.build
        /\ _make_build_step(needed[s][n]).status = "waiting"
    BY DEF _make_build_step
  <2> QED BY <2>1, <2>2
<1>8. Wired(s)'
  BY <1>1, <1>4, <1>5, <1>6, <1>7 DEF Wired, names
<1> QED BY <1>1, <1>3, <1>8 DEF SupplyInv

LEMMA SupplyRenders ==
  ASSUME Shape, NEW s \in Submits, SupplyInv(s), _resolve_nix_role(s)
  PROVE  SupplyInv(s)'
<1>1. /\ pc[s] = "render" /\ pc'[s] \in {"launched", "raised"}
      /\ UNCHANGED <<keys, needed, workflow, builds, depends, started, stored>>
  BY DEF _resolve_nix_role, Goto, Shape, launched
<1>2. KeysAreMet(s) /\ NeedsAreOne(s) /\ Wired(s) /\ Supplied(s) /\ started[s] = {}
  BY <1>1 DEF SupplyInv, Supplied, Made
<1>3. Roles_(s)' = Roles_(s)
  BY <1>1 DEF Roles_
<1>4. KeysAreMet(s)' /\ NeedsAreOne(s)' /\ Supplied(s)'
  BY <1>1, <1>2, <1>3 DEF KeysAreMet, NeedsAreOne, Supplied, Ordered
<1>5. Wired(s)'
  BY <1>1, <1>2, <1>3 DEF Wired, Awaited
<1> QED BY <1>1, <1>4, <1>5 DEF SupplyInv

LEMMA SupplyBuilds ==
  ASSUME Shape, NEW s \in Submits, SupplyInv(s), NEW b \in DOMAIN builds[s], RunBuild(s, b)
  PROVE  SupplyInv(s)'
<1> DEFINE names == NamesOf(needed[s], workflow[s].steps)
<1>1. /\ pc[s] = "launched"
      /\ UNCHANGED <<pc, keys, needed, workflow, depends, started>>
      /\ stored \subseteq stored'
  BY DEF RunBuild, submit
<1>2. KeysAreMet(s) /\ NeedsAreOne(s) /\ Wired(s) /\ Supplied(s)
  BY <1>1 DEF SupplyInv, Made
<1>3. Roles_(s)' = Roles_(s)
  BY <1>1 DEF Roles_
<1>4. KeysAreMet(s)' /\ NeedsAreOne(s)' /\ Supplied(s)'
  BY <1>1, <1>2, <1>3 DEF KeysAreMet, NeedsAreOne, Supplied, Ordered
<1>5. \E r \in {"succeeded", "failed"} :
        /\ builds' = [builds EXCEPT ![s] = [builds[s] EXCEPT ![b] = [builds[s][b] EXCEPT !.status = r]]]
        /\ r = "succeeded" => builds[s][b].key \in stored'
  BY DEF RunBuild
<1>6. /\ DOMAIN builds'[s] = DOMAIN builds[s]
      /\ \A a \in DOMAIN builds[s] :
           /\ builds'[s][a].key = builds[s][a].key /\ builds'[s][a].consent = builds[s][a].consent
           /\ \/ builds'[s][a].status = "succeeded" => builds[s][a].status = "succeeded"
              \/ builds[s][a].key \in stored'
  <2>1. PICK r \in {"succeeded", "failed"} :
          /\ builds' = [builds EXCEPT ![s] = [builds[s] EXCEPT ![b] = [builds[s][b] EXCEPT !.status = r]]]
          /\ r = "succeeded" => builds[s][b].key \in stored'
    BY <1>5
  <2> DEFINE done == [builds[s][b] EXCEPT !.status = r]
  <2>2. builds'[s] = [builds[s] EXCEPT ![b] = done]
    BY <2>1 DEF Shape
  <2>3. done.key = builds[s][b].key /\ done.consent = builds[s][b].consent
        /\ (done.status = "succeeded" => r = "succeeded")
    OBVIOUS
  <2> HIDE DEF done
  <2> QED BY <2>1, <2>2, <2>3
<1>7. names' = names
  BY <1>1
<1>8. \A x \in workflow[s].steps : Awaited(s, x, names)' = Awaited(s, x, names)
  BY <1>1, <1>3, <1>7 DEF Awaited
<1>9. /\ DOMAIN builds[s] = {names[n] : n \in DOMAIN needed[s]}
      /\ \A n \in DOMAIN needed[s] :
           /\ builds[s][names[n]].key = needed[s][n].key
           /\ builds[s][names[n]].consent = needed[s][n].role.build
           /\ builds[s][names[n]].status = "succeeded" => needed[s][n].key \in stored
      /\ \A x \in workflow[s].steps : depends[s][x] = Awaited(s, x, names)
  BY <1>2 DEF Wired
<1> HIDE DEF names
<1>10. ASSUME NEW n \in DOMAIN needed[s]
       PROVE  /\ builds'[s][names[n]].key = needed[s][n].key
              /\ builds'[s][names[n]].consent = needed[s][n].role.build
              /\ builds'[s][names[n]].status = "succeeded" => needed[s][n].key \in stored'
  <2>1. names[n] \in DOMAIN builds[s]
    BY <1>9
  <2> QED BY <2>1, <1>1, <1>6, <1>9
<1>11. Wired(s)'
  BY <1>1, <1>6, <1>7, <1>8, <1>9, <1>10 DEF Wired, names
<1> QED BY <1>1, <1>4, <1>11 DEF SupplyInv

(***************************************************************************)
(* A step that starts has waited for the builds of its roles.              *)
(***************************************************************************)
LEMMA SupplyStarts ==
  ASSUME Shape, NEW s \in Submits, InOrder(s), SupplyInv(s),
         NEW x \in workflow[s].steps, StartStep(s, x)
  PROVE  SupplyInv(s)'
<1> DEFINE names == NamesOf(needed[s], workflow[s].steps)
<1>1. /\ pc[s] = "launched"
      /\ UNCHANGED <<pc, keys, needed, workflow, builds, depends, stored>>
      /\ \A b \in depends[s][x] : builds[s][b].status = "succeeded"
      /\ started'[s] = started[s] \union {x}
  BY DEF StartStep, submit, Shape
<1>2. KeysAreMet(s) /\ NeedsAreOne(s) /\ Wired(s) /\ Supplied(s)
  BY <1>1 DEF SupplyInv, Made
<1>3. Roles_(s)' = Roles_(s)
  BY <1>1 DEF Roles_
<1>4. KeysAreMet(s)' /\ NeedsAreOne(s)' /\ Wired(s)'
  BY <1>1, <1>2, <1>3 DEF KeysAreMet, NeedsAreOne, Ordered, Wired, Awaited
<1>5. ASSUME NEW i \in DOMAIN Roles_(s), Roles_(s)[i].step = x
      PROVE  keys[s][i] \in stored
  <2>1. i \in DOMAIN keys[s]
    <3>1. Len(keys[s]) = Len(Roles_(s)) /\ keys[s] \in Seq(Keys) /\ Roles_(s) \in Seq(Roles)
      BY <1>1, RoleInHand DEF InOrder, Made, Shape
    <3> QED BY <3>1
  <2>2. CASE Ordered(needed[s], keys[s][i])
    <3>1. PICK n \in DOMAIN needed[s] : needed[s][n].key = keys[s][i]
      BY <2>2 DEF Ordered
    <3>2. DOMAIN names = DOMAIN needed[s]
      <4>1. needed[s] \in Seq(Needs) /\ IsFiniteSet(workflow[s].steps)
        BY RoleInHand DEF Shape
      <4> QED BY <4>1, NamesDiffer
    <3>3. depends[s][x] = Awaited(s, x, names)
      BY <1>2 DEF Wired
    <3> HIDE DEF names
    <3>4. names[n] \in depends[s][x]
      BY <1>5, <3>1, <3>2, <3>3 DEF Awaited
    <3>5. builds[s][names[n]].status = "succeeded"
      BY <1>1, <3>4
    <3> QED BY <1>2, <3>1, <3>5 DEF Wired, names
  <2> QED BY <1>2, <2>1, <2>2 DEF KeysAreMet
<1>6. Supplied(s)'
  BY <1>1, <1>2, <1>3, <1>5 DEF Supplied
<1> QED BY <1>1, <1>4, <1>6 DEF SupplyInv

LEMMA SubmitIsSupplied ==
  ASSUME Shape, NEW s \in Submits, InOrder(s), SupplyInv(s), SubmitStep(s)
  PROVE  SupplyInv(s)'
<1> USE DEF launched, reading, memos, Goto, Made
<1>1. ASSUME UNCHANGED <<workflow, keys, needed, started, builds, depends, stored>>,
             \/ pc' = pc
             \/ pc'[s] \notin Made /\ pc[s] \notin {"launched", "raised"}
      PROVE  SupplyInv(s)'
  BY <1>1, SupplyStays
<1>2. CASE Edit(s)
  BY <1>1, <1>2 DEF Edit
<1>3. CASE NextRole(s)
  <2>1. pc'[s] \in {"inject", "fingerprint", "raised"} /\ pc[s] = "role"
    BY <1>3 DEF NextRole, Shape
  <2> QED BY <1>1, <1>3, <2>1 DEF NextRole
<1>4. CASE fingerprint_nix_source_tree(s)
  <2>1. pc'[s] = "lookup"
    BY <1>4 DEF fingerprint_nix_source_tree, Shape
  <2> QED BY <1>1, <1>4, <2>1 DEF fingerprint_nix_source_tree
<1>5. CASE lookup_cached_closure_path(s)
  <2>1. pc'[s] \in {"hit", "miss"}
    BY <1>5 DEF lookup_cached_closure_path, Shape
  <2> QED BY <1>1, <1>5, <2>1 DEF lookup_cached_closure_path
<1>6. ASSUME NEW next \in {"absent", "staged"}, Locate(s, next), UNCHANGED <<keys, needed>>,
             pc[s] \in {"miss", "hit"}
      PROVE  SupplyInv(s)'
  <2>1. pc'[s] \in {"absent", "staged", "copy"}
    BY <1>6 DEF Locate, Shape
  <2> QED BY <1>1, <1>6, <2>1 DEF Locate
<1>7. CASE Materialize(s)
  BY <1>6, <1>7 DEF Materialize
<1>8. CASE copy_filtered(s)
  <2>1. pc'[s] \in {"absent", "staged"}
    BY <1>8 DEF copy_filtered, Shape
  <2> QED BY <1>1, <1>8, <2>1 DEF copy_filtered
<1>9. CASE CheckStaged(s)
  <2>1. pc'[s] \in {"eval", "raised"}
    BY <1>9 DEF CheckStaged, Shape
  <2> QED BY <1>1, <1>9, <2>1 DEF CheckStaged
<1>10. CASE Evaluate(s)
  <2>1. pc'[s] = "evaluated"
    BY <1>10 DEF Evaluate, Shape
  <2> QED BY <1>1, <1>10, <2>1 DEF Evaluate
<1>11. CASE CheckHit(s)
  <2>1. CASE InStore(s) /\ Collect(s, TRUE) /\ UNCHANGED <<launched, stored>>
    BY <1>11, <2>1, SupplyCollects DEF CheckHit
  <2>2. CASE Locate(s, "absent") /\ UNCHANGED <<keys, needed>>
    BY <1>6, <1>11, <2>2 DEF CheckHit
  <2> QED BY <1>11, <2>1, <2>2 DEF CheckHit
<1>12. CASE CollectHit(s)
  BY <1>12, SupplyCollects DEF CollectHit
<1>13. CASE CheckEvaluated(s)
  <2>1. Collect(s, InStore(s)) /\ InStore(s) \in BOOLEAN /\ pc[s] = "evaluated"
        /\ UNCHANGED <<launched, stored>>
    BY <1>13 DEF CheckEvaluated, InStore
  <2> QED BY <2>1, SupplyCollects
<1>14. CASE Raise(s)
  <2>1. pc'[s] = "raised" /\ pc[s] \notin {"launched", "raised"}
    BY <1>14 DEF Raise, Shape
  <2> QED BY <1>1, <1>14, <2>1 DEF Raise
<1> QED
  BY <1>2, <1>3, <1>4, <1>5, <1>7, <1>8, <1>9, <1>10, <1>11, <1>12, <1>13, <1>14,
     SupplyInjects, SupplyRenders DEF SubmitStep

LEMMA SupplyStep == Shape /\ InOrders /\ SupplyInvs /\ [Next]_vars => SupplyInvs'
<1> SUFFICES ASSUME Shape, InOrders, SupplyInvs, [Next]_vars, NEW t \in Submits
             PROVE  SupplyInv(t)'
  BY DEF SupplyInvs
<1>0. SupplyInv(t) /\ InOrder(t)
  BY DEF SupplyInvs, InOrders
<1>1. CASE UNCHANGED vars
  BY <1>0, <1>1, SupplyStays DEF vars, submit, launched
<1>2. CASE Next
  <2>1. PICK s \in Submits : SubmitStep(s) \/ ClusterStep(s)
    BY <1>2, NextSplits
  <2>2. CASE t # s
    <3>1. workflow' = workflow /\ stored \subseteq stored' /\ SameFor(t)
      BY <2>1, <2>2, OthersStay
    <3> QED BY <1>0, <3>1, SupplyStays DEF SameFor
  <2>3. CASE t = s /\ SubmitStep(s)
    BY <1>0, <2>3, SubmitIsSupplied
  <2>4. CASE t = s /\ ClusterStep(s)
    BY <1>0, <2>4, SupplyBuilds, SupplyStarts DEF ClusterStep
  <2> QED BY <2>1, <2>2, <2>3, <2>4
<1> QED BY <1>1, <1>2

(***************************************************************************)
(* ConsumersAreSupplied: when the pods of a step start, every closure its  *)
(* roles were resolved to is in the store they read, whether it was there, *)
(* came from a memo or was built, whatever was edited and whatever failed. *)
(***************************************************************************)
THEOREM ConsumersFindTheirs == Spec => []ConsumersAreSupplied
<1>1. SupplyInvs => ConsumersAreSupplied
  BY DEF SupplyInvs, SupplyInv, Supplied, ConsumersAreSupplied
<1> QED BY <1>1, ShapeInit, ShapeStep, SupplyInit, SupplyStep, PTL DEF Spec

LEMMA WiredIsWired ==
  ASSUME Shape, NEW s \in Submits, InOrder(s), SupplyInv(s), pc[s] = "launched"
  PROVE  /\ DOMAIN builds[s] \intersect workflow[s].steps = {}
         /\ Cardinality({needed[s][n].key : n \in DOMAIN needed[s]}) = Cardinality(DOMAIN builds[s])
         /\ \A b \in DOMAIN builds[s] :
              /\ builds[s][b].consent
              /\ \E x \in workflow[s].steps : b \in depends[s][x]
         /\ \A x \in workflow[s].steps : \A b \in depends[s][x] :
              \E i \in DOMAIN Roles_(s) : Roles_(s)[i].step = x /\ keys[s][i] = builds[s][b].key
<1> DEFINE names == NamesOf(needed[s], workflow[s].steps)
           wanted == {needed[s][n].key : n \in DOMAIN needed[s]}
<1>1. needed[s] \in Seq(Needs) /\ IsFiniteSet(workflow[s].steps)
  BY RoleInHand DEF Shape
<1>2. /\ DOMAIN names = DOMAIN needed[s]
      /\ \A n \in DOMAIN needed[s] : names[n] \notin workflow[s].steps
      /\ \A m, n \in DOMAIN needed[s] : names[m] = names[n] => m = n
  BY <1>1, NamesDiffer
<1>3. NeedsAreOne(s) /\ Wired(s)
  BY DEF SupplyInv, Made
<1>4. /\ DOMAIN builds[s] = {names[n] : n \in DOMAIN needed[s]}
      /\ \A n \in DOMAIN needed[s] :
           /\ builds[s][names[n]].key = needed[s][n].key
           /\ builds[s][names[n]].consent = needed[s][n].role.build
      /\ \A x \in workflow[s].steps : depends[s][x] = Awaited(s, x, names)
  BY <1>3 DEF Wired
<1> HIDE DEF names
<1>5. DOMAIN keys[s] = DOMAIN Roles_(s)
  <2>1. Len(keys[s]) = Len(Roles_(s)) /\ keys[s] \in Seq(Keys) /\ Roles_(s) \in Seq(Roles)
    BY RoleInHand DEF InOrder, Made, Shape
  <2> QED BY <2>1
<1>6. DOMAIN builds[s] \intersect workflow[s].steps = {}
  BY <1>2, <1>4
<1>7. Cardinality(wanted) = Cardinality(DOMAIN builds[s])
  <2> DEFINE D == DOMAIN needed[s]
             f == [n \in D |-> needed[s][n].key]
             g == [n \in D |-> names[n]]
  <2>1. IsFiniteSet(D)
    <3>1. D = 1..Len(needed[s]) /\ Len(needed[s]) \in Nat
      BY <1>1
    <3> QED BY <3>1, FS_Interval
  <2>2. f \in Bijection(D, wanted)
    BY <1>3 DEF NeedsAreOne, Bijection, Injection, Surjection, IsInjective
  <2>3. g \in Bijection(D, DOMAIN builds[s])
    BY <1>2, <1>4 DEF Bijection, Injection, Surjection, IsInjective
  <2> HIDE DEF D, f, g, wanted
  <2>4. Cardinality(wanted) = Cardinality(D)
    BY <2>1, <2>2, FS_Bijection DEF ExistsBijection
  <2>5. Cardinality(DOMAIN builds[s]) = Cardinality(D)
    BY <2>1, <2>3, FS_Bijection DEF ExistsBijection
  <2> QED BY <2>4, <2>5
<1>8. ASSUME NEW b \in DOMAIN builds[s]
      PROVE  builds[s][b].consent /\ \E x \in workflow[s].steps : b \in depends[s][x]
  <2>1. PICK n \in DOMAIN needed[s] : b = names[n]
    BY <1>4
  <2>2. PICK i \in DOMAIN keys[s] : keys[s][i] = needed[s][n].key
    BY <1>3 DEF NeedsAreOne
  <2>3. Roles_(s)[i].step \in workflow[s].steps
    BY <1>5, RoleInHand
  <2>4. b \in Awaited(s, Roles_(s)[i].step, names)
    BY <1>2, <1>5, <2>1, <2>2 DEF Awaited
  <2>5. builds[s][b].consent
    BY <1>3, <1>4, <2>1 DEF NeedsAreOne
  <2> QED BY <1>4, <2>3, <2>4, <2>5
<1>9. ASSUME NEW x \in workflow[s].steps, NEW b \in depends[s][x]
      PROVE  \E i \in DOMAIN Roles_(s) : Roles_(s)[i].step = x /\ keys[s][i] = builds[s][b].key
  <2>1. PICK n \in DOMAIN names :
          b = names[n] /\ \E i \in DOMAIN Roles_(s) : Roles_(s)[i].step = x /\ keys[s][i] = needed[s][n].key
    BY <1>4, <1>9 DEF Awaited
  <2> QED BY <1>2, <1>4, <2>1
<1> QED BY <1>6, <1>7, <1>8, <1>9

(***************************************************************************)
(* BuildsAreWired: though the names of build steps are cut and may clash,  *)
(* a launched workflow builds each <<closure, store>> once, under a name   *)
(* of its own and with leave; every build is waited for, and by no step    *)
(* that does not read it.                                                  *)
(***************************************************************************)
THEOREM BuildsAreInPlace == Spec => []BuildsAreWired
<1>1. Shape /\ InOrders /\ SupplyInvs => BuildsAreWired
  <2> SUFFICES ASSUME Shape, InOrders, SupplyInvs PROVE BuildsAreWired
    OBVIOUS
  <2> QED BY WiredIsWired DEF InOrders, SupplyInvs, BuildsAreWired
<1> QED BY <1>1, ShapeInit, ShapeStep, SupplyInit, SupplyStep, PTL DEF Spec

-----------------------------------------------------------------------------
(* What a submit stages (FileSelection).                                   *)

Components == Names \union Globs

\* One name takes a pattern of one component.
LEMMA OneName ==
  ASSUME NEW parts \in Seq(Components) \ {<<>>}, NEW name, fnmatch(<<name>>, parts)
  PROVE  Len(parts) = 1
<1>1. PICK ends \in [DOMAIN parts -> DOMAIN <<name>>] :
        \A i \in DOMAIN parts : (IF i = 1 THEN 1 ELSE ends[i - 1] + 1) <= ends[i]
  BY DEF fnmatch
<1>2. Len(parts) \in Nat \ {0} /\ DOMAIN parts = 1..Len(parts)
  OBVIOUS
<1>3. DOMAIN <<name>> = {1}
  OBVIOUS
<1>4. CASE Len(parts) > 1
  <2>1. 1 \in DOMAIN parts /\ 2 \in DOMAIN parts
    BY <1>2, <1>4
  <2>2. ends[1] = 1 /\ ends[2] = 1
    BY <1>1, <1>3, <2>1
  <2> QED BY <1>1, <2>1, <2>2
<1> QED BY <1>2, <1>4

\* A component that covers a name matches it.
LEMMA OneCovers ==
  ASSUME NEW path, NEW name, path \in Seq({name}), Len(path) = 1,
         NEW S, NEW parts \in Seq(S), Len(parts) = 1, Covers(parts[1], path)
  PROVE  fnmatch(path, parts)
<1> DEFINE ends == [i \in {1} |-> 1]
<1>1. DOMAIN path = {1} /\ DOMAIN parts = {1}
  OBVIOUS
<1>2. ends \in [DOMAIN parts -> DOMAIN path] /\ ends[1] = 1
  BY <1>1
<1>3. SubSeq(path, 1, 1) = path
  OBVIOUS
<1> HIDE DEF ends
<1>4. \A i \in DOMAIN parts :
        LET begin == IF i = 1 THEN 1 ELSE ends[i - 1] + 1
        IN  begin <= ends[i] /\ Covers(parts[i], SubSeq(path, begin, ends[i]))
  <2> SUFFICES 1 <= ends[1] /\ Covers(parts[1], SubSeq(path, 1, ends[1]))
    BY <1>1
  <2>1. SubSeq(path, 1, ends[1]) = path
    BY <1>2, <1>3
  <2>2. Covers(parts[1], SubSeq(path, 1, ends[1]))
    BY <2>1, Zenon
  <2> QED BY <1>2, <2>2
<1>5. ends[Len(parts)] = Len(path)
  BY <1>2
<1> QED BY <1>2, <1>4, <1>5 DEF fnmatch

\* Expanding "**" keeps what comes before the first of them in its place.
LEMMA NamesKept ==
  ASSUME NEW n \in Nat, NEW m \in 1..n, NEW kept \in [1..m -> 1..n], NEW l \in 1..n,
         \A i, j \in 1..m : i < j => kept[i] < kept[j],
         \A k \in 1..l : \E i \in 1..m : kept[i] = k
  PROVE  l <= m /\ \A i \in 1..l : kept[i] = i
<1> DEFINE Wrong == {i \in 1..l : i > m \/ kept[i] # i}
<1>1. Wrong = {}
  <2> SUFFICES ASSUME Wrong # {} PROVE FALSE
    OBVIOUS
  <2>1. PICK i \in Wrong : \A j \in Wrong : i <= j
    <3>1. Wrong \in SUBSET Nat
      OBVIOUS
    <3> HIDE DEF Wrong
    <3> QED BY <3>1, LeastNumber
  <2>2. i \in 1..l /\ (i > m \/ kept[i] # i)
    BY <2>1
  <2>3. \A j \in 1..l : j < i => j <= m /\ kept[j] = j
    BY <2>1
  <2>4. PICK j \in 1..m : kept[j] = i
    BY <2>2
  <2>5. CASE j < i
    BY <2>2, <2>3, <2>4, <2>5
  <2>6. CASE i <= j
    <3>1. i \in 1..m /\ kept[i] \in 1..n /\ kept[i] # i /\ kept[i] <= i
      BY <2>2, <2>4, <2>6
    <3>2. CASE i = 1
      BY <3>1, <3>2
    <3>3. CASE i > 1
      <4>1. i - 1 \in 1..m /\ i - 1 \in 1..l /\ kept[i - 1] = i - 1
        BY <2>2, <2>3, <3>1, <3>3
      <4>2. kept[i - 1] < kept[i]
        BY <3>1, <4>1
      <4> QED BY <2>2, <3>1, <4>1, <4>2
    <3> QED BY <2>2, <3>2, <3>3
  <2> QED BY <2>2, <2>4, <2>5, <2>6
<1>2. \A i \in 1..l : i <= m /\ kept[i] = i
  BY <1>1
<1> QED BY <1>2

\* The names a pattern begins with are those that what it matches begins with.
LEMMA NamesCovered ==
  ASSUME NEW parts \in Seq(Components) \ {<<>>}, NEW path \in Seq(Names),
         fnmatch(path, parts), NEW l \in DOMAIN parts, \A j \in 1..l : parts[j] \in Names
  PROVE  l \in DOMAIN path /\ path[l] = parts[l]
<1> DEFINE n == Len(parts)
<1>1. n \in Nat /\ DOMAIN parts = 1..n /\ Len(path) \in Nat /\ DOMAIN path = 1..Len(path)
  OBVIOUS
<1>2. PICK ends \in [DOMAIN parts -> DOMAIN path] :
        \A j \in DOMAIN parts :
          LET begin == IF j = 1 THEN 1 ELSE ends[j - 1] + 1
          IN  begin <= ends[j] /\ Covers(parts[j], SubSeq(path, begin, ends[j]))
  BY DEF fnmatch
<1>3. ASSUME NEW j \in 1..l, j = 1 \/ ends[j - 1] = j - 1
      PROVE  ends[j] = j /\ j \in DOMAIN path /\ path[j] = parts[j]
  <2>1. j \in 1..n /\ (IF j = 1 THEN 1 ELSE ends[j - 1] + 1) = j
    BY <1>3, <1>1
  <2>2. j <= ends[j] /\ Covers(parts[j], SubSeq(path, j, ends[j])) /\ ends[j] \in 1..Len(path)
    BY <2>1, <1>1, <1>2
  <2>3. SubSeq(path, j, ends[j]) = <<parts[j]>>
    BY <2>2, SelectionAssumption DEF SelectionAssumption, Covers, Globs
  <2>4. /\ Len(SubSeq(path, j, ends[j])) = ends[j] - j + 1
        /\ SubSeq(path, j, ends[j])[1] = path[j]
    BY <2>1, <2>2, <1>1
  <2> QED BY <2>1, <2>2, <2>3, <2>4, <1>1
<1>4. \A j \in 1..l : ends[j] = j
  <2> DEFINE Wrong == {j \in 1..l : ends[j] # j}
  <2> SUFFICES ASSUME Wrong # {} PROVE FALSE
    OBVIOUS
  <2>1. PICK j \in Wrong : \A k \in Wrong : j <= k
    <3>1. Wrong \in SUBSET Nat
      BY <1>1
    <3> HIDE DEF Wrong
    <3> QED BY <3>1, LeastNumber
  <2>2. j = 1 \/ ends[j - 1] = j - 1
    BY <2>1, <1>1
  <2> QED BY <2>1, <2>2, <1>3
<1>5. l = 1 \/ ends[l - 1] = l - 1
  BY <1>1, <1>4
<1> QED BY <1>1, <1>3, <1>5

\* Names, then nothing but stars.
Rooted(parts) ==
  \A i \in DOMAIN parts : parts[i] \in Names \/ \A j \in i..Len(parts) : parts[j] \in Stars

\* Up to a name, such a pattern holds names only.
LEMMA NamesBefore ==
  ASSUME NEW parts \in Seq(Components) \ {<<>>}, Rooted(parts),
         NEW i \in DOMAIN parts, parts[i] \in Names
  PROVE  \A j \in 1..i : j \in DOMAIN parts /\ parts[j] \in Names
<1> SUFFICES ASSUME NEW j \in 1..i PROVE j \in DOMAIN parts /\ parts[j] \in Names
  OBVIOUS
<1>1. j \in DOMAIN parts /\ i \in j..Len(parts)
  OBVIOUS
<1>2. parts[i] \notin Stars
  BY SelectionAssumption DEF SelectionAssumption, Globs, Stars
<1> QED BY <1>1, <1>2 DEF Rooted

\* Which components an expansion keeps: all but the "**", in order.
LEMMA Expansion ==
  ASSUME NEW parts \in Seq(Components) \ {<<>>}, NEW v \in _expand_globstar(parts)
  PROVE  \E m \in 1..Len(parts) : \E kept \in [1..m -> 1..Len(parts)] :
           /\ v = [i \in 1..m |-> parts[kept[i]]]
           /\ \A i, j \in 1..m : i < j => kept[i] < kept[j]
           /\ \A k \in 1..Len(parts) : parts[k] = "**" \/ \E i \in 1..m : kept[i] = k
<1> DEFINE n == Len(parts)
<1>1. n \in Nat /\ DOMAIN parts = 1..n
  OBVIOUS
<1>2. PICK kept \in UNION {[1..m -> 1..n] : m \in 1..n} :
        /\ v = [i \in DOMAIN kept |-> parts[kept[i]]]
        /\ \A i, j \in DOMAIN kept : i < j => kept[i] < kept[j]
        /\ \A k \in 1..n : parts[k] = "**" \/ \E i \in DOMAIN kept : kept[i] = k
  BY <1>1, Zenon DEF _expand_globstar
<1>3. PICK m \in 1..n : kept \in [1..m -> 1..n]
  BY <1>2
<1>4. DOMAIN kept = 1..m
  BY <1>3
<1> HIDE DEF n
<1> QED BY <1>2, <1>3, <1>4 DEF n

\* The i-th component of such a pattern covers the i-th name of what it matches.
LEMMA RootedCovers ==
  ASSUME NEW parts \in Seq(Components) \ {<<>>}, Rooted(parts),
         NEW path \in Seq(Names), fnmatch_glob(path, parts), NEW i \in DOMAIN parts,
         parts[i] \in Names
  PROVE  i \in DOMAIN path /\ path[i] = parts[i]
<1> DEFINE n == Len(parts)
<1>1. n \in Nat /\ DOMAIN parts = 1..n
  OBVIOUS
<1>2. PICK v \in _expand_globstar(parts) : fnmatch(path, v)
  BY DEF fnmatch_glob
<1>3. PICK m \in 1..n : \E kept \in [1..m -> 1..n] :
        /\ v = [j \in 1..m |-> parts[kept[j]]]
        /\ \A j, k \in 1..m : j < k => kept[j] < kept[k]
        /\ \A k \in 1..n : parts[k] = "**" \/ \E j \in 1..m : kept[j] = k
  BY Expansion, Zenon
<1>4. PICK kept \in [1..m -> 1..n] :
        /\ v = [j \in 1..m |-> parts[kept[j]]]
        /\ \A j, k \in 1..m : j < k => kept[j] < kept[k]
        /\ \A k \in 1..n : parts[k] = "**" \/ \E j \in 1..m : kept[j] = k
  BY <1>3
<1>5. \A j \in 1..i : j \in 1..n /\ parts[j] \in Names /\ parts[j] # "**"
  BY <1>1, NamesBefore, SelectionAssumption DEF SelectionAssumption, Globs
<1>6. i <= m /\ \A j \in 1..i : kept[j] = j
  <2>1. i \in 1..n /\ \A k \in 1..i : \E j \in 1..m : kept[j] = k
    BY <1>1, <1>4, <1>5
  <2>2. \A j, k \in 1..m : j < k => kept[j] < kept[k]
    BY <1>4
  <2> HIDE DEF n
  <2> QED BY <2>1, <2>2, <1>1, <1>3, <1>4, NamesKept, ZenonT(60)
<1>7. v \in Seq(Components) \ {<<>>} /\ DOMAIN v = 1..m
  <2>1. \A j \in 1..m : parts[kept[j]] \in Components
    BY <1>1
  <2>2. m \in Nat /\ 1 \in 1..m
    BY <1>1
  <2>3. v \in [1..m -> Components]
    BY <1>4, <2>1
  <2>4. v \in Seq(Components) /\ DOMAIN v = 1..m
    BY <2>2, <2>3
  <2> QED BY <2>2, <2>4
<1>8. i \in DOMAIN v /\ \A j \in 1..i : v[j] = parts[j]
  <2>1. \A j \in 1..i : j \in 1..m
    BY <1>1, <1>6
  <2> QED BY <1>4, <1>6, <1>7, <2>1, <1>1
<1>9. i \in DOMAIN path /\ path[i] = v[i]
  <2>1. \A j \in 1..i : v[j] \in Names
    BY <1>5, <1>8
  <2> QED BY <2>1, <1>2, <1>7, <1>8, NamesCovered
<1> QED BY <1>1, <1>8, <1>9

\* A pattern of names, then stars, whose second component or a later one stays
\* whatever is expanded, takes no single name where it begins with one.
LEMMA TwoComponents ==
  ASSUME NEW parts \in Seq(Components) \ {<<>>}, Rooted(parts),
         NEW name, fnmatch_glob(<<name>>, parts),
         NEW k \in 2..Len(parts), parts[k] # "**", NEW i \in DOMAIN parts
  PROVE  parts[i] \in Stars
<1> DEFINE n == Len(parts)
<1>1. n \in Nat /\ DOMAIN parts = 1..n /\ k \in 1..n /\ 1 \in 1..n
  OBVIOUS
<1>2. PICK v \in _expand_globstar(parts) : fnmatch(<<name>>, v)
  BY DEF fnmatch_glob
<1>3. PICK m \in 1..n : \E kept \in [1..m -> 1..n] :
        /\ v = [j \in 1..m |-> parts[kept[j]]]
        /\ \A j, h \in 1..m : j < h => kept[j] < kept[h]
        /\ \A h \in 1..n : parts[h] = "**" \/ \E j \in 1..m : kept[j] = h
  BY Expansion, Zenon
<1>4. PICK kept \in [1..m -> 1..n] :
        /\ v = [j \in 1..m |-> parts[kept[j]]]
        /\ \A h \in 1..n : parts[h] = "**" \/ \E j \in 1..m : kept[j] = h
  BY <1>3
<1>5. v \in Seq(Components) \ {<<>>} /\ Len(v) = m
  <2>1. \A j \in 1..m : parts[kept[j]] \in Components
    BY <1>1
  <2>2. m \in Nat /\ 1 \in 1..m
    BY <1>1
  <2>3. v \in [1..m -> Components]
    BY <1>4, <2>1
  <2>4. v \in Seq(Components) /\ Len(v) = m
    BY <2>2, <2>3
  <2> QED BY <2>2, <2>4
<1>6. m = 1
  BY <1>2, <1>5, OneName
<1>7. parts[1] = "**"
  <2> SUFFICES ASSUME parts[1] # "**" PROVE FALSE
    OBVIOUS
  <2>1. PICK j \in 1..m : kept[j] = 1
    BY <1>1, <1>4
  <2>2. PICK h \in 1..m : kept[h] = k
    BY <1>1, <1>4
  <2>3. j = 1 /\ h = 1 /\ k # 1
    BY <1>6
  <2> QED BY <2>1, <2>2, <2>3
<1>8. parts[1] \notin Names
  BY <1>7, SelectionAssumption DEF SelectionAssumption, Globs
<1>9. \A j \in 1..n : parts[j] \in Stars
  BY <1>1, <1>8 DEF Rooted
<1> QED BY <1>1, <1>9

\* The first names of a path are a directory it is in.
LEMMA AncestorNames ==
  ASSUME NEW path \in Seq(Names), NEW d \in Ancestors(path)
  PROVE  /\ d \in Seq(Names) /\ Len(d) \in 1..(Len(path) - 1)
         /\ \A i \in DOMAIN d : i \in DOMAIN path /\ d[i] = path[i]
<1>1. PICK n \in 1..(Len(path) - 1) : d = SubSeq(path, 1, n)
  BY DEF Ancestors
<1>2. Len(path) \in Nat /\ n \in Nat /\ 1 <= n /\ n <= Len(path) - 1
  BY <1>1
<1>3. d \in Seq(Names) /\ Len(d) = n /\ \A i \in 1..n : d[i] = path[i]
  BY <1>1, <1>2
<1> QED BY <1>1, <1>2, <1>3

\* What is selected for a pattern lies where the walk goes for its sake.
LEMMA TheWalkGoesThere ==
  ASSUME NEW path \in Seq(Names), NEW d \in Ancestors(path),
         NEW p \in Patterns, Tame(p),
         \/ ~p.dir /\ _matches_pattern(path, p)
         \/ \E e \in Ancestors(path) :
              p.dir /\ (p.anchored => Len(e) = 1) /\ fnmatch(<<Name(e)>>, p.parts)
  PROVE  _pattern_could_match_under(d, p)
<1>0. p.parts \in Seq(Components) \ {<<>>}
  BY DEF Patterns, Components
<1>1. CASE ~p.anchored /\ Len(p.parts) = 1
  BY <1>1 DEF _pattern_could_match_under
<1>2. CASE p.anchored \/ Len(p.parts) # 1
  <2>1. SUFFICES ASSUME NEW i \in DOMAIN d \intersect DOMAIN p.parts
                 PROVE  fnmatch(<<d[i]>>, <<p.parts[i]>>)
    BY DEF _pattern_could_match_under
  <2>2. i \in DOMAIN path /\ d[i] = path[i]
    BY AncestorNames
  <2>3. CASE \E e \in Ancestors(path) :
              p.dir /\ (p.anchored => Len(e) = 1) /\ fnmatch(<<Name(e)>>, p.parts)
    <3>1. PICK e \in Ancestors(path) :
            (p.anchored => Len(e) = 1) /\ fnmatch(<<Name(e)>>, p.parts)
      BY <2>3
    <3>2. Len(p.parts) = 1
      BY <3>1, <1>0, OneName
    <3>3. Len(e) = 1 /\ e[1] = path[1]
      BY <3>1, <3>2, <1>2, AncestorNames
    <3>4. i = 1 /\ p.parts = <<p.parts[i]>>
      BY <3>2, <1>0
    <3>5. Name(e) = d[i]
      BY <3>3, <3>4, <2>2 DEF Name
    <3> QED BY <3>1, <3>4, <3>5
  <2>4. CASE ~p.dir /\ _matches_pattern(path, p)
    <3>1. Rooted(p.parts) /\ (p.anchored \/ \E k \in 2..Len(p.parts) : p.parts[k] # "**")
      BY <1>2, <2>4 DEF Tame, Rooted
    <3>2. p.parts[i] \in Names \/ p.parts[i] \in Stars
      BY <3>1, <1>0 DEF Rooted
    <3>3. p.parts[i] \in Names => path[i] = p.parts[i]
      <4>1. CASE ~p.anchored /\ fnmatch_glob(<<Name(path)>>, p.parts)
        <5>1. p.parts[i] \in Stars
          BY <3>1, <4>1, <1>0, <2>1, TwoComponents
        <5> QED BY <5>1, SelectionAssumption DEF SelectionAssumption, Globs, Stars
      <4>2. CASE fnmatch_glob(path, p.parts)
        BY <3>1, <4>2, <1>0, <2>1, RootedCovers
      <4> QED BY <2>4, <4>1, <4>2 DEF _matches_pattern
    <3> DEFINE one == <<d[i]>>
               part == <<p.parts[i]>>
    <3>4. one \in Seq({d[i]}) /\ Len(one) = 1
      OBVIOUS
    <3>5. part \in Seq({p.parts[i]}) /\ Len(part) = 1
      OBVIOUS
    <3>6. Covers(part[1], one)
      <4>1. part[1] = p.parts[i] /\ one = <<path[i]>>
        BY <2>2
      <4> HIDE DEF one, part
      <4>2. CASE p.parts[i] \in Names
        BY <3>3, <4>1, <4>2 DEF Covers
      <4>3. CASE p.parts[i] \in Stars
        BY <4>1, <4>3 DEF Covers, Stars
      <4> QED BY <3>2, <4>2, <4>3
    <3> HIDE DEF one, part
    <3>7. fnmatch(one, part)
      BY <3>4, <3>5, <3>6, OneCovers
    <3> QED BY <3>7 DEF one, part
  <2> QED BY <2>3, <2>4
<1> QED BY <1>1, <1>2 DEF Patterns

\* A file that the rules select is in no directory that the walk leaves out.
LEMMA SelectedIsReached ==
  ASSUME NEW path \in Seq(Names), NEW include \in SUBSET Patterns,
         \A p \in include : Tame(p),
         NEW exclude, _should_include(path, include, exclude),
         NEW d \in Ancestors(path)
  PROVE  Descends(d, include, exclude)
<1>1. ~_dir_matches_exclude(d, exclude)
  BY DEF _should_include, _is_in_excluded_directory
<1>2. CASE include = {}
  BY <1>1, <1>2 DEF Descends
<1>3. CASE include # {}
  <2>1. \/ _is_in_included_directory(path, include)
        \/ MatchesFile(path, include)
    BY <1>3 DEF _should_include
  <2>2. PICK p \in include :
          \/ ~p.dir /\ _matches_pattern(path, p)
          \/ \E e \in Ancestors(path) :
               p.dir /\ (p.anchored => Len(e) = 1) /\ fnmatch(<<Name(e)>>, p.parts)
    BY <2>1, Zenon DEF _is_in_included_directory, MatchesFile
  <2>3. p \in Patterns /\ Tame(p)
    OBVIOUS
  <2>4. _pattern_could_match_under(d, p)
    BY <2>2, <2>3, TheWalkGoesThere
  <2> QED BY <1>1, <2>4 DEF Descends
<1> QED BY <1>2, <1>3

(* Over any trees and any lists of patterns, as long as every pattern to   *)
(* include is tame, the walk of _iter_included_files with its pruning      *)
(* yields what _should_include selects.  Without that hypothesis it is     *)
(* false.                                                                  *)
THEOREM TheTameWalkIsExact ==
  \A tree \in Trees, include \in Includes, exclude \in Excludes :
    (\A p \in include : Tame(p)) => Exact(tree, include, exclude)
<1> SUFFICES ASSUME NEW tree \in Trees, NEW include \in Includes, NEW exclude \in Excludes,
                    \A p \in include : Tame(p)
             PROVE  Exact(tree, include, exclude)
  OBVIOUS
<1>1. include \in SUBSET Patterns /\ \A f \in tree : f \in Seq(Names)
  BY SelectionAssumption DEF SelectionAssumption
<1>2. \A f \in tree : _should_include(f, include, exclude) =>
        \A d \in Ancestors(f) : Descends(d, include, exclude)
  BY <1>1, SelectedIsReached
<1> QED BY <1>2 DEF _iter_included_files, Exact

(* For any submits of any code, whenever the user edits it, and as far as  *)
(* the patterns to include are tame: what is staged is what the include    *)
(* and exclude rules select.                                               *)
THEOREM TheTamePruningLosesNothing == Spec => []TamePruningLosesNothing
<1>1. TypeOK => TamePruningLosesNothing
  <2>1. \A tree \in Trees : TameWalkIsExact[tree]
    BY TheTameWalkIsExact, Zenon DEF TameWalkIsExact
  <2> SUFFICES ASSUME edited \in [Submits -> BOOLEAN] PROVE TamePruningLosesNothing
    BY DEF TypeOK
  <2> QED BY <2>1, StagingAssumption, Zenon DEF StagingAssumption, TamePruningLosesNothing
<1> QED BY <1>1, NixTypes, PTL
=============================================================================

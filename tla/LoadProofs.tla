----------------------------- MODULE LoadProofs -----------------------------
(***************************************************************************)
(* A load whose route is edited, for every instance of LoadInsertion, and  *)
(* what prices it (ChargeEvaluator): the stamps of its sums and the tiers  *)
(* of its rules.                                                           *)
(*                                                                         *)
(* A route is a load's chain without distances.  Insertion and removal are *)
(* first told of routes: Put, Shorn and Moved keep a route a Chain, taking *)
(* an order out again undoes Put (ShornPut), and Put commutes with Moved   *)
(* (PutMoved).  Then each operator of a load is shown to do that to its    *)
(* route (PutLoad, ShornLoad, ChangedLoad), an evaluation to renew every   *)
(* leg and every count (EvaluatedLoad), and each action keeps LoadInv: a   *)
(* trial is the base with the order put at slot u and the depots of the    *)
(* vehicle tried, whatever the trials before it did to the copy.           *)
(***************************************************************************)
EXTENDS LoadInsertion, ChargeEvaluator, FiniteSetTheorems, SequenceTheorems,
        WellFoundedInduction, TLAPS

(***************************************************************************)
(* Routes: chains without distances.                                       *)
(***************************************************************************)

NodeTypes == {"START", "PICK", "DROP", "END"}

BareNodes == [type : NodeTypes, loc : Locations, acts : Seq(Orders)]

Nodes == [type : NodeTypes, loc : Locations, acts : Seq(Orders), dist : Nat]

NoRepeat(acts) == \A i, j \in DOMAIN acts : acts[i] = acts[j] => i = j

DropPlaces(r) == 3 .. Len(r) - 1

Framed(r) ==
  /\ r \in Seq(BareNodes) /\ Len(r) >= 4
  /\ r[1].type = "START" /\ r[1].acts = <<>>
  /\ r[2].type = "PICK"
  /\ r[Len(r)].type = "END" /\ r[Len(r)].acts = <<>>

\* Every order picked up is delivered at one of the places D, once and where it has to be.
Delivers(r, D) ==
  /\ \A o \in Range(r[2].acts) : r[2].loc = PickLoc[o] /\ \E i \in D : o \in Range(r[i].acts)
  /\ \A i \in D :
       /\ r[i].type = "DROP" /\ r[i].acts # <<>> /\ NoRepeat(r[i].acts)
       /\ \A o \in Range(r[i].acts) : o \in Range(r[2].acts) /\ r[i].loc = DropLoc[o]
  /\ \A i, j \in D :
       (\E o \in Orders : o \in Range(r[i].acts) /\ o \in Range(r[j].acts)) => i = j

Paired(r) == NoRepeat(r[2].acts) /\ Delivers(r, DropPlaces(r))

Chain(r) == Framed(r) /\ Paired(r)

At(node, x) == [type |-> node.type, loc |-> x, acts |-> node.acts]

Moved(r, v) ==
  [i \in DOMAIN r |-> IF i = 1 THEN At(r[i], OrigLoc[v])
                      ELSE IF i = Len(r) THEN At(r[i], DestLoc[v]) ELSE r[i]]

With(node, o) == [type |-> node.type, loc |-> node.loc, acts |-> Append(node.acts, o)]

Stop(o) == [type |-> "DROP", loc |-> DropLoc[o], acts |-> <<o>>]

JoinsAt(r, o, p) == r[p].type = "DROP" /\ r[p].loc = DropLoc[o]

Joined(r, o, p) == [i \in DOMAIN r |-> IF i \in {2, p} THEN With(r[i], o) ELSE r[i]]

Parted(r, o, p) ==
  [i \in 1 .. Len(r) + 1 |-> IF i = 2 THEN With(r[2], o)
                             ELSE IF i < p THEN r[i] ELSE IF i = p THEN Stop(o) ELSE r[i - 1]]

PutAt(r, o, p) ==
  IF JoinsAt(r, o, p - 1) THEN Joined(r, o, p - 1)
  ELSE IF JoinsAt(r, o, p) THEN Joined(r, o, p)
  ELSE Parted(r, o, p)

Put(r, o, n) == PutAt(r, o, Len(r) - n)

Less(node, R) == [type |-> node.type, loc |-> node.loc, acts |-> Without(node.acts, R)]

Kept(r, R) == {i \in DOMAIN r : r[i].type \in {"START", "END"} \/ Without(r[i].acts, R) # <<>>}

Shorn(r, R) == Only([i \in DOMAIN r |-> Less(r[i], R)], Kept(r, R))

(***************************************************************************)
(* The inductive invariant                                                 *)
(***************************************************************************)

IsLoad(load) ==
  /\ DOMAIN load = {"nodes", "veh", "code", "cache", "feasible", "obj"}
  /\ load.nodes \in Seq(Nodes)
  /\ DOMAIN load.cache \subseteq {"drops", "peak", "stops", "dist"}

Whole(load) == IsLoad(load) /\ Chain(RouteOf(load))

Current(load) ==
  \A f \in DOMAIN load.cache \ {"legs", "dist"} : load.cache[f] = Profile(load.nodes)[f]

Housed(load) ==
  /\ load.veh \in VehicleTypes
  /\ load.nodes[1].loc = OrigLoc[load.veh]
  /\ load.nodes[Len(load.nodes)].loc = DestLoc[load.veh]

LegsOf(load) ==
  \A i \in 2 .. Len(load.nodes) :
    load.nodes[i].dist = Dist[Matrix[load.veh]][load.nodes[i - 1].loc][load.nodes[i].loc]

Evaluated(load) == Whole(load) /\ Current(load) /\ Housed(load) /\ LegsOf(load)

Inserted(n, v) == Moved(Put(RouteOf(base), order, n), v)

BestKnown ==
  best # Nothing => /\ best.slot \in 0 .. slots - 1 /\ best.veh \in VehicleTypes
                    /\ best.route = Inserted(best.slot, best.veh)

Inserting ==
  /\ base # NoLoad
  /\ order \in Orders /\ order \notin Picked(base) /\ SharesPick(base, order)
  /\ slots = Len(base.nodes) - 2 /\ u \in 0 .. slots
  /\ BestKnown

AtTrial ==
  /\ Inserting
  /\ Whole(work) /\ RouteOf(work) = RouteOf(base) /\ work.veh = base.veh

AtJudge ==
  /\ Inserting /\ u < slots
  /\ Evaluated(work) /\ RouteOf(work) = Inserted(u, work.veh)

AtFinal == Evaluated(work) /\ RouteOf(work) = best.route /\ work.veh = best.veh

LoadInv ==
  /\ w \in Nat \ {0}
  /\ base = NoLoad \/ Evaluated(base)
  /\ \/ phase \in {"solution", "shed"} /\ work = NoLoad /\ (phase = "shed" => base # NoLoad)
        /\ best = Nothing /\ pick = Nothing /\ u = 0
     \/ /\ phase = "construct" /\ base = NoLoad /\ Whole(work) /\ Current(work)
        /\ pick = Nothing \/ pick.veh \in VehicleTypes
     \/ phase = "append" /\ base # NoLoad /\ Evaluated(work) /\ pick.veh \in VehicleTypes
     \/ phase = "trial" /\ AtTrial
     \/ phase = "judge" /\ AtJudge
     \/ phase = "select" /\ AtJudge /\ pick.veh \in VehicleTypes
     \/ phase = "final" /\ AtFinal
     \/ phase = "threw" /\ Evaluated(work)

(***************************************************************************)
(* Elements of a sequence at some places                                   *)
(***************************************************************************)

\* Where the place i of the sequence goes when only the places I are kept.
Place(I, i) == Cardinality({j \in I : j <= i})

LEMMA PlaceOrder ==
  ASSUME NEW L \in Nat, NEW I \in SUBSET (1 .. L)
  PROVE  /\ Cardinality(I) \in 0 .. L
         /\ \A i \in I : Place(I, i) \in 1 .. Cardinality(I)
         /\ \A i, j \in I : i < j => Place(I, i) < Place(I, j)
<1>1. IsFiniteSet(I) /\ Cardinality(I) \in 0 .. L
  <2>1. IsFiniteSet(1 .. L) /\ Cardinality(1 .. L) = L
    BY FS_Interval
  <2>2. IsFiniteSet(I) /\ Cardinality(I) <= L
    BY <2>1, FS_Subset
  <2> QED
    BY <2>2, FS_CardinalityType
<1>2. ASSUME NEW i \in I
      PROVE  Place(I, i) \in 1 .. Cardinality(I)
  <2> DEFINE B == {j \in I : j <= i}
  <2>1. IsFiniteSet(B) /\ Cardinality(B) <= Cardinality(I)
    <3>1. B \in SUBSET I
      OBVIOUS
    <3> QED
      BY <1>1, <3>1, FS_Subset
  <2>2. i \in B
    OBVIOUS
  <2>3. Cardinality(B) \in Nat /\ Cardinality(B) # 0
    BY <2>1, <2>2, FS_EmptySet, FS_CardinalityType
  <2> QED
    BY <1>1, <2>1, <2>3 DEF Place
<1>3. ASSUME NEW i \in I, NEW j \in I, i < j
      PROVE  Place(I, i) < Place(I, j)
  <2> DEFINE A == {k \in I : k <= i}
             B == {k \in I : k <= j}
  <2>1. IsFiniteSet(B)
    <3>1. B \in SUBSET I
      OBVIOUS
    <3> QED
      BY <1>1, <3>1, FS_Subset
  <2>2. A \in SUBSET B /\ A # B
    <3>1. j \in B /\ j \notin A
      BY <1>3
    <3>2. A \in SUBSET B
      <4>1. i \in Int /\ j \in Int /\ \A k \in I : k \in Int
        OBVIOUS
      <4>2. \A k \in I : k <= i => k <= j
        BY <1>3, <4>1
      <4> QED
        BY <4>2
    <3> QED
      BY <3>1, <3>2
  <2>3. Cardinality(A) <= Cardinality(B) /\ Cardinality(A) # Cardinality(B) /\ IsFiniteSet(A)
    BY <2>1, <2>2, FS_Subset
  <2>4. Cardinality(A) \in Nat /\ Cardinality(B) \in Nat
    BY <2>1, <2>3, FS_CardinalityType
  <2> QED
    BY <2>3, <2>4 DEF Place
<1> QED
  BY <1>1, <1>2, <1>3

LEMMA PlaceEach ==
  ASSUME NEW L \in Nat, NEW I \in SUBSET (1 .. L)
  PROVE  /\ \A i, j \in I : Place(I, i) = Place(I, j) => i = j
         /\ \A n \in 1 .. Cardinality(I) : \E i \in I : Place(I, i) = n
<1> DEFINE N == 1 .. Cardinality(I)
           f == [i \in I |-> Place(I, i)]
<1>1. \A i, j \in I : Place(I, i) = Place(I, j) => i = j
  <2> SUFFICES ASSUME NEW i \in I, NEW j \in I, Place(I, i) = Place(I, j) PROVE i = j
    OBVIOUS
  <2>1. i \in Int /\ j \in Int
    OBVIOUS
  <2>2. Place(I, i) \in Int /\ ~ (i < j) /\ ~ (j < i)
    BY PlaceOrder
  <2> QED
    BY <2>1, <2>2
<1>2. Cardinality(I) \in Nat
  BY PlaceOrder
<1>3. IsFiniteSet(N) /\ Cardinality(N) = Cardinality(I)
  BY <1>2, FS_Interval
<1>4. f \in Injection(I, N)
  <2>1. \A i \in I : Place(I, i) \in N
    BY PlaceOrder
  <2> QED
    BY <1>1, <2>1 DEF Injection, IsInjective
<1> HIDE DEF N, f
<1>5. f \in Surjection(I, N)
  BY <1>3, <1>4, FS_Injection
<1>6. \A n \in N : \E i \in I : f[i] = n
  BY <1>5 DEF Surjection
<1> QED
  BY <1>1, <1>6 DEF f, N

LEMMA OnlyElements ==
  ASSUME NEW L \in Nat, NEW I \in SUBSET (1 .. L), NEW s
  PROVE  /\ DOMAIN Only(s, I) = 1 .. Cardinality(I)
         /\ \A i \in I : Only(s, I)[Place(I, i)] = s[i]
         /\ Only(s, I) = [n \in 1 .. Cardinality(I) |-> Only(s, I)[n]]
<1>1. Only(s, I) = [n \in 1 .. Cardinality(I) |-> s[CHOOSE i \in I : Place(I, i) = n]]
  BY DEF Only, Place
<1>2. ASSUME NEW i \in I
      PROVE  Only(s, I)[Place(I, i)] = s[i]
  <2> DEFINE n == Place(I, i)
             c == CHOOSE k \in I : Place(I, k) = n
  <2>1. n \in 1 .. Cardinality(I)
    BY PlaceOrder
  <2>2. c \in I /\ Place(I, c) = n
    OBVIOUS
  <2>3. c = i
    BY <2>2, PlaceEach
  <2> QED
    BY <1>1, <2>1, <2>3
<1> QED
  BY <1>1, <1>2

\* Keeping all places keeps the sequence.
LEMMA OnlyAll ==
  ASSUME NEW S, NEW s \in Seq(S)
  PROVE  Only(s, DOMAIN s) = s
<1>1. Len(s) \in Nat /\ DOMAIN s = 1 .. Len(s)
  OBVIOUS
<1> DEFINE I == 1 .. Len(s)
<1>2. ASSUME NEW i \in I
      PROVE  Place(I, i) = i
  <2>1. {j \in I : j <= i} = 1 .. i
    BY <1>1
  <2>2. Cardinality(1 .. i) = i
    BY FS_Interval
  <2> QED
    BY <2>1, <2>2 DEF Place
<1>3. Cardinality(I) = Len(s)
  <2>1. Len(s) \in Int /\ Len(s) >= 0
    BY <1>1
  <2>2. Cardinality(1 .. Len(s)) = IF 1 > Len(s) THEN 0 ELSE Len(s) - 1 + 1
    BY <2>1, FS_Interval
  <2> QED
    BY <2>1, <2>2
<1> HIDE DEF I
<1>4. I \in SUBSET (1 .. Len(s)) /\ I = 1 .. Len(s)
  BY DEF I
<1>5. Only(s, I) = [n \in 1 .. Len(s) |-> Only(s, I)[n]] /\ \A i \in I : Only(s, I)[i] = s[i]
  BY <1>1, <1>2, <1>3, <1>4, OnlyElements
<1>6. \A n \in 1 .. Len(s) : Only(s, I)[n] = s[n]
  BY <1>4, <1>5
<1>7. s = [n \in 1 .. Len(s) |-> s[n]]
  OBVIOUS
<1> QED
  BY <1>1, <1>4, <1>5, <1>6, <1>7

Closed(s, L, p) == [n \in 1 .. L |-> IF n < p THEN s[n] ELSE s[n + 1]]

\* Keeping all places but one closes the gap.
LEMMA OnlyOthers ==
  ASSUME NEW L \in Nat, NEW p \in 1 .. L + 1, NEW s
  PROVE  Only(s, (1 .. L + 1) \ {p}) = Closed(s, L, p)
<1> DEFINE I == (1 .. L + 1) \ {p}
<1>1. IsFiniteSet(1 .. L + 1) /\ Cardinality(1 .. L + 1) = L + 1
  BY FS_Interval
<1>2. Cardinality(I) = L
  <2>1. Cardinality(I) = Cardinality(1 .. L + 1) - 1
    BY <1>1, FS_RemoveElement
  <2> QED
    BY <1>1, <2>1
<1>3. ASSUME NEW i \in I
      PROVE  Place(I, i) = IF i < p THEN i ELSE i - 1
  <2>1. CASE i < p
    <3>1. {j \in I : j <= i} = 1 .. i
      BY <2>1
    <3>2. Cardinality(1 .. i) = i
      BY FS_Interval
    <3> QED
      BY <2>1, <3>1, <3>2 DEF Place
  <2>2. CASE ~ (i < p)
    <3>1. {j \in I : j <= i} = (1 .. i) \ {p}
      BY <2>2
    <3>2. IsFiniteSet(1 .. i) /\ Cardinality(1 .. i) = i
      BY FS_Interval
    <3>3. p \in 1 .. i
      BY <2>2
    <3>4. Cardinality((1 .. i) \ {p}) = i - 1
      BY <3>2, <3>3, FS_RemoveElement
    <3> QED
      BY <2>2, <3>1, <3>4 DEF Place
  <2> QED
    BY <2>1, <2>2
<1>4. I \in SUBSET (1 .. L + 1) /\ L + 1 \in Nat
  OBVIOUS
<1>5. Only(s, I) = [n \in 1 .. L |-> Only(s, I)[n]]
      /\ \A i \in I : Only(s, I)[Place(I, i)] = s[i]
  <2> HIDE DEF I
  <2> QED
    BY <1>2, <1>4, OnlyElements
<1>6. ASSUME NEW n \in 1 .. L
      PROVE  Only(s, I)[n] = IF n < p THEN s[n] ELSE s[n + 1]
  <2>1. CASE n < p
    <3>1. n \in I
      BY <2>1
    <3>2. Place(I, n) = n
      BY <1>3, <2>1, <3>1
    <3> QED
      BY <1>5, <2>1, <3>1, <3>2
  <2>2. CASE ~ (n < p)
    <3>1. n + 1 \in I /\ ~ (n + 1 < p)
      BY <2>2
    <3>2. Place(I, n + 1) = n
      <4>1. PICK m \in I : m = n + 1
        BY <3>1
      <4>2. Place(I, m) = m - 1
        BY <1>3, <3>1, <4>1
      <4> QED
        BY <4>1, <4>2
    <3> QED
      BY <1>5, <2>2, <3>1, <3>2
  <2> QED
    BY <2>1, <2>2
<1> QED
  BY <1>5, <1>6 DEF Closed

(***************************************************************************)
(* The activities of a node                                                *)
(***************************************************************************)

LEMMA EmptySequence ==
  ASSUME NEW S, NEW s \in Seq(S)
  PROVE  s = <<>> <=> Range(s) = {}
BY DEF Range

\* Taking out orders leaves the others, each as often as before.
LEMMA WithoutSome ==
  ASSUME NEW a \in Seq(Orders), NEW R
  PROVE  /\ Without(a, R) \in Seq(Orders)
         /\ Range(Without(a, R)) = Range(a) \ R
         /\ NoRepeat(a) => NoRepeat(Without(a, R))
<1> DEFINE I == {k \in DOMAIN a : a[k] \notin R}
           K == Cardinality(I)
           b == Without(a, R)
<1>1. Len(a) \in Nat /\ DOMAIN a = 1 .. Len(a) /\ \A k \in DOMAIN a : a[k] \in Orders
  OBVIOUS
<1>2. I \in SUBSET (1 .. Len(a)) /\ b = Only(a, I)
  BY <1>1 DEF Without
<1>3. \A k : k \in I <=> k \in DOMAIN a /\ a[k] \notin R
  OBVIOUS
<1> HIDE DEF I, b, K
<1>4. K \in Nat
  BY <1>1, <1>2, PlaceOrder DEF K
<1>5. DOMAIN b = 1 .. K /\ \A i \in I : b[Place(I, i)] = a[i]
  BY <1>1, <1>2, OnlyElements DEF K
<1>6. \A i \in I : Place(I, i) \in 1 .. K
  BY <1>1, <1>2, PlaceOrder DEF K
<1>7. /\ \A i, j \in I : Place(I, i) = Place(I, j) => i = j
      /\ \A n \in 1 .. K : \E i \in I : Place(I, i) = n
  BY <1>1, <1>2, PlaceEach DEF K
<1>8. b \in Seq(Orders)
  <2>1. b = [n \in 1 .. K |-> b[n]]
    BY <1>1, <1>2, OnlyElements DEF K
  <2>2. \A n \in 1 .. K : b[n] \in Orders
    BY <1>1, <1>3, <1>5, <1>7
  <2> QED
    BY <1>4, <2>1, <2>2
<1>9. Range(b) = Range(a) \ R
  <2>1. ASSUME NEW x \in Range(b) PROVE x \in Range(a) \ R
    <3>1. PICK n \in 1 .. K : b[n] = x
      BY <1>5 DEF Range
    <3>2. PICK i \in I : Place(I, i) = n
      BY <1>7
    <3> QED
      BY <1>3, <1>5, <3>1, <3>2 DEF Range
  <2>2. ASSUME NEW x \in Range(a), x \notin R PROVE x \in Range(b)
    <3>1. PICK i \in I : a[i] = x
      BY <1>3, <2>2 DEF Range
    <3> QED
      BY <1>5, <1>6, <3>1 DEF Range
  <2> QED
    BY <2>1, <2>2
<1>10. ASSUME NoRepeat(a) PROVE NoRepeat(b)
  <2> SUFFICES ASSUME NEW m \in 1 .. K, NEW n \in 1 .. K, b[m] = b[n] PROVE m = n
    BY <1>5 DEF NoRepeat
  <2>1. PICK i \in I : Place(I, i) = m
    BY <1>7
  <2>2. PICK j \in I : Place(I, j) = n
    BY <1>7
  <2>3. a[i] = a[j]
    BY <1>5, <2>1, <2>2
  <2>4. i = j
    BY <1>3, <1>10, <2>3 DEF NoRepeat
  <2> QED
    BY <2>1, <2>2, <2>4
<1> QED
  BY <1>8, <1>9, <1>10 DEF b

\* Taking out what is not there changes nothing.
LEMMA WithoutNone ==
  ASSUME NEW a \in Seq(Orders), NEW R, Range(a) \cap R = {}
  PROVE  Without(a, R) = a
<1>1. {k \in DOMAIN a : a[k] \notin R} = DOMAIN a
  BY DEF Range
<1> QED
  BY <1>1, OnlyAll DEF Without

\* Taking out the order appended last undoes the append.
LEMMA WithoutLast ==
  ASSUME NEW a \in Seq(Orders), NEW o \in Orders, o \notin Range(a)
  PROVE  Without(Append(a, o), {o}) = a
<1> DEFINE b == Append(a, o)
           L == Len(a)
<1>1. L \in Nat /\ DOMAIN a = 1 .. L /\ DOMAIN b = 1 .. L + 1 /\ b[L + 1] = o
      /\ (\A k \in 1 .. L : b[k] = a[k] /\ a[k] # o)
  BY DEF Range
<1> HIDE DEF L, b
<1>2. {k \in DOMAIN b : b[k] \notin {o}} = (1 .. L + 1) \ {L + 1}
  BY <1>1
<1>3. L + 1 \in 1 .. L + 1
  BY <1>1
<1>4. Without(b, {o}) = [n \in 1 .. L |-> IF n < L + 1 THEN b[n] ELSE b[n + 1]]
  <2>1. Without(b, {o}) = Closed(b, L, L + 1)
    BY <1>1, <1>2, <1>3, OnlyOthers DEF Without
  <2> QED
    BY <2>1 DEF Closed
<1>5. \A n \in 1 .. L : (IF n < L + 1 THEN b[n] ELSE b[n + 1]) = a[n]
  BY <1>1
<1>6. a = [n \in 1 .. L |-> a[n]]
  BY DEF L
<1> QED
  BY <1>4, <1>5, <1>6 DEF b

\* One more order, in front or behind.
LEMMA OneMore ==
  ASSUME NEW a \in Seq(Orders), NEW o \in Orders, NEW b, b \in {Append(a, o), <<o>> \o a}
  PROVE  /\ b \in Seq(Orders) /\ b # <<>>
         /\ Range(b) = Range(a) \cup {o}
         /\ NoRepeat(a) /\ o \notin Range(a) => NoRepeat(b)
<1> DEFINE L == Len(a)
<1>1. L \in Nat /\ DOMAIN a = 1 .. L /\ \A k \in 1 .. L : a[k] \in Orders
  OBVIOUS
<1>2. CASE b = Append(a, o)
  <2>1. /\ b \in Seq(Orders) /\ DOMAIN b = 1 .. L + 1 /\ b[L + 1] = o
        /\ \A k \in 1 .. L : b[k] = a[k]
    BY <1>2
  <2>2. 1 .. L + 1 = (1 .. L) \cup {L + 1}
    BY <1>1
  <2> HIDE DEF L
  <2>3. Range(b) = Range(a) \cup {o}
    BY <1>1, <2>1, <2>2 DEF Range
  <2>4. ASSUME NoRepeat(a), o \notin Range(a) PROVE NoRepeat(b)
    BY <1>1, <2>1, <2>2, <2>4 DEF Range, NoRepeat
  <2> QED
    BY <2>1, <2>3, <2>4, EmptySequence
<1>3. CASE b = <<o>> \o a
  <2>1. /\ b \in Seq(Orders) /\ DOMAIN b = 1 .. L + 1 /\ b[1] = o
        /\ \A k \in 2 .. L + 1 : b[k] = a[k - 1]
    BY <1>3
  <2>2. 1 .. L + 1 = (2 .. L + 1) \cup {1} /\ \A k \in 2 .. L + 1 : k - 1 \in 1 .. L
    BY <1>1
  <2>3. \A k \in 1 .. L : k + 1 \in 2 .. L + 1 /\ k + 1 - 1 = k
    BY <1>1
  <2> HIDE DEF L
  <2>4. \A k \in 1 .. L : k + 1 \in 2 .. L + 1 /\ b[k + 1] = a[k]
    BY <1>1, <2>1, <2>3
  <2>5. Range(b) = Range(a) \cup {o}
    <3>1. \A x \in Range(b) : x \in Range(a) \cup {o}
      BY <1>1, <2>1, <2>2 DEF Range
    <3>2. ASSUME NEW x \in Range(a) PROVE x \in Range(b)
      <4>1. PICK k \in 1 .. L : a[k] = x
        BY <1>1 DEF Range
      <4>2. k + 1 \in DOMAIN b /\ b[k + 1] = x
        BY <2>1, <2>2, <2>4, <4>1
      <4> QED
        BY <4>2 DEF Range
    <3>3. o \in Range(b)
      BY <2>1, <2>2 DEF Range
    <3> QED
      BY <3>1, <3>2, <3>3
  <2>6. ASSUME NoRepeat(a), o \notin Range(a) PROVE NoRepeat(b)
    <3>1. \A i, j \in 2 .. L + 1 : b[i] = b[j] => i = j
      <4> SUFFICES ASSUME NEW i \in 2 .. L + 1, NEW j \in 2 .. L + 1, b[i] = b[j] PROVE i = j
        OBVIOUS
      <4>1. i - 1 = j - 1
        BY <1>1, <2>1, <2>2, <2>6 DEF NoRepeat
      <4> QED
        BY <4>1
    <3>2. \A i \in 2 .. L + 1 : b[i] # o
      BY <1>1, <2>1, <2>2, <2>6 DEF Range
    <3> QED
      BY <2>1, <2>2, <3>1, <3>2 DEF NoRepeat
  <2> QED
    BY <2>1, <2>5, <2>6, EmptySequence
<1> QED
  BY <1>2, <1>3

(***************************************************************************)
(* Depots of a chain                                                       *)
(***************************************************************************)

LEMMA SeqByPlaces ==
  ASSUME NEW S, NEW L \in Nat, NEW f, f = [i \in 1 .. L |-> f[i]], \A i \in 1 .. L : f[i] \in S
  PROVE  f \in Seq(S) /\ Len(f) = L /\ DOMAIN f = 1 .. L
<1>1. f \in [1 .. L -> S]
  OBVIOUS
<1> QED
  BY <1>1

\* Places of a chain of L nodes: the depots, the pick node and those of the deliveries.
LEMMA Places ==
  ASSUME NEW L \in Nat, L >= 4
  PROVE  /\ 1 \in 1 .. L /\ 2 \in 1 .. L /\ L \in 1 .. L /\ L # 1 /\ L # 2
         /\ \A i \in 1 .. L : i = 1 \/ i = L \/ i \in 2 .. L - 1
         /\ \A i \in 2 .. L - 1 : i \in 1 .. L /\ i # 1 /\ i # L
         /\ \A i \in 2 .. L - 1 : i = 2 \/ i \in 3 .. L - 1
         /\ 2 \in 2 .. L - 1 /\ 3 \in 3 .. L - 1
         /\ \A i \in 3 .. L - 1 : i \in 2 .. L - 1 /\ i \in 1 .. L /\ i # 2 /\ i # 1 /\ i # L
OBVIOUS

LEMMA ChainPlaces ==
  ASSUME NEW r, Chain(r)
  PROVE  /\ Len(r) \in Nat /\ Len(r) >= 4 /\ DOMAIN r = 1 .. Len(r)
         /\ r = [i \in 1 .. Len(r) |-> r[i]]
         /\ DropPlaces(r) = 3 .. Len(r) - 1
         /\ \A i \in 1 .. Len(r) :
              /\ r[i] \in BareNodes
              /\ r[i].type \in NodeTypes /\ r[i].loc \in Locations /\ r[i].acts \in Seq(Orders)
              /\ r[i] = [type |-> r[i].type, loc |-> r[i].loc, acts |-> r[i].acts]
<1>1. r \in Seq(BareNodes) /\ Len(r) >= 4
  BY DEF Chain, Framed
<1>2. \A i \in 1 .. Len(r) : r[i] \in BareNodes
  BY <1>1
<1>3. ASSUME NEW x \in BareNodes
      PROVE  /\ x.type \in NodeTypes /\ x.loc \in Locations /\ x.acts \in Seq(Orders)
             /\ x = [type |-> x.type, loc |-> x.loc, acts |-> x.acts]
  BY DEF BareNodes
<1> QED
  BY <1>1, <1>2, <1>3 DEF DropPlaces

LEMMA MovedPlaces ==
  ASSUME NEW r, Chain(r), NEW v
  PROVE  /\ DOMAIN Moved(r, v) = 1 .. Len(r)
         /\ Moved(r, v) = [i \in 1 .. Len(r) |-> Moved(r, v)[i]]
         /\ Moved(r, v)[1] = At(r[1], OrigLoc[v])
         /\ Moved(r, v)[Len(r)] = At(r[Len(r)], DestLoc[v])
         /\ \A i \in 2 .. Len(r) - 1 : Moved(r, v)[i] = r[i]
<1> DEFINE m == Moved(r, v)
<1>1. Len(r) \in Nat /\ Len(r) >= 4 /\ DOMAIN r = 1 .. Len(r)
  BY ChainPlaces
<1>2. m = [i \in 1 .. Len(r) |-> IF i = 1 THEN At(r[i], OrigLoc[v])
                                ELSE IF i = Len(r) THEN At(r[i], DestLoc[v]) ELSE r[i]]
  BY <1>1 DEF Moved
<1> HIDE DEF m
<1>3. \A i \in 1 .. Len(r) : m[i] = IF i = 1 THEN At(r[i], OrigLoc[v])
                                ELSE IF i = Len(r) THEN At(r[i], DestLoc[v]) ELSE r[i]
  BY <1>2
<1>4. DOMAIN m = 1 .. Len(r) /\ m = [i \in 1 .. Len(r) |-> m[i]]
  BY <1>2, <1>3
<1>5. /\ 1 \in 1 .. Len(r) /\ Len(r) \in 1 .. Len(r) /\ Len(r) # 1
      /\ \A i \in 2 .. Len(r) - 1 : i \in 1 .. Len(r) /\ i # 1 /\ i # Len(r)
  BY <1>1, Places
<1> QED
  BY <1>3, <1>4, <1>5 DEF m

\* What a chain delivers depends on the nodes between the depots only.
LEMMA SameDelivers ==
  ASSUME NEW r, NEW m, NEW D, m[2] = r[2], \A i \in D : m[i] = r[i], Delivers(r, D)
  PROVE  Delivers(m, D)
<1>1. /\ \A o \in Range(r[2].acts) : r[2].loc = PickLoc[o] /\ \E i \in D : o \in Range(r[i].acts)
      /\ \A i \in D : r[i].type = "DROP" /\ r[i].acts # <<>> /\ NoRepeat(r[i].acts)
      /\ \A i \in D : \A o \in Range(r[i].acts) : o \in Range(r[2].acts) /\ r[i].loc = DropLoc[o]
      /\ \A i, j \in D :
           (\E o \in Orders : o \in Range(r[i].acts) /\ o \in Range(r[j].acts)) => i = j
  BY DEF Delivers
<1>2. \A o \in Range(m[2].acts) : m[2].loc = PickLoc[o] /\ \E i \in D : o \in Range(m[i].acts)
  BY <1>1
<1>3. \A i \in D : m[i].type = "DROP" /\ m[i].acts # <<>> /\ NoRepeat(m[i].acts)
  BY <1>1
<1>4. \A i \in D : \A o \in Range(m[i].acts) : o \in Range(m[2].acts) /\ m[i].loc = DropLoc[o]
  BY <1>1
<1>5. \A i, j \in D :
        (\E o \in Orders : o \in Range(m[i].acts) /\ o \in Range(m[j].acts)) => i = j
  BY <1>1
<1> QED
  BY <1>2, <1>3, <1>4, <1>5 DEF Delivers

LEMMA MovedChain ==
  ASSUME InstanceAssumption, NEW r, Chain(r), NEW v \in VehicleTypes
  PROVE  Chain(Moved(r, v)) /\ Len(Moved(r, v)) = Len(r)
<1> DEFINE m == Moved(r, v)
           L == Len(r)
<1>1. L \in Nat /\ L >= 4 /\ DropPlaces(r) = 3 .. L - 1
      /\ \A i \in 1 .. L : r[i] \in BareNodes /\ r[i].type \in NodeTypes
                           /\ r[i].loc \in Locations /\ r[i].acts \in Seq(Orders)
                           /\ r[i] = [type |-> r[i].type, loc |-> r[i].loc, acts |-> r[i].acts]
  BY ChainPlaces
<1>2. /\ m = [i \in 1 .. L |-> m[i]] /\ m[1] = At(r[1], OrigLoc[v])
      /\ m[L] = At(r[L], DestLoc[v]) /\ \A i \in 2 .. L - 1 : m[i] = r[i]
  BY MovedPlaces
<1>3. OrigLoc[v] \in Locations /\ DestLoc[v] \in Locations
  BY DEF InstanceAssumption
<1> HIDE DEF m, L
<1>4. ASSUME NEW i \in 1 .. L PROVE m[i] \in BareNodes
  <2>1. i = 1 \/ i = L \/ i \in 2 .. L - 1
    BY <1>1
  <2>2. \A x \in Locations : At(r[i], x) \in BareNodes
    BY <1>1 DEF At, BareNodes
  <2>3. r[i] \in BareNodes
    BY <1>1
  <2>4. CASE i = 1
    BY <1>2, <1>3, <2>2, <2>4
  <2>5. CASE i = L
    BY <1>2, <1>3, <2>2, <2>5
  <2>6. CASE i \in 2 .. L - 1
    <3>1. m[i] = r[i]
      BY <1>2, <2>6
    <3> QED
      BY <2>3, <3>1
  <2> QED
    BY <2>1, <2>4, <2>5, <2>6
<1>5. m \in Seq(BareNodes) /\ Len(m) = L
  BY <1>1, <1>2, <1>4, SeqByPlaces
<1>6. DropPlaces(m) = DropPlaces(r) /\ \A i \in DropPlaces(r) : i \in 2 .. L - 1
  BY <1>1, <1>5 DEF DropPlaces
<1>7. 2 \in 2 .. L - 1
  BY <1>1
<1>8. Framed(r) /\ Paired(r)
  BY DEF Chain
<1>9. Framed(m)
  <2>1. m[1].type = r[1].type /\ m[1].acts = r[1].acts /\ m[L].type = r[L].type /\ m[L].acts = r[L].acts
    BY <1>2 DEF At
  <2> QED
    BY <1>1, <1>2, <1>5, <1>6, <1>7, <1>8, <2>1 DEF Framed, L
<1>10. Paired(m)
  <2>1. m[2] = r[2] /\ \A i \in DropPlaces(r) : m[i] = r[i]
    BY <1>2, <1>6, <1>7
  <2> QED
    BY <1>6, <1>8, <2>1, SameDelivers DEF Paired
<1> QED
  BY <1>5, <1>9, <1>10 DEF Chain, m, L

LEMMA MovedTwice ==
  ASSUME InstanceAssumption, NEW r, Chain(r), NEW v \in VehicleTypes, NEW x
  PROVE  Moved(Moved(r, v), x) = Moved(r, x)
<1> DEFINE m == Moved(r, v)
           L == Len(r)
<1>1. L \in Nat /\ L >= 4
  BY ChainPlaces
<1>2. Chain(m) /\ Len(m) = L
  BY MovedChain
<1>3. /\ m[1] = At(r[1], OrigLoc[v]) /\ m[L] = At(r[L], DestLoc[v])
      /\ \A i \in 2 .. L - 1 : m[i] = r[i]
  BY MovedPlaces
<1>4. /\ Moved(r, x) = [i \in 1 .. L |-> Moved(r, x)[i]]
      /\ Moved(r, x)[1] = At(r[1], OrigLoc[x]) /\ Moved(r, x)[L] = At(r[L], DestLoc[x])
      /\ \A i \in 2 .. L - 1 : Moved(r, x)[i] = r[i]
  BY MovedPlaces
<1> HIDE DEF m
<1>5. /\ Moved(m, x) = [i \in 1 .. L |-> Moved(m, x)[i]]
      /\ Moved(m, x)[1] = At(m[1], OrigLoc[x]) /\ Moved(m, x)[L] = At(m[L], DestLoc[x])
      /\ \A i \in 2 .. L - 1 : Moved(m, x)[i] = m[i]
  <2>1. /\ Moved(m, x) = [i \in 1 .. Len(m) |-> Moved(m, x)[i]]
        /\ Moved(m, x)[1] = At(m[1], OrigLoc[x]) /\ Moved(m, x)[Len(m)] = At(m[Len(m)], DestLoc[x])
        /\ \A i \in 2 .. Len(m) - 1 : Moved(m, x)[i] = m[i]
    BY <1>2, MovedPlaces
  <2> QED
    BY <1>2, <2>1
<1>6. \A node, a, b : At(At(node, a), b) = At(node, b)
  BY DEF At
<1>7. ASSUME NEW i \in 1 .. L PROVE Moved(m, x)[i] = Moved(r, x)[i]
  <2>1. CASE i = 1
    BY <1>3, <1>4, <1>5, <1>6, <2>1
  <2>2. CASE i = L
    BY <1>3, <1>4, <1>5, <1>6, <2>2
  <2>3. CASE i \in 2 .. L - 1
    BY <1>3, <1>4, <1>5, <2>3
  <2> QED
    BY <1>1, <2>1, <2>2, <2>3
<1> QED
  BY <1>4, <1>5, <1>7 DEF m

\* A chain between the vehicle's depots stays where it is.
LEMMA MovedHome ==
  ASSUME NEW r, Chain(r), NEW v, r[1].loc = OrigLoc[v], r[Len(r)].loc = DestLoc[v]
  PROVE  Moved(r, v) = r
<1>1. Len(r) \in Nat /\ Len(r) >= 4 /\ r = [i \in 1 .. Len(r) |-> r[i]]
      /\ \A i \in 1 .. Len(r) : r[i] = [type |-> r[i].type, loc |-> r[i].loc, acts |-> r[i].acts]
  BY ChainPlaces
<1>2. /\ Moved(r, v) = [i \in 1 .. Len(r) |-> Moved(r, v)[i]]
      /\ Moved(r, v)[1] = At(r[1], OrigLoc[v]) /\ Moved(r, v)[Len(r)] = At(r[Len(r)], DestLoc[v])
      /\ \A i \in 2 .. Len(r) - 1 : Moved(r, v)[i] = r[i]
  BY MovedPlaces
<1>3. 1 \in 1 .. Len(r) /\ Len(r) \in 1 .. Len(r)
  BY <1>1
<1>4. At(r[1], OrigLoc[v]) = r[1] /\ At(r[Len(r)], DestLoc[v]) = r[Len(r)]
  <2>1. At(r[1], r[1].loc) = r[1]
    BY <1>1, <1>3 DEF At
  <2>2. At(r[Len(r)], r[Len(r)].loc) = r[Len(r)]
    BY <1>1, <1>3 DEF At
  <2> QED
    BY <2>1, <2>2
<1>5. ASSUME NEW i \in 1 .. Len(r) PROVE Moved(r, v)[i] = r[i]
  <2>1. i = 1 \/ i = Len(r) \/ i \in 2 .. Len(r) - 1
    BY <1>1
  <2> QED
    BY <1>2, <1>4, <2>1
<1> QED
  BY <1>1, <1>2, <1>5

(***************************************************************************)
(* One more order in a chain                                               *)
(***************************************************************************)

\* The node carries one more order, in front of the others or behind them.
Grows(node, more, o) ==
  /\ more.type = node.type /\ more.loc = node.loc /\ more \in BareNodes
  /\ more.acts \in {Append(node.acts, o), <<o>> \o node.acts}

LEMMA GrownActs ==
  \A node, more : \A o \in Orders : node.acts \in Seq(Orders) /\ Grows(node, more, o) =>
    /\ more.acts # <<>> /\ Range(more.acts) = Range(node.acts) \cup {o}
    /\ NoRepeat(node.acts) /\ o \notin Range(node.acts) => NoRepeat(more.acts)
    /\ more.type = node.type /\ more.loc = node.loc /\ more \in BareNodes
BY OneMore DEF Grows

\* An order that joins the delivery at a place.
LEMMA JoinedDelivers ==
  ASSUME NEW r, NEW D, Delivers(r, D), NEW o \in Orders, o \notin Range(r[2].acts),
         r[2].loc = PickLoc[o], NEW p \in D, r[p].loc = DropLoc[o],
         r[2].acts \in Seq(Orders), r[p].acts \in Seq(Orders),
         NEW g, \A i \in D : i # p => g[i] = r[i], Grows(r[2], g[2], o), Grows(r[p], g[p], o)
  PROVE  Delivers(g, D)
<1> DEFINE Old(i) == Range(r[i].acts)
           Now(i) == Range(g[i].acts)
<1>1. /\ Now(2) = Old(2) \cup {o} /\ g[2].loc = r[2].loc
      /\ Now(p) = Old(p) \cup {o} /\ g[p].type = r[p].type /\ g[p].loc = r[p].loc
      /\ g[p].acts # <<>> /\ (NoRepeat(r[p].acts) /\ o \notin Old(p) => NoRepeat(g[p].acts))
  <2>1. Now(2) = Old(2) \cup {o} /\ g[2].loc = r[2].loc
    BY GrownActs
  <2>2. Now(p) = Old(p) \cup {o} /\ g[p].type = r[p].type /\ g[p].loc = r[p].loc
    BY GrownActs
  <2>3. g[p].acts # <<>> /\ (NoRepeat(r[p].acts) /\ o \notin Old(p) => NoRepeat(g[p].acts))
    BY GrownActs
  <2> QED
    BY <2>1, <2>2, <2>3
<1>2. /\ \A i \in D : \A x \in Old(i) : x \in Old(2) /\ r[i].loc = DropLoc[x]
      /\ \A x \in Old(2) : r[2].loc = PickLoc[x] /\ \E i \in D : x \in Old(i)
      /\ \A i, j \in D : \A x \in Orders : x \in Old(i) /\ x \in Old(j) => i = j
  BY DEF Delivers
<1>3. \A i \in D : r[i].type = "DROP" /\ r[i].acts # <<>> /\ NoRepeat(r[i].acts)
  BY DEF Delivers
<1>4. \A i \in D : i # p => g[i] = r[i] /\ Now(i) = Old(i)
  OBVIOUS
<1>5. o \notin Old(2)
  OBVIOUS
<1> HIDE DEF Old, Now
<1>6. \A i \in D : g[i].type = "DROP" /\ g[i].acts # <<>> /\ NoRepeat(g[i].acts)
  BY <1>1, <1>2, <1>3, <1>4, <1>5
<1>7. \A x \in Now(2) : g[2].loc = PickLoc[x] /\ \E i \in D : x \in Now(i)
  BY <1>1, <1>2, <1>4
<1>8. \A i \in D : \A x \in Now(i) : x \in Now(2) /\ g[i].loc = DropLoc[x]
  BY <1>1, <1>2, <1>4
<1>9. \A i, j \in D : \A x \in Orders : x \in Now(i) /\ x \in Now(j) => i = j
  BY <1>1, <1>2, <1>4, <1>5
<1> QED
  BY <1>6, <1>7, <1>8, <1>9 DEF Delivers, Now

\* The stops of r at the places D are those of g at the places E but p.
Shifts(r, D, g, E, m, p) ==
  /\ m \in [D -> E] /\ p \in E
  /\ \A i \in E : i = p \/ \E j \in D : i = m[j]
  /\ \A i \in D : g[m[i]] = r[i]

\* An order that gets a place of its own.
LEMMA PartedDelivers ==
  ASSUME NEW r, NEW D, Delivers(r, D), NEW o \in Orders, o \notin Range(r[2].acts),
         r[2].loc = PickLoc[o], r[2].acts \in Seq(Orders),
         NEW E, NEW p, NEW m, NEW g, Shifts(r, D, g, E, m, p),
         Grows(r[2], g[2], o), g[p] = Stop(o)
  PROVE  Delivers(g, E)
<1> DEFINE Old(i) == Range(r[i].acts)
           Now(i) == Range(g[i].acts)
<1>1. Now(2) = Old(2) \cup {o} /\ g[2].loc = r[2].loc
  BY GrownActs
<1>2. /\ \A i \in D : \A x \in Old(i) : x \in Old(2) /\ r[i].loc = DropLoc[x]
      /\ \A x \in Old(2) : r[2].loc = PickLoc[x] /\ \E i \in D : x \in Old(i)
      /\ \A i, j \in D : \A x \in Orders : x \in Old(i) /\ x \in Old(j) => i = j
  BY DEF Delivers
<1>3. \A i \in D : r[i].type = "DROP" /\ r[i].acts # <<>> /\ NoRepeat(r[i].acts)
  BY DEF Delivers
<1>4. \A i \in D : m[i] \in E /\ g[m[i]] = r[i] /\ Now(m[i]) = Old(i)
  BY DEF Shifts
<1>11. p \in E /\ \A i \in E : i = p \/ \E j \in D : i = m[j]
  BY DEF Shifts
<1>5. o \notin Old(2)
  OBVIOUS
<1>6. /\ g[p].type = "DROP" /\ g[p].loc = DropLoc[o] /\ g[p].acts # <<>> /\ Now(p) = {o}
      /\ NoRepeat(g[p].acts)
  <2>1. g[p].type = "DROP" /\ g[p].loc = DropLoc[o] /\ g[p].acts = <<o>>
    BY DEF Stop
  <2>2. Range(<<o>>) = {o} /\ NoRepeat(<<o>>) /\ <<o>> # <<>>
    BY DEF Range, NoRepeat
  <2> QED
    BY <2>1, <2>2
<1> HIDE DEF Old, Now
<1>7. \A i \in E : g[i].type = "DROP" /\ g[i].acts # <<>> /\ NoRepeat(g[i].acts)
  BY <1>3, <1>4, <1>6, <1>11
<1>8. \A x \in Now(2) : g[2].loc = PickLoc[x] /\ \E i \in E : x \in Now(i)
  BY <1>1, <1>2, <1>4, <1>6, <1>11
<1>9. \A i \in E : \A x \in Now(i) : x \in Now(2) /\ g[i].loc = DropLoc[x]
  BY <1>1, <1>2, <1>4, <1>6, <1>11
<1>10. \A i, j \in E : \A x \in Orders : x \in Now(i) /\ x \in Now(j) => i = j
  BY <1>2, <1>4, <1>5, <1>6, <1>11
<1> QED
  BY <1>7, <1>8, <1>9, <1>10 DEF Delivers, Now

LEMMA JoinedChain ==
  ASSUME NEW r, Chain(r), NEW o \in Orders, o \notin Range(r[2].acts), r[2].loc = PickLoc[o],
         NEW p \in DropPlaces(r), r[p].loc = DropLoc[o],
         NEW g \in Seq(BareNodes), Len(g) = Len(r),
         \A i \in 1 .. Len(r) : i \notin {2, p} => g[i] = r[i],
         Grows(r[2], g[2], o), Grows(r[p], g[p], o)
  PROVE  Chain(g)
<1> DEFINE L == Len(r)
<1>1. L \in Nat /\ L >= 4 /\ DropPlaces(r) = 3 .. L - 1
  BY ChainPlaces
<1>2. Framed(r) /\ Paired(r)
  BY DEF Chain
<1>3. /\ 1 \in 1 .. L /\ 2 \in 1 .. L /\ p \in 1 .. L /\ L \in 1 .. L /\ 1 \notin {2, p} /\ L \notin {2, p}
      /\ \A i \in DropPlaces(r) : i \in 1 .. L /\ i # 2
  BY <1>1, Places
<1>4. DropPlaces(g) = DropPlaces(r)
  BY DEF DropPlaces
<1>5. r[2].acts \in Seq(Orders) /\ r[p].acts \in Seq(Orders)
  BY <1>3, ChainPlaces
<1>6. g[2].type = r[2].type /\ (NoRepeat(r[2].acts) => NoRepeat(g[2].acts))
  BY <1>5, GrownActs
<1>7. Framed(g)
  <2>1. g[1] = r[1] /\ g[L] = r[L]
    BY <1>3
  <2> QED
    BY <1>1, <1>2, <1>6, <2>1 DEF Framed
<1>8. Delivers(g, DropPlaces(r))
  <2>1. \A i \in DropPlaces(r) : i # p => g[i] = r[i]
    BY <1>3
  <2>2. Delivers(r, DropPlaces(r))
    BY <1>2 DEF Paired
  <2> DEFINE D == DropPlaces(r)
  <2> HIDE DEF D
  <2>3. p \in D /\ Delivers(r, D) /\ \A i \in D : i # p => g[i] = r[i]
    BY <2>1, <2>2 DEF D
  <2>4. Delivers(g, D)
    BY <1>5, <2>3, JoinedDelivers, SMTT(30)
  <2> QED
    BY <2>4 DEF D
<1> QED
  BY <1>2, <1>4, <1>6, <1>7, <1>8 DEF Chain, Paired

\* Where the place i of a sequence goes when a place p is added.
After(p, i) == IF i < p THEN i ELSE i + 1

LEMMA AfterPlaces ==
  ASSUME NEW L \in Nat, L >= 4, NEW p \in 3 .. L
  PROVE  /\ \A i \in 3 .. L - 1 : After(p, i) \in 3 .. L /\ After(p, i) # p
         /\ \A i \in 3 .. L : i = p \/ \E j \in 3 .. L - 1 : i = After(p, j)
         /\ \A i, j \in 3 .. L - 1 : After(p, i) = After(p, j) => i = j
         /\ After(p, L) = L + 1 /\ L + 1 \in Nat /\ L + 1 >= 4
         /\ \A i \in 1 .. L + 1 : i = 1 \/ i = 2 \/ i = L + 1 \/ i \in 3 .. L
<1>1. L \in Int /\ p \in Int /\ 3 <= p /\ p <= L
  OBVIOUS
<1>2. ASSUME NEW i \in 3 .. L - 1 PROVE After(p, i) \in 3 .. L /\ After(p, i) # p
  BY <1>1 DEF After
<1>3. ASSUME NEW i \in 3 .. L, i # p PROVE \E j \in 3 .. L - 1 : i = After(p, j)
  <2>1. CASE i < p
    <3>1. i \in 3 .. L - 1 /\ i = After(p, i)
      BY <1>1, <2>1 DEF After
    <3> QED
      BY <3>1
  <2>2. CASE ~ (i < p)
    <3>1. i - 1 \in 3 .. L - 1 /\ i = After(p, i - 1)
      BY <1>1, <1>3, <2>2 DEF After
    <3> QED
      BY <3>1
  <2> QED
    BY <2>1, <2>2
<1>4. ASSUME NEW i \in 3 .. L - 1, NEW j \in 3 .. L - 1, After(p, i) = After(p, j) PROVE i = j
  BY <1>1, <1>4 DEF After
<1>5. After(p, L) = L + 1
  BY <1>1 DEF After
<1>6. \A i \in 1 .. L + 1 : i = 1 \/ i = 2 \/ i = L + 1 \/ i \in 3 .. L
  BY <1>1
<1>7. L + 1 \in Nat /\ L + 1 >= 4
  BY <1>1
<1> QED
  BY <1>2, <1>3, <1>4, <1>5, <1>6, <1>7

LEMMA PartedChain ==
  ASSUME NEW r, Chain(r), NEW o \in Orders, o \notin Range(r[2].acts), r[2].loc = PickLoc[o],
         NEW p \in 3 .. Len(r), NEW g \in Seq(BareNodes), Len(g) = Len(r) + 1,
         Grows(r[2], g[2], o), g[p] = Stop(o), g[1] = r[1],
         \A i \in 3 .. Len(r) : g[After(p, i)] = r[i]
  PROVE  Chain(g)
<1> DEFINE L == Len(r)
           D == 3 .. L - 1
           E == 3 .. L
           m == [i \in D |-> After(p, i)]
<1>1. L \in Nat /\ L >= 4 /\ DropPlaces(r) = D
  BY ChainPlaces
<1>2. Framed(r) /\ Paired(r)
  BY DEF Chain
<1>3. After(p, L) = L + 1 /\ L + 1 \in Nat /\ L + 1 >= 4
  BY <1>1, AfterPlaces
<1>4. /\ \A i \in D : After(p, i) \in E
      /\ \A i \in E : i = p \/ \E j \in D : i = After(p, j)
  BY <1>1, AfterPlaces
<1>5. (\A i \in D : i \in E) /\ L \in E /\ 2 \in 1 .. L
  BY <1>1
<1>6. r[2].acts \in Seq(Orders)
  BY <1>5, ChainPlaces
<1>7. g[2].type = r[2].type /\ (NoRepeat(r[2].acts) => NoRepeat(g[2].acts))
  BY <1>6, GrownActs
<1>8. DropPlaces(g) = E
  <2>1. \A n \in Nat : n + 1 - 1 = n
    OBVIOUS
  <2>2. Len(g) - 1 = L
    BY <1>1, <2>1
  <2> QED
    BY <2>2 DEF DropPlaces
<1>9. Framed(g)
  <2>1. g[L + 1] = r[L]
    BY <1>3, <1>5
  <2> QED
    BY <1>1, <1>2, <1>3, <1>7, <2>1 DEF Framed
<1>10. Delivers(g, E)
  <2>1. Delivers(r, D)
    BY <1>1, <1>2 DEF Paired
  <2>2. m \in [D -> E] /\ \A i \in D : m[i] = After(p, i)
    BY <1>4
  <2>3. \A i \in D : g[After(p, i)] = r[i]
    BY <1>5
  <2>4. PICK k \in E : k = p
    OBVIOUS
  <2>7. g[k] = Stop(o)
    BY <2>4
  <2> HIDE DEF D, E, m
  <2>5. \A i \in D : g[m[i]] = r[i]
    BY <2>2, <2>3
  <2>6. \A i \in E : i = k \/ \E j \in D : i = m[j]
    BY <1>4, <2>2, <2>4
  <2>8. Shifts(r, D, g, E, m, k)
    BY <2>2, <2>5, <2>6 DEF Shifts
  <2> QED
    BY <1>6, <2>1, <2>7, <2>8, PartedDelivers
<1> QED
  BY <1>2, <1>7, <1>8, <1>9, <1>10 DEF Chain, Paired

(***************************************************************************)
(* An inserted order                                                       *)
(***************************************************************************)

LEMMA WithGrows ==
  \A node \in BareNodes : \A o \in Orders :
    /\ Grows(node, With(node, o), o)
    /\ With(node, o).type = node.type /\ With(node, o).loc = node.loc
    /\ With(node, o).acts = Append(node.acts, o)
    /\ With(node, o) \in BareNodes
<1> SUFFICES ASSUME NEW node \in BareNodes, NEW o \in Orders
             PROVE  /\ Grows(node, With(node, o), o)
                    /\ With(node, o).type = node.type /\ With(node, o).loc = node.loc
                    /\ With(node, o).acts = Append(node.acts, o)
                    /\ With(node, o) \in BareNodes
  OBVIOUS
<1>1. node.type \in NodeTypes /\ node.loc \in Locations /\ node.acts \in Seq(Orders)
  BY DEF BareNodes
<1>2. Append(node.acts, o) \in Seq(Orders)
  BY <1>1
<1>3. With(node, o) \in BareNodes
  BY <1>1, <1>2 DEF With, BareNodes
<1>4. /\ With(node, o).type = node.type /\ With(node, o).loc = node.loc
      /\ With(node, o).acts = Append(node.acts, o)
  BY DEF With
<1> QED
  BY <1>3, <1>4 DEF Grows

LEMMA StopIsStop ==
  ASSUME InstanceAssumption, NEW o \in Orders
  PROVE  Stop(o) \in BareNodes
<1>1. \A x \in Locations, s \in Seq(Orders) : [type |-> "DROP", loc |-> x, acts |-> s] \in BareNodes
  BY DEF BareNodes, NodeTypes
<1>2. DropLoc[o] \in Locations /\ <<o>> \in Seq(Orders)
  BY DEF InstanceAssumption
<1> QED
  BY <1>1, <1>2 DEF Stop

LEMMA JoinedPlaces ==
  ASSUME NEW r, Chain(r), NEW o \in Orders, NEW p \in DropPlaces(r)
  PROVE  /\ Joined(r, o, p) \in Seq(BareNodes) /\ Len(Joined(r, o, p)) = Len(r)
         /\ Joined(r, o, p)[2] = With(r[2], o) /\ Joined(r, o, p)[p] = With(r[p], o)
         /\ \A i \in 1 .. Len(r) : i \notin {2, p} => Joined(r, o, p)[i] = r[i]
<1> DEFINE g == Joined(r, o, p)
<1>1. Len(r) \in Nat /\ DOMAIN r = 1 .. Len(r) /\ \A i \in 1 .. Len(r) : r[i] \in BareNodes
  BY ChainPlaces
<1>2. 2 \in 1 .. Len(r) /\ p \in 1 .. Len(r)
  <2>1. Len(r) >= 4 /\ DropPlaces(r) = 3 .. Len(r) - 1
    BY ChainPlaces
  <2> QED
    BY <1>1, <2>1, Places
<1>3. g = [i \in 1 .. Len(r) |-> IF i \in {2, p} THEN With(r[i], o) ELSE r[i]]
  BY <1>1 DEF Joined
<1> HIDE DEF g
<1>4. \A i \in 1 .. Len(r) : g[i] = IF i \in {2, p} THEN With(r[i], o) ELSE r[i]
  BY <1>3
<1>5. \A i \in 1 .. Len(r) : g[i] \in BareNodes
  BY <1>1, <1>4, WithGrows
<1>6. g \in [1 .. Len(r) -> BareNodes]
  BY <1>3, <1>5
<1>7. g \in Seq(BareNodes) /\ Len(g) = Len(r)
  BY <1>1, <1>6
<1>8. g[2] = With(r[2], o) /\ g[p] = With(r[p], o)
  BY <1>2, <1>4
<1> QED
  BY <1>4, <1>7, <1>8 DEF g

LEMMA PartedPlaces ==
  ASSUME InstanceAssumption, NEW r, Chain(r), NEW o \in Orders, NEW p \in 3 .. Len(r)
  PROVE  /\ Parted(r, o, p) \in Seq(BareNodes) /\ Len(Parted(r, o, p)) = Len(r) + 1
         /\ Parted(r, o, p)[1] = r[1] /\ Parted(r, o, p)[2] = With(r[2], o)
         /\ Parted(r, o, p)[p] = Stop(o)
         /\ \A i \in 3 .. Len(r) : Parted(r, o, p)[After(p, i)] = r[i]
<1> DEFINE g == Parted(r, o, p)
           L == Len(r)
<1>1. L \in Nat /\ L >= 4 /\ \A i \in 1 .. L : r[i] \in BareNodes
  BY ChainPlaces
<1>2. g = [i \in 1 .. L + 1 |-> IF i = 2 THEN With(r[2], o)
                                ELSE IF i < p THEN r[i] ELSE IF i = p THEN Stop(o) ELSE r[i - 1]]
  BY DEF Parted
<1> HIDE DEF g
<1>3. p \in 3 .. L /\ p \in Int
  OBVIOUS
<1> HIDE DEF L
<1>4. 1 \in 1 .. L + 1 /\ 2 \in 1 .. L + 1 /\ p \in 1 .. L + 1 /\ 1 < p /\ p # 2
  BY <1>1, <1>3
<1>5. g[1] = r[1] /\ g[2] = With(r[2], o) /\ g[p] = Stop(o)
  BY <1>2, <1>4
<1>6. ASSUME NEW i \in 3 .. L PROVE g[After(p, i)] = r[i]
  <2>1. CASE i < p
    <3>1. i \in 1 .. L + 1 /\ i # 2 /\ After(p, i) = i
      BY <1>1, <1>3, <2>1 DEF After
    <3> QED
      BY <1>2, <2>1, <3>1
  <2>2. CASE ~ (i < p)
    <3>1. PICK k \in 1 .. L + 1 : k = i + 1 /\ k # 2 /\ ~ (k < p) /\ k # p /\ k - 1 = i
      BY <1>1, <1>3, <2>2
    <3>2. g[k] = r[i]
      BY <1>2, <3>1
    <3>3. After(p, i) = k
      BY <2>2, <3>1 DEF After
    <3> QED
      BY <3>2, <3>3
  <2> QED
    BY <2>1, <2>2
<1>7. ASSUME NEW i \in 1 .. L + 1 PROVE g[i] \in BareNodes
  <2>1. With(r[2], o) \in BareNodes
    <3>1. 2 \in 1 .. L
      BY <1>1
    <3> QED
      BY <1>1, <3>1, WithGrows
  <2>2. CASE i = 2 \/ i = p
    BY <1>5, <2>1, <2>2, StopIsStop
  <2>3. CASE i < p /\ i # 2
    <3>1. i \in 1 .. L
      BY <1>1, <1>3, <2>3
    <3> QED
      BY <1>1, <1>2, <2>3, <3>1
  <2>4. CASE ~ (i < p) /\ i # p /\ i # 2
    <3>1. i - 1 \in 1 .. L
      BY <1>1, <1>3, <2>4
    <3>2. g[i] = r[i - 1]
      BY <1>2, <2>4
    <3> QED
      BY <1>1, <3>1, <3>2
  <2> QED
    BY <2>2, <2>3, <2>4
<1>8. L + 1 \in Nat
  BY <1>1
<1>9. g \in [1 .. L + 1 -> BareNodes]
  BY <1>2, <1>7
<1>10. g \in Seq(BareNodes) /\ Len(g) = L + 1
  <2>1. PICK M \in Nat : M = L + 1
    BY <1>8
  <2>2. g \in [1 .. M -> BareNodes]
    BY <1>9, <2>1
  <2>3. g \in Seq(BareNodes) /\ Len(g) = M
    BY <2>2
  <2> QED
    BY <2>1, <2>3
<1> QED
  BY <1>5, <1>6, <1>10 DEF g, L

\* The two ways an order is inserted in front of a place p.
LEMMA PutCases ==
  ASSUME NEW r, Chain(r), NEW o \in Orders, NEW p \in 3 .. Len(r)
  PROVE  \/ \E q \in DropPlaces(r) : /\ r[q].loc = DropLoc[o] /\ q \in {p - 1, p}
                                     /\ PutAt(r, o, p) = Joined(r, o, q)
         \/ PutAt(r, o, p) = Parted(r, o, p)
<1>1. Len(r) \in Nat /\ Len(r) >= 4 /\ DropPlaces(r) = 3 .. Len(r) - 1
  BY ChainPlaces
<1>2. r[2].type = "PICK" /\ r[Len(r)].type = "END"
  BY DEF Chain, Framed
<1>3. ASSUME NEW q \in {p - 1, p}, r[q].type = "DROP" PROVE q \in DropPlaces(r)
  <2>1. q # 2 /\ q # Len(r)
    BY <1>2, <1>3
  <2>2. q \in 2 .. Len(r)
    BY <1>1
  <2> QED
    BY <1>1, <2>1, <2>2
<1>4. CASE JoinsAt(r, o, p - 1)
  BY <1>3, <1>4 DEF PutAt, JoinsAt
<1>5. CASE ~ JoinsAt(r, o, p - 1) /\ JoinsAt(r, o, p)
  BY <1>3, <1>5 DEF PutAt, JoinsAt
<1>6. CASE ~ JoinsAt(r, o, p - 1) /\ ~ JoinsAt(r, o, p)
  BY <1>6 DEF PutAt
<1> QED
  BY <1>4, <1>5, <1>6

LEMMA PutChains ==
  ASSUME InstanceAssumption,
         NEW r, Chain(r), NEW o \in Orders, o \notin Range(r[2].acts), r[2].loc = PickLoc[o]
  PROVE  /\ \A q \in DropPlaces(r) : r[q].loc = DropLoc[o] => Chain(Joined(r, o, q))
         /\ \A p \in 3 .. Len(r) : Chain(Parted(r, o, p))
         /\ \A p \in 3 .. Len(r) : Chain(PutAt(r, o, p))
<1>1. Len(r) \in Nat /\ Len(r) >= 4 /\ DropPlaces(r) = 3 .. Len(r) - 1
  BY ChainPlaces
<1>2. r[2] \in BareNodes /\ \A q \in DropPlaces(r) : r[q] \in BareNodes
  BY <1>1, Places, ChainPlaces
<1>3. Grows(r[2], With(r[2], o), o) /\ \A q \in DropPlaces(r) : Grows(r[q], With(r[q], o), o)
  BY <1>2, WithGrows
<1>4. ASSUME NEW q \in DropPlaces(r), r[q].loc = DropLoc[o]
      PROVE  Chain(Joined(r, o, q))
  <2> DEFINE g == Joined(r, o, q)
  <2>1. /\ g \in Seq(BareNodes) /\ Len(g) = Len(r)
        /\ g[2] = With(r[2], o) /\ g[q] = With(r[q], o)
        /\ \A i \in 1 .. Len(r) : i \notin {2, q} => g[i] = r[i]
    BY JoinedPlaces
  <2> HIDE DEF g
  <2>2. Grows(r[2], g[2], o) /\ Grows(r[q], g[q], o)
    BY <1>3, <2>1
  <2>3. Chain(g)
    BY <1>4, <2>1, <2>2, JoinedChain
  <2> QED
    BY <2>3 DEF g
<1>5. ASSUME NEW p \in 3 .. Len(r)
      PROVE  Chain(Parted(r, o, p))
  BY <1>3, PartedPlaces, PartedChain
<1>6. ASSUME NEW p \in 3 .. Len(r)
      PROVE  Chain(PutAt(r, o, p))
  <2>1. \/ \E q \in DropPlaces(r) : r[q].loc = DropLoc[o] /\ PutAt(r, o, p) = Joined(r, o, q)
        \/ PutAt(r, o, p) = Parted(r, o, p)
    BY PutCases
  <2>2. CASE PutAt(r, o, p) = Parted(r, o, p)
    BY <1>5, <2>2
  <2>3. ASSUME NEW q \in DropPlaces(r), r[q].loc = DropLoc[o], PutAt(r, o, p) = Joined(r, o, q)
        PROVE  Chain(PutAt(r, o, p))
    <3>1. Chain(Joined(r, o, q))
      BY <1>4, <2>3
    <3> QED
      BY <2>3, <3>1
  <2> QED
    BY <2>1, <2>2, <2>3
<1> QED
  BY <1>4, <1>5, <1>6

LEMMA SameSequence ==
  ASSUME NEW S, NEW s \in Seq(S), NEW t \in Seq(S), Len(s) = Len(t),
         \A i \in 1 .. Len(s) : s[i] = t[i]
  PROVE  s = t
<1>1. s = [i \in 1 .. Len(s) |-> s[i]] /\ t = [i \in 1 .. Len(t) |-> t[i]]
  OBVIOUS
<1> QED
  BY <1>1

\* Inserting and changing the depots do not meet.
LEMMA PutMoved ==
  ASSUME InstanceAssumption,
         NEW r, Chain(r), NEW o \in Orders, o \notin Range(r[2].acts), r[2].loc = PickLoc[o],
         NEW p \in 3 .. Len(r), NEW v \in VehicleTypes
  PROVE  PutAt(Moved(r, v), o, p) = Moved(PutAt(r, o, p), v)
<1> DEFINE L == Len(r)
           m == Moved(r, v)
<1>1. L \in Nat /\ L >= 4 /\ DropPlaces(r) = 3 .. L - 1
  BY ChainPlaces
<1>2. /\ m[1] = At(r[1], OrigLoc[v]) /\ m[L] = At(r[L], DestLoc[v])
      /\ \A i \in 2 .. L - 1 : m[i] = r[i]
  BY MovedPlaces
<1>3. Chain(m) /\ Len(m) = L
  BY MovedChain
<1>4. m \in Seq(BareNodes) /\ Len(m) = L /\ DropPlaces(m) = DropPlaces(r)
  BY <1>3 DEF Chain, Framed, DropPlaces
<1>5. 2 \in 2 .. L - 1 /\ 1 \in 1 .. L /\ 2 \in 1 .. L /\ L \in 1 .. L
      /\ (\A i \in DropPlaces(r) : i \in 2 .. L - 1 /\ i \in 1 .. L)
      /\ (\A i \in 1 .. L : i = 1 \/ i = L \/ i \in 2 .. L - 1)
  BY <1>1, Places
<1>6. m[2] = r[2]
  BY <1>2, <1>5
<1> HIDE DEF m
<1>7. \A i \in {p - 1, p} : JoinsAt(m, o, i) <=> JoinsAt(r, o, i)
  <2>1. \A i \in {p - 1, p} : i \in 2 .. L - 1 \/ i = L
    BY <1>1
  <2>2. m[L].type = "END" /\ r[L].type = "END"
    BY <1>3 DEF Chain, Framed
  <2> QED
    BY <1>2, <2>1, <2>2 DEF JoinsAt
<1>8. ASSUME NEW q \in DropPlaces(r), r[q].loc = DropLoc[o]
      PROVE  Joined(m, o, q) = Moved(Joined(r, o, q), v)
  <2> DEFINE g == Joined(r, o, q)
             h == Joined(m, o, q)
             k == Moved(g, v)
  <2>1. /\ g \in Seq(BareNodes) /\ Len(g) = L /\ g[2] = With(r[2], o) /\ g[q] = With(r[q], o)
        /\ \A i \in 1 .. L : i \notin {2, q} => g[i] = r[i]
    BY JoinedPlaces
  <2>2. /\ h \in Seq(BareNodes) /\ Len(h) = L /\ h[2] = With(m[2], o) /\ h[q] = With(m[q], o)
        /\ \A i \in 1 .. L : i \notin {2, q} => h[i] = m[i]
    BY <1>3, <1>4, JoinedPlaces
  <2>3. Chain(g)
    BY <1>8, PutChains
  <2> HIDE DEF g, h
  <2>4. /\ k[1] = At(g[1], OrigLoc[v]) /\ k[L] = At(g[L], DestLoc[v])
        /\ \A i \in 2 .. L - 1 : k[i] = g[i]
    <3>1. /\ k[1] = At(g[1], OrigLoc[v]) /\ k[Len(g)] = At(g[Len(g)], DestLoc[v])
          /\ \A i \in 2 .. Len(g) - 1 : k[i] = g[i]
      BY <2>3, MovedPlaces
    <3> QED
      BY <2>1, <3>1
  <2>5. k \in Seq(BareNodes) /\ Len(k) = L
    BY <2>1, <2>3, MovedChain DEF Chain, Framed
  <2> HIDE DEF k
  <2>6. 1 \notin {2, q} /\ L \notin {2, q}
    BY <1>1, Places
  <2>7. h[1] = k[1] /\ h[L] = k[L]
    BY <1>2, <1>5, <2>1, <2>2, <2>4, <2>6
  <2>8. ASSUME NEW i \in 2 .. L - 1 PROVE h[i] = k[i]
    <3>1. i \in 1 .. L /\ m[i] = r[i] /\ k[i] = g[i]
      BY <1>1, <1>2, <2>4
    <3>2. CASE i \in {2, q}
      BY <2>1, <2>2, <3>1, <3>2
    <3>3. CASE i \notin {2, q}
      BY <2>1, <2>2, <3>1, <3>3
    <3> QED
      BY <3>2, <3>3
  <2>9. h = k
    BY <1>5, <2>2, <2>5, <2>7, <2>8, SameSequence
  <2> QED
    BY <2>9 DEF g, h, k
<1>9. Parted(m, o, p) = Moved(Parted(r, o, p), v)
  <2> DEFINE g == Parted(r, o, p)
             h == Parted(m, o, p)
             k == Moved(g, v)
  <2>1. /\ g \in Seq(BareNodes) /\ Len(g) = L + 1 /\ g[1] = r[1] /\ g[2] = With(r[2], o)
        /\ g[p] = Stop(o) /\ \A i \in 3 .. L : g[After(p, i)] = r[i]
    BY PartedPlaces
  <2>2. /\ h \in Seq(BareNodes) /\ Len(h) = L + 1 /\ h[1] = m[1] /\ h[2] = With(m[2], o)
        /\ h[p] = Stop(o) /\ \A i \in 3 .. L : h[After(p, i)] = m[i]
    BY <1>3, PartedPlaces
  <2>3. Chain(g)
    BY PutChains
  <2> HIDE DEF g, h
  <2>4. Len(g) - 1 = L
    BY <1>1, <2>1
  <2>5. /\ k[1] = At(g[1], OrigLoc[v]) /\ k[L + 1] = At(g[L + 1], DestLoc[v])
        /\ \A i \in 2 .. L : k[i] = g[i]
    BY <2>1, <2>3, <2>4, MovedPlaces
  <2>6. k \in Seq(BareNodes) /\ Len(k) = L + 1
    BY <2>1, <2>3, MovedChain DEF Chain, Framed
  <2> HIDE DEF k
  <2>7. /\ After(p, L) = L + 1
        /\ \A i \in 1 .. L + 1 : i = 1 \/ i = 2 \/ i = L + 1 \/ i \in 3 .. L
    BY <1>1, AfterPlaces
  <2>8. /\ \A i \in 3 .. L - 1 : After(p, i) \in 3 .. L
        /\ \A i \in 3 .. L : i = p \/ \E j \in 3 .. L - 1 : i = After(p, j)
    BY <1>1, AfterPlaces
  <2>9. h[1] = k[1] /\ h[2] = k[2]
    <3>1. 2 \in 2 .. L
      BY <1>1
    <3> QED
      BY <1>2, <1>6, <2>1, <2>2, <2>5, <3>1
  <2>10. h[L + 1] = k[L + 1]
    <3>1. L \in 3 .. L
      BY <1>1
    <3>2. h[L + 1] = m[L] /\ g[L + 1] = r[L]
      BY <2>1, <2>2, <2>7, <3>1
    <3> QED
      BY <1>2, <2>5, <3>2
  <2>11. \A i \in 3 .. L : k[i] = g[i]
    <3>1. \A i \in 3 .. L : i \in 2 .. L
      BY <1>1
    <3> QED
      BY <2>5, <3>1
  <2>12. ASSUME NEW i \in 3 .. L PROVE h[i] = k[i]
    <3>1. CASE i = p
      BY <2>1, <2>2, <2>11, <3>1
    <3>2. CASE i # p
      <4>1. PICK j \in 3 .. L - 1 : i = After(p, j)
        BY <2>8, <3>2
      <4>2. j \in 3 .. L /\ j \in 2 .. L - 1
        BY <1>1
      <4>3. h[i] = m[j] /\ g[i] = r[j]
        BY <2>1, <2>2, <4>1, <4>2
      <4> QED
        BY <1>2, <2>11, <4>2, <4>3
    <3> QED
      BY <3>1, <3>2
  <2>13. \A i \in 1 .. Len(h) : h[i] = k[i]
    BY <2>2, <2>7, <2>9, <2>10, <2>12
  <2>14. h = k
    BY <2>2, <2>6, <2>13, SameSequence
  <2> QED
    BY <2>14 DEF g, h, k
<1>10. CASE JoinsAt(r, o, p - 1)
  <2>1. PutAt(m, o, p) = Joined(m, o, p - 1) /\ PutAt(r, o, p) = Joined(r, o, p - 1)
    BY <1>7, <1>10 DEF PutAt
  <2>2. p - 1 \in DropPlaces(r) /\ r[p - 1].loc = DropLoc[o]
    <3>1. r[p - 1].type # "PICK"
      BY <1>10 DEF JoinsAt
    <3>2. p - 1 # 2
      BY <3>1 DEF Chain, Framed
    <3> QED
      BY <1>1, <1>10, <3>2 DEF JoinsAt
  <2> QED
    BY <1>8, <2>1, <2>2 DEF m
<1>11. CASE ~ JoinsAt(r, o, p - 1) /\ JoinsAt(r, o, p)
  <2>1. PutAt(m, o, p) = Joined(m, o, p) /\ PutAt(r, o, p) = Joined(r, o, p)
    BY <1>7, <1>11 DEF PutAt
  <2>2. p \in DropPlaces(r) /\ r[p].loc = DropLoc[o]
    <3>1. r[p].type # "END"
      BY <1>11 DEF JoinsAt
    <3>2. p # L
      BY <3>1 DEF Chain, Framed
    <3> QED
      BY <1>1, <1>11, <3>2 DEF JoinsAt
  <2> QED
    BY <1>8, <2>1, <2>2 DEF m
<1>12. CASE ~ JoinsAt(r, o, p - 1) /\ ~ JoinsAt(r, o, p)
  <2>1. PutAt(m, o, p) = Parted(m, o, p) /\ PutAt(r, o, p) = Parted(r, o, p)
    BY <1>7, <1>12 DEF PutAt
  <2> QED
    BY <1>9, <2>1 DEF m
<1> QED
  BY <1>10, <1>11, <1>12

(***************************************************************************)
(* Removed orders                                                          *)
(***************************************************************************)

LEMMA LessActs ==
  \A node \in BareNodes : \A R :
    /\ Less(node, R) \in BareNodes /\ Less(node, R).type = node.type /\ Less(node, R).loc = node.loc
    /\ Less(node, R).acts = Without(node.acts, R)
    /\ Range(Less(node, R).acts) = Range(node.acts) \ R
    /\ NoRepeat(node.acts) => NoRepeat(Less(node, R).acts)
    /\ Range(node.acts) \cap R = {} => Less(node, R) = node
<1> SUFFICES ASSUME NEW node \in BareNodes, NEW R
             PROVE  /\ Less(node, R) \in BareNodes /\ Less(node, R).type = node.type
                    /\ Less(node, R).loc = node.loc
                    /\ Less(node, R).acts = Without(node.acts, R)
                    /\ Range(Less(node, R).acts) = Range(node.acts) \ R
                    /\ NoRepeat(node.acts) => NoRepeat(Less(node, R).acts)
                    /\ Range(node.acts) \cap R = {} => Less(node, R) = node
  OBVIOUS
<1>1. /\ node.type \in NodeTypes /\ node.loc \in Locations /\ node.acts \in Seq(Orders)
      /\ node = [type |-> node.type, loc |-> node.loc, acts |-> node.acts]
  BY DEF BareNodes
<1>2. /\ Without(node.acts, R) \in Seq(Orders) /\ Range(Without(node.acts, R)) = Range(node.acts) \ R
      /\ NoRepeat(node.acts) => NoRepeat(Without(node.acts, R))
  BY <1>1, WithoutSome
<1>3. /\ Less(node, R).type = node.type /\ Less(node, R).loc = node.loc
      /\ Less(node, R).acts = Without(node.acts, R)
  BY DEF Less
<1>4. Less(node, R) \in BareNodes
  BY <1>1, <1>2 DEF Less, BareNodes
<1>5. ASSUME Range(node.acts) \cap R = {} PROVE Less(node, R) = node
  <2>1. Without(node.acts, R) = node.acts
    BY <1>1, <1>5, WithoutNone
  <2> QED
    BY <1>1, <2>1 DEF Less
<1> QED
  BY <1>2, <1>3, <1>4, <1>5

\* No node of a chain but the depots is empty, and the depots carry nothing.
LEMMA ChainCarries ==
  ASSUME NEW r, Chain(r)
  PROVE  /\ r[2].acts # <<>> /\ \A i \in DropPlaces(r) : r[i].acts # <<>>
         /\ \A i \in DropPlaces(r) : Range(r[i].acts) \subseteq Range(r[2].acts)
         /\ Range(r[1].acts) = {} /\ Range(r[Len(r)].acts) = {}
         /\ r[2].type = "PICK" /\ r[1].type = "START" /\ r[Len(r)].type = "END"
         /\ \A i \in DropPlaces(r) : r[i].type = "DROP"
<1>1. /\ Len(r) \in Nat /\ Len(r) >= 4 /\ DropPlaces(r) = 3 .. Len(r) - 1
      /\ \A i \in 1 .. Len(r) : r[i].acts \in Seq(Orders)
  BY ChainPlaces
<1>2. Framed(r) /\ Delivers(r, DropPlaces(r))
  BY DEF Chain, Paired
<1>3. \A i \in DropPlaces(r) : r[i].acts # <<>> /\ r[i].type = "DROP"
  BY <1>2 DEF Delivers
<1>4. \A i \in DropPlaces(r) : Range(r[i].acts) \subseteq Range(r[2].acts)
  BY <1>2 DEF Delivers
<1>5. Range(<<>>) = {}
  BY DEF Range
<1>6. r[2].acts # <<>>
  <2>1. 3 \in DropPlaces(r) /\ 3 \in 1 .. Len(r) /\ 2 \in 1 .. Len(r)
    BY <1>1
  <2>2. Range(r[3].acts) # {}
    <3>1. r[3].acts \in Seq(Orders) /\ r[3].acts # <<>>
      BY <1>1, <1>3, <2>1
    <3> QED
      BY <3>1, EmptySequence
  <2>3. Range(r[2].acts) # {}
    BY <1>4, <2>1, <2>2
  <2> QED
    BY <1>5, <2>3
<1> QED
  BY <1>2, <1>3, <1>4, <1>5, <1>6 DEF Framed

\* Removing the order that was inserted restores the chain.
LEMMA ShornPut ==
  ASSUME InstanceAssumption,
         NEW r, Chain(r), NEW o \in Orders, o \notin Range(r[2].acts), r[2].loc = PickLoc[o],
         NEW p \in 3 .. Len(r)
  PROVE  Shorn(PutAt(r, o, p), {o}) = r
<1> DEFINE L == Len(r)
<1>1. /\ L \in Nat /\ L >= 4 /\ DropPlaces(r) = 3 .. L - 1 /\ \A i \in 1 .. L : r[i] \in BareNodes
      /\ r \in Seq(BareNodes)
  BY ChainPlaces DEF Chain, Framed
<1>2. /\ 1 \in 1 .. L /\ 2 \in 1 .. L /\ L \in 1 .. L
      /\ \A i \in 1 .. L : i = 1 \/ i = L \/ i = 2 \/ i \in DropPlaces(r)
  BY <1>1, Places
<1>3. /\ r[2].acts # <<>> /\ \A i \in DropPlaces(r) : r[i].acts # <<>>
      /\ r[1].type = "START" /\ r[L].type = "END"
  BY ChainCarries
<1>4. \A i \in 1 .. L : Less(r[i], {o}) = r[i]
  <2>1. \A i \in 1 .. L : o \notin Range(r[i].acts)
    BY <1>2, ChainCarries
  <2> QED
    BY <1>1, <2>1, LessActs
<1>5. \A i \in 1 .. L : Less(With(r[i], o), {o}) = r[i]
  <2> SUFFICES ASSUME NEW i \in 1 .. L PROVE Less(With(r[i], o), {o}) = r[i]
    OBVIOUS
  <2>1. o \notin Range(r[i].acts)
    BY <1>2, ChainCarries
  <2>2. r[i].acts \in Seq(Orders) /\ r[i] = [type |-> r[i].type, loc |-> r[i].loc, acts |-> r[i].acts]
    BY ChainPlaces
  <2>3. Without(Append(r[i].acts, o), {o}) = r[i].acts
    BY <2>1, <2>2, WithoutLast
  <2>4. /\ With(r[i], o).type = r[i].type /\ With(r[i], o).loc = r[i].loc
        /\ With(r[i], o).acts = Append(r[i].acts, o)
    BY DEF With
  <2> QED
    BY <2>2, <2>3, <2>4 DEF Less
<1>6. \A i \in 1 .. L : r[i].type \in {"START", "END"} \/ r[i].acts # <<>>
  BY <1>2, <1>3
<1>7. ASSUME NEW q \in DropPlaces(r)
      PROVE  Shorn(Joined(r, o, q), {o}) = r
  <2> DEFINE g == Joined(r, o, q)
             rest == [i \in DOMAIN g |-> Less(g[i], {o})]
  <2>1. /\ g \in Seq(BareNodes) /\ Len(g) = L /\ g[2] = With(r[2], o) /\ g[q] = With(r[q], o)
        /\ \A i \in 1 .. L : i \notin {2, q} => g[i] = r[i]
    BY JoinedPlaces
  <2>2. DOMAIN g = 1 .. L
    BY <2>1
  <2> HIDE DEF g
  <2>3. q \in 1 .. L
    BY <1>1, Places
  <2>4. ASSUME NEW i \in 1 .. L PROVE Less(g[i], {o}) = r[i]
    <3>1. CASE i \in {2, q}
      <4>1. g[i] = With(r[i], o)
        BY <2>1, <3>1
      <4> QED
        BY <1>5, <4>1
    <3>2. CASE i \notin {2, q}
      BY <1>4, <2>1, <3>2
    <3> QED
      BY <3>1, <3>2
  <2>5. rest = r
    <3>1. r = [i \in 1 .. L |-> r[i]]
      BY ChainPlaces
    <3> QED
      BY <2>2, <2>4, <3>1
  <2>6. Kept(g, {o}) = DOMAIN r
    <3>1. \A i \in 1 .. L : g[i].type = r[i].type /\ Without(g[i].acts, {o}) = r[i].acts
      <4> SUFFICES ASSUME NEW i \in 1 .. L
                   PROVE  g[i].type = r[i].type /\ Without(g[i].acts, {o}) = r[i].acts
        OBVIOUS
      <4>1. Less(g[i], {o}).type = g[i].type /\ Less(g[i], {o}).acts = Without(g[i].acts, {o})
        BY DEF Less
      <4> QED
        BY <2>4, <4>1
    <3>2. DOMAIN r = 1 .. L
      BY ChainPlaces
    <3> QED
      BY <1>6, <2>2, <3>1, <3>2 DEF Kept
  <2>7. Shorn(g, {o}) = Only(rest, Kept(g, {o}))
    BY DEF Shorn
  <2> HIDE DEF rest
  <2>8. Shorn(g, {o}) = r
    BY <1>1, <2>5, <2>6, <2>7, OnlyAll
  <2> QED
    BY <2>8 DEF g
<1>8. Shorn(Parted(r, o, p), {o}) = r
  <2> DEFINE g == Parted(r, o, p)
             rest == [i \in DOMAIN g |-> Less(g[i], {o})]
  <2>1. /\ g \in Seq(BareNodes) /\ Len(g) = L + 1 /\ g[1] = r[1] /\ g[2] = With(r[2], o)
        /\ g[p] = Stop(o) /\ \A i \in 3 .. L : g[After(p, i)] = r[i]
    BY PartedPlaces
  <2>2. DOMAIN g = 1 .. L + 1
    BY <2>1
  <2> HIDE DEF g
  <2>3. ASSUME NEW i \in 1 .. L + 1, i # p PROVE \E j \in 1 .. L : i = After(p, j)
    <3>1. CASE i < p
      <4>1. i \in 1 .. L /\ i = After(p, i)
        BY <1>1, <3>1 DEF After
      <4> QED
        BY <4>1
    <3>2. CASE ~ (i < p)
      <4>1. i - 1 \in 1 .. L /\ i = After(p, i - 1)
        BY <1>1, <2>3, <3>2 DEF After
      <4> QED
        BY <4>1
    <3> QED
      BY <3>1, <3>2
  <2>4. ASSUME NEW j \in 1 .. L PROVE Less(g[After(p, j)], {o}) = r[j]
    <3>1. CASE j \in 3 .. L
      BY <1>4, <2>1, <3>1
    <3>2. CASE j \notin 3 .. L
      <4>1. (j = 1 \/ j = 2) /\ After(p, j) = j
        BY <1>1, <3>2 DEF After
      <4>2. CASE j = 1
        BY <1>4, <2>1, <4>1, <4>2
      <4>3. CASE j = 2
        <5>1. g[After(p, j)] = With(r[j], o)
          BY <2>1, <4>1, <4>3
        <5> QED
          BY <1>5, <5>1
      <4> QED
        BY <4>1, <4>2, <4>3
    <3> QED
      BY <3>1, <3>2
  <2>5. Without(g[p].acts, {o}) = <<>> /\ g[p].type = "DROP"
    <3>1. g[p].acts = <<o>> /\ g[p].type = "DROP"
      BY <2>1 DEF Stop
    <3>2. <<o>> \in Seq(Orders) /\ Range(<<o>>) = {o}
      BY DEF Range
    <3>3. /\ Without(<<o>>, {o}) \in Seq(Orders)
          /\ Range(Without(<<o>>, {o})) = Range(<<o>>) \ {o}
      BY <3>2, WithoutSome, Zenon
    <3>4. Without(<<o>>, {o}) = <<>>
      BY <3>2, <3>3, EmptySequence
    <3> QED
      BY <3>1, <3>4
  <2>6. Kept(g, {o}) = (1 .. L + 1) \ {p}
    <3>1. ASSUME NEW j \in 1 .. L
          PROVE  g[After(p, j)].type = r[j].type /\ Without(g[After(p, j)].acts, {o}) = r[j].acts
      <4>1. /\ Less(g[After(p, j)], {o}).type = g[After(p, j)].type
            /\ Less(g[After(p, j)], {o}).acts = Without(g[After(p, j)].acts, {o})
        BY DEF Less
      <4> QED
        BY <2>4, <4>1
    <3>2. ASSUME NEW i \in 1 .. L + 1, i # p
          PROVE  g[i].type \in {"START", "END"} \/ Without(g[i].acts, {o}) # <<>>
      <4>1. PICK j \in 1 .. L : i = After(p, j)
        BY <2>3, <3>2
      <4> QED
        BY <1>6, <3>1, <4>1
    <3> QED
      BY <2>2, <2>5, <3>2 DEF Kept
  <2>7. Shorn(g, {o}) = Only(rest, (1 .. L + 1) \ {p})
    BY <2>6 DEF Shorn
  <2>8. \A i \in 1 .. L + 1 : rest[i] = Less(g[i], {o})
    BY <2>2
  <2> HIDE DEF rest
  <2>9. p \in 1 .. L + 1
    BY <1>1
  <2>10. Shorn(g, {o}) = [n \in 1 .. L |-> IF n < p THEN rest[n] ELSE rest[n + 1]]
    <3>1. Only(rest, (1 .. L + 1) \ {p}) = Closed(rest, L, p)
      BY <1>1, <2>9, OnlyOthers
    <3> QED
      BY <2>7, <3>1 DEF Closed
  <2>11. ASSUME NEW n \in 1 .. L PROVE (IF n < p THEN rest[n] ELSE rest[n + 1]) = r[n]
    <3>1. CASE n < p
      <4>1. n \in 1 .. L + 1 /\ After(p, n) = n
        BY <1>1, <3>1 DEF After
      <4> QED
        BY <2>4, <2>8, <3>1, <4>1
    <3>2. CASE ~ (n < p)
      <4>1. n + 1 \in 1 .. L + 1 /\ After(p, n) = n + 1
        BY <1>1, <3>2 DEF After
      <4> QED
        BY <2>4, <2>8, <3>2, <4>1
    <3> QED
      BY <3>1, <3>2
  <2>12. r = [n \in 1 .. L |-> r[n]]
    BY ChainPlaces
  <2>13. Shorn(g, {o}) = r
    BY <2>10, <2>11, <2>12
  <2> QED
    BY <2>13 DEF g
<1>9. \/ \E q \in DropPlaces(r) : PutAt(r, o, p) = Joined(r, o, q)
      \/ PutAt(r, o, p) = Parted(r, o, p)
  BY PutCases
<1> QED
  BY <1>7, <1>8, <1>9

\* The stops of r at the places D that keep something are those of g at the places E.
Shrinks(r, D, R, g, E, m) ==
  /\ m \in [{i \in D : Without(r[i].acts, R) # <<>>} -> E]
  /\ \A n \in E : \E i \in D : Without(r[i].acts, R) # <<>> /\ n = m[i]
  /\ \A i \in D : Without(r[i].acts, R) # <<>> => g[m[i]] = Less(r[i], R)

LEMMA ShornDelivers ==
  ASSUME NEW r, NEW D, Delivers(r, D), r[2] \in BareNodes, \A i \in D : r[i] \in BareNodes,
         NEW R, NEW E, NEW m, NEW g, Shrinks(r, D, R, g, E, m), g[2] = Less(r[2], R)
  PROVE  Delivers(g, E)
<1> DEFINE Old(i) == Range(r[i].acts)
           Now(i) == Range(g[i].acts)
           Stays(i) == Without(r[i].acts, R) # <<>>
<1>1. Now(2) = Old(2) \ R /\ g[2].loc = r[2].loc
  BY LessActs
<1>2. /\ \A i \in D : \A x \in Old(i) : x \in Old(2) /\ r[i].loc = DropLoc[x]
      /\ \A x \in Old(2) : r[2].loc = PickLoc[x] /\ \E i \in D : x \in Old(i)
      /\ \A i, j \in D : \A x \in Orders : x \in Old(i) /\ x \in Old(j) => i = j
  BY DEF Delivers
<1>3. \A i \in D : r[i].type = "DROP" /\ NoRepeat(r[i].acts)
  BY DEF Delivers
<1>4. \A i \in D : Stays(i) => m[i] \in E /\ g[m[i]] = Less(r[i], R)
  BY DEF Shrinks
<1>5. \A n \in E : \E i \in D : Stays(i) /\ n = m[i]
  BY DEF Shrinks
<1>6. \A i \in D : /\ Less(r[i], R).type = r[i].type /\ Less(r[i], R).loc = r[i].loc
                   /\ Less(r[i], R).acts = Without(r[i].acts, R)
                   /\ Range(Less(r[i], R).acts) = Old(i) \ R
                   /\ NoRepeat(r[i].acts) => NoRepeat(Less(r[i], R).acts)
  BY LessActs
<1>7. \A i \in D : Stays(i) =>
        /\ g[m[i]].type = r[i].type /\ g[m[i]].loc = r[i].loc /\ g[m[i]].acts # <<>>
        /\ Now(m[i]) = Old(i) \ R /\ NoRepeat(g[m[i]].acts)
  BY <1>3, <1>4, <1>6
<1>8. ASSUME NEW i \in D, NEW x \in Old(i), x \notin R PROVE Stays(i)
  <2>1. r[i].acts \in Seq(Orders)
    BY DEF BareNodes
  <2>2. Range(Without(r[i].acts, R)) = Old(i) \ R
    BY <2>1, WithoutSome
  <2>3. Range(<<>>) = {}
    BY DEF Range
  <2> QED
    BY <1>8, <2>2, <2>3
<1>9. \A i \in D : Stays(i) => m[i] \in E
  BY <1>4
<1> HIDE DEF Old, Now, Stays
<1>10. \A n \in E : g[n].type = "DROP" /\ g[n].acts # <<>> /\ NoRepeat(g[n].acts)
  BY <1>3, <1>5, <1>7
<1>11. \A x \in Now(2) : g[2].loc = PickLoc[x] /\ \E n \in E : x \in Now(n)
  <2> SUFFICES ASSUME NEW x \in Now(2) PROVE g[2].loc = PickLoc[x] /\ \E n \in E : x \in Now(n)
    OBVIOUS
  <2>1. x \in Old(2) /\ x \notin R
    BY <1>1
  <2>2. PICK i \in D : x \in Old(i)
    BY <1>2, <2>1
  <2>3. Stays(i)
    BY <1>8, <2>1, <2>2
  <2>4. m[i] \in E /\ x \in Now(m[i])
    BY <1>7, <1>9, <2>1, <2>2, <2>3
  <2> QED
    BY <1>1, <1>2, <2>1, <2>4
<1>12. \A n \in E : \A x \in Now(n) : x \in Now(2) /\ g[n].loc = DropLoc[x]
  BY <1>1, <1>2, <1>5, <1>7
<1>13. \A k, n \in E : \A x \in Orders : x \in Now(k) /\ x \in Now(n) => k = n
  <2> SUFFICES ASSUME NEW k \in E, NEW n \in E, NEW x \in Orders, x \in Now(k), x \in Now(n)
               PROVE  k = n
    OBVIOUS
  <2>1. PICK i \in D : Stays(i) /\ k = m[i]
    BY <1>5
  <2>2. PICK j \in D : Stays(j) /\ n = m[j]
    BY <1>5
  <2>3. x \in Old(i) /\ x \in Old(j)
    BY <1>7, <2>1, <2>2
  <2>4. i = j
    BY <1>2, <2>3
  <2> QED
    BY <2>1, <2>2, <2>4
<1> QED
  BY <1>10, <1>11, <1>12, <1>13 DEF Delivers, Now

\* The depots, the pick node and a stop keep their ends of the chain.
LEMMA EndPlaces ==
  ASSUME NEW L \in Nat, L >= 4, NEW d \in 3 .. L - 1,
         NEW I \in SUBSET (1 .. L), 1 \in I, 2 \in I, d \in I, L \in I
  PROVE  /\ Place(I, 1) = 1 /\ Place(I, 2) = 2 /\ Place(I, L) = Cardinality(I)
         /\ Cardinality(I) \in Nat /\ Cardinality(I) >= 4
<1>0. \A j \in I : j <= L /\ (j <= 1 <=> j = 1) /\ (j <= 2 <=> j = 1 \/ j = 2)
  <2> SUFFICES ASSUME NEW j \in 1 .. L
               PROVE  j <= L /\ (j <= 1 <=> j = 1) /\ (j <= 2 <=> j = 1 \/ j = 2)
    OBVIOUS
  <2> QED
    OBVIOUS
<1>1. Cardinality(I) \in Nat
  BY PlaceOrder
<1>2. Place(I, 1) = 1
  <2>1. {j \in I : j <= 1} = {1}
    BY <1>0
  <2> QED
    BY <2>1, FS_Singleton DEF Place
<1>3. Place(I, 2) = 2
  <2>1. {j \in I : j <= 2} = {1} \cup {2}
    BY <1>0
  <2>2. IsFiniteSet({1}) /\ Cardinality({1}) = 1
    BY FS_Singleton
  <2>3. Cardinality({1} \cup {2}) = Cardinality({1}) + 1
    <3>1. 2 \notin {1}
      OBVIOUS
    <3> QED
      BY <2>2, <3>1, FS_AddElement
  <2>4. Cardinality({1} \cup {2}) = 2
    BY <2>2, <2>3
  <2> QED
    BY <2>1, <2>4 DEF Place
<1>4. Place(I, L) = Cardinality(I)
  <2>1. {j \in I : j <= L} = I
    BY <1>0
  <2> QED
    BY <2>1 DEF Place
<1>5. Place(I, 2) < Place(I, d) /\ Place(I, d) < Place(I, L) /\ Place(I, d) \in Int
  <2>1. \A i \in I : Place(I, i) \in 1 .. Cardinality(I)
    BY PlaceOrder
  <2>2. \A i, j \in I : i < j => Place(I, i) < Place(I, j)
    BY PlaceOrder
  <2>3. 2 < d /\ d < L
    OBVIOUS
  <2> QED
    BY <1>1, <2>1, <2>2, <2>3
<1> QED
  BY <1>1, <1>2, <1>3, <1>4, <1>5

\* Removing some of the orders of a chain leaves a chain.
LEMMA ShornChainOf ==
  ASSUME NEW r, Chain(r), NEW R, NEW x \in Range(r[2].acts), x \notin R,
         NEW L \in Nat, L = Len(r)
  PROVE  /\ Chain(Shorn(r, R)) /\ Range(Shorn(r, R)[2].acts) = Range(r[2].acts) \ R
         /\ Shorn(r, R)[1].loc = r[1].loc
         /\ Shorn(r, R)[Len(Shorn(r, R))].loc = r[Len(r)].loc
<1> DEFINE D == DropPlaces(r)
           I == Kept(r, R)
           K == Cardinality(I)
           rest == [i \in DOMAIN r |-> Less(r[i], R)]
           g == Shorn(r, R)
           Stays(i) == Without(r[i].acts, R) # <<>>
<1>1. /\ L >= 4 /\ D = 3 .. L - 1 /\ DOMAIN r = 1 .. L
      /\ \A i \in 1 .. L : r[i] \in BareNodes /\ r[i].acts \in Seq(Orders)
  BY ChainPlaces
<1>2. /\ 1 \in 1 .. L /\ 2 \in 1 .. L /\ L \in 1 .. L
      /\ (\A i \in 1 .. L : i = 1 \/ i = L \/ i = 2 \/ i \in D)
      /\ \A i \in D : i \in 1 .. L
  BY <1>1, Places
<1>3. Framed(r) /\ Paired(r)
  BY DEF Chain
<1>4. /\ r[1].type = "START" /\ r[L].type = "END" /\ r[2].type = "PICK"
      /\ \A i \in D : r[i].type = "DROP"
  BY ChainCarries
<1>5. \A i \in 1 .. L : i \in I <=> i = 1 \/ i = L \/ Stays(i)
  BY <1>1, <1>2, <1>4 DEF Kept
<1>6. I \in SUBSET (1 .. L)
  BY <1>1 DEF Kept
<1>7. \A i \in 1 .. L : (\E o \in Range(r[i].acts) : o \notin R) => Stays(i)
  <2> SUFFICES ASSUME NEW i \in 1 .. L, NEW o \in Range(r[i].acts), o \notin R PROVE Stays(i)
    OBVIOUS
  <2>1. Range(Without(r[i].acts, R)) = Range(r[i].acts) \ R
    BY <1>1, WithoutSome
  <2>2. Range(<<>>) = {}
    BY DEF Range
  <2> QED
    BY <2>1, <2>2
<1>8. PICK d \in D : x \in Range(r[d].acts)
  BY <1>3 DEF Paired, Delivers
<1>9. 1 \in I /\ 2 \in I /\ d \in I /\ L \in I /\ d \in 3 .. L - 1
  BY <1>1, <1>2, <1>5, <1>7, <1>8
<1>10. \A i \in D : Stays(i) <=> i \in I
  <2>1. \A i \in D : i # 1 /\ i # L
    BY <1>1
  <2> QED
    BY <1>2, <1>5, <2>1
<1>11. g = Only(rest, I) /\ \A i \in I : rest[i] = Less(r[i], R)
  BY <1>1, <1>6 DEF Shorn
<1> HIDE DEF I, K, rest, g, Stays
<1>12. /\ K \in Nat /\ (\A i \in I : Place(I, i) \in 1 .. K)
       /\ \A i, j \in I : i < j => Place(I, i) < Place(I, j)
  BY <1>1, <1>6, PlaceOrder DEF K
<1>13. \A n \in 1 .. K : \E i \in I : Place(I, i) = n
  BY <1>1, <1>6, PlaceEach DEF K
<1>14. /\ DOMAIN g = 1 .. K /\ (\A i \in I : g[Place(I, i)] = Less(r[i], R))
       /\ g = [n \in 1 .. K |-> g[n]]
  <2>1. /\ DOMAIN Only(rest, I) = 1 .. Cardinality(I)
        /\ \A i \in I : Only(rest, I)[Place(I, i)] = rest[i]
        /\ Only(rest, I) = [n \in 1 .. Cardinality(I) |-> Only(rest, I)[n]]
    BY <1>6, OnlyElements
  <2> QED
    BY <1>11, <2>1 DEF K
<1>15. Place(I, 1) = 1 /\ Place(I, 2) = 2 /\ Place(I, L) = K
  BY <1>1, <1>6, <1>9, EndPlaces DEF K
<1>16. K >= 4
  BY <1>1, <1>6, <1>9, EndPlaces DEF K
<1>17. g[1] = Less(r[1], R) /\ g[2] = Less(r[2], R) /\ g[K] = Less(r[L], R)
  BY <1>9, <1>14, <1>15
<1>18. g \in Seq(BareNodes) /\ Len(g) = K
  <2>1. \A i \in I : Less(r[i], R) \in BareNodes
    BY <1>1, <1>6, LessActs
  <2>2. \A n \in 1 .. K : g[n] \in BareNodes
    BY <1>13, <1>14, <2>1
  <2>3. g \in [1 .. K -> BareNodes]
    BY <1>14, <2>2
  <2> QED
    BY <1>12, <2>3
<1>19. DropPlaces(g) = 3 .. K - 1
  BY <1>18 DEF DropPlaces
<1>20. /\ r[1] \in BareNodes /\ r[2] \in BareNodes /\ r[L] \in BareNodes
       /\ r[1].acts = <<>> /\ r[L].acts = <<>>
  BY <1>1, <1>2, <1>3 DEF Framed
<1>21. /\ g[1].type = "START" /\ g[1].acts = <<>> /\ g[1].loc = r[1].loc
       /\ g[K].type = "END" /\ g[K].acts = <<>> /\ g[K].loc = r[L].loc
  <2>1. Range(<<>>) = {}
    BY DEF Range
  <2>2. Less(r[1], R) = r[1] /\ Less(r[L], R) = r[L]
    BY <1>20, <2>1, LessActs
  <2> QED
    BY <1>4, <1>17, <1>20, <2>2
<1>22. /\ g[2].type = "PICK" /\ NoRepeat(g[2].acts)
       /\ Range(g[2].acts) = Range(r[2].acts) \ R
  <2>1. NoRepeat(r[2].acts)
    BY <1>3 DEF Paired
  <2>2. /\ Less(r[2], R).type = r[2].type /\ NoRepeat(Less(r[2], R).acts)
        /\ Range(Less(r[2], R).acts) = Range(r[2].acts) \ R
    BY <1>20, <2>1, LessActs
  <2> QED
    BY <1>4, <1>17, <2>2
<1>23. Delivers(g, 3 .. K - 1)
  <2> DEFINE E == 3 .. K - 1
             m == [i \in {j \in D : Stays(j)} |-> Place(I, i)]
  <2>1. ASSUME NEW i \in D, Stays(i) PROVE Place(I, i) \in E
    <3>1. i \in I /\ 2 < i /\ i < L
      BY <1>1, <1>10, <2>1
    <3>2. Place(I, 2) < Place(I, i) /\ Place(I, i) < Place(I, L) /\ Place(I, i) \in Int
      BY <1>9, <1>12, <3>1
    <3> QED
      BY <1>12, <1>15, <3>2
  <2>2. ASSUME NEW n \in E PROVE \E i \in D : Stays(i) /\ n = Place(I, i)
    <3>1. n \in 1 .. K /\ n # 1 /\ n # 2 /\ n # K
      BY <1>12
    <3>2. PICK i \in I : Place(I, i) = n
      BY <1>13, <3>1
    <3>3. i \in 1 .. L /\ i # 1 /\ i # 2 /\ i # L
      BY <1>6, <1>15, <3>1, <3>2
    <3>4. i \in D
      BY <1>2, <3>3
    <3> QED
      BY <1>10, <3>2, <3>4
  <2>3. \A i \in D : Stays(i) => g[Place(I, i)] = Less(r[i], R)
    BY <1>10, <1>14
  <2> HIDE DEF E, D
  <2>4. Shrinks(r, D, R, g, E, m)
    <3>1. m \in [{j \in D : Stays(j)} -> E] /\ \A i \in D : Stays(i) => m[i] = Place(I, i)
      BY <2>1
    <3> HIDE DEF m
    <3>2. \A n \in E : \E i \in D : Stays(i) /\ n = m[i]
      BY <2>2, <3>1
    <3>3. \A i \in D : Stays(i) => g[m[i]] = Less(r[i], R)
      BY <2>3, <3>1
    <3> QED
      BY <3>1, <3>2, <3>3 DEF Shrinks, Stays
  <2>5. Delivers(r, D)
    BY <1>3 DEF Paired, D
  <2>6. \A i \in D : r[i] \in BareNodes
    BY <1>1, <1>2 DEF D
  <2> HIDE DEF m
  <2>7. Delivers(g, E)
    BY <1>17, <1>20, <2>4, <2>5, <2>6, ShornDelivers
  <2> QED
    BY <2>7 DEF E
<1>24. Framed(g)
  BY <1>16, <1>18, <1>21, <1>22 DEF Framed
<1>25. Chain(g)
  BY <1>19, <1>22, <1>23, <1>24 DEF Chain, Paired
<1> QED
  BY <1>18, <1>21, <1>22, <1>25 DEF g

\* Removing some of the orders of a chain leaves a chain.
LEMMA ShornChain ==
  ASSUME NEW r, Chain(r), NEW R, NEW x \in Range(r[2].acts), x \notin R
  PROVE  /\ Chain(Shorn(r, R)) /\ Range(Shorn(r, R)[2].acts) = Range(r[2].acts) \ R
         /\ Shorn(r, R)[1].loc = r[1].loc
         /\ Shorn(r, R)[Len(Shorn(r, R))].loc = r[Len(r)].loc
<1>1. PICK L \in Nat : L = Len(r)
  BY ChainPlaces
<1> QED
  BY <1>1, ShornChainOf

(***************************************************************************)
(* The route of a load's nodes                                             *)
(***************************************************************************)

Bare(node) == [type |-> node.type, loc |-> node.loc, acts |-> node.acts]

LEMMA BareNode ==
  \A node \in Nodes :
    /\ Bare(node) \in BareNodes
    /\ Bare(node).type = node.type /\ Bare(node).loc = node.loc /\ Bare(node).acts = node.acts
    /\ node.type \in NodeTypes /\ node.loc \in Locations /\ node.acts \in Seq(Orders)
    /\ \A d \in Nat : /\ [node EXCEPT !.dist = d] \in Nodes
                      /\ [node EXCEPT !.dist = d].dist = d
                      /\ Bare([node EXCEPT !.dist = d]) = Bare(node)
<1> SUFFICES ASSUME NEW node \in Nodes
             PROVE  /\ Bare(node) \in BareNodes
                    /\ Bare(node).type = node.type /\ Bare(node).loc = node.loc
                    /\ Bare(node).acts = node.acts
                    /\ node.type \in NodeTypes /\ node.loc \in Locations /\ node.acts \in Seq(Orders)
                    /\ \A d \in Nat : /\ [node EXCEPT !.dist = d] \in Nodes
                                      /\ [node EXCEPT !.dist = d].dist = d
                                      /\ Bare([node EXCEPT !.dist = d]) = Bare(node)
  OBVIOUS
<1>1. /\ node.type \in NodeTypes /\ node.loc \in Locations /\ node.acts \in Seq(Orders)
      /\ node = [type |-> node.type, loc |-> node.loc, acts |-> node.acts, dist |-> node.dist]
  BY DEF Nodes
<1>2. Bare(node) \in BareNodes
  BY <1>1 DEF Bare, BareNodes
<1>3. ASSUME NEW d \in Nat
      PROVE  /\ [node EXCEPT !.dist = d] \in Nodes
             /\ [node EXCEPT !.dist = d].dist = d
             /\ Bare([node EXCEPT !.dist = d]) = Bare(node)
  <2>1. [node EXCEPT !.dist = d]
        = [type |-> node.type, loc |-> node.loc, acts |-> node.acts, dist |-> d]
    BY <1>1
  <2> QED
    BY <1>1, <2>1 DEF Bare, Nodes
<1> QED
  BY <1>1, <1>2, <1>3 DEF Bare

LEMMA BareSame ==
  \A a, b \in Nodes : Bare(a) = Bare(b) => a.type = b.type /\ a.loc = b.loc /\ a.acts = b.acts
<1> SUFFICES ASSUME NEW a \in Nodes, NEW b \in Nodes, Bare(a) = Bare(b)
             PROVE  a.type = b.type /\ a.loc = b.loc /\ a.acts = b.acts
  OBVIOUS
<1> QED
  BY BareNode

LEMMA RoutePlaces ==
  ASSUME NEW load, load.nodes \in Seq(Nodes)
  PROVE  /\ Len(load.nodes) \in Nat /\ DOMAIN load.nodes = 1 .. Len(load.nodes)
         /\ RouteOf(load) \in Seq(BareNodes) /\ Len(RouteOf(load)) = Len(load.nodes)
         /\ \A i \in 1 .. Len(load.nodes) :
              load.nodes[i] \in Nodes /\ RouteOf(load)[i] = Bare(load.nodes[i])
<1>1. Len(load.nodes) \in Nat /\ DOMAIN load.nodes = 1 .. Len(load.nodes)
      /\ \A i \in 1 .. Len(load.nodes) : load.nodes[i] \in Nodes
  OBVIOUS
<1>2. RouteOf(load) = [i \in 1 .. Len(load.nodes) |-> Bare(load.nodes[i])]
  BY <1>1 DEF RouteOf, Bare
<1>3. \A i \in 1 .. Len(load.nodes) : Bare(load.nodes[i]) \in BareNodes
  BY <1>1, BareNode
<1>4. RouteOf(load) \in [1 .. Len(load.nodes) -> BareNodes]
  BY <1>2, <1>3
<1>5. RouteOf(load) \in Seq(BareNodes) /\ Len(RouteOf(load)) = Len(load.nodes)
  BY <1>1, <1>4
<1> QED
  BY <1>1, <1>2, <1>5

\* A load's route is told place by place.
LEMMA RouteBy ==
  ASSUME NEW load, load.nodes \in Seq(Nodes), NEW r \in Seq(BareNodes), Len(r) = Len(load.nodes),
         \A i \in 1 .. Len(load.nodes) : Bare(load.nodes[i]) = r[i]
  PROVE  RouteOf(load) = r
<1>1. /\ RouteOf(load) \in Seq(BareNodes) /\ Len(RouteOf(load)) = Len(r)
      /\ \A i \in 1 .. Len(RouteOf(load)) : RouteOf(load)[i] = r[i]
  BY RoutePlaces
<1> QED
  BY <1>1, SameSequence

\* A whole load's nodes.
LEMMA WholePlaces ==
  ASSUME NEW load, Whole(load)
  PROVE  /\ Len(load.nodes) \in Nat /\ Len(load.nodes) >= 4
         /\ DOMAIN load.nodes = 1 .. Len(load.nodes)
         /\ Len(RouteOf(load)) = Len(load.nodes) /\ Chain(RouteOf(load))
         /\ RouteOf(load) \in Seq(BareNodes)
         /\ \A i \in 1 .. Len(load.nodes) :
              /\ load.nodes[i] \in Nodes /\ RouteOf(load)[i] = Bare(load.nodes[i])
              /\ RouteOf(load)[i].type = load.nodes[i].type
              /\ RouteOf(load)[i].loc = load.nodes[i].loc
              /\ RouteOf(load)[i].acts = load.nodes[i].acts
<1>1. load.nodes \in Seq(Nodes) /\ Chain(RouteOf(load))
  BY DEF Whole, IsLoad
<1>2. /\ Len(load.nodes) \in Nat /\ DOMAIN load.nodes = 1 .. Len(load.nodes)
      /\ RouteOf(load) \in Seq(BareNodes) /\ Len(RouteOf(load)) = Len(load.nodes)
      /\ \A i \in 1 .. Len(load.nodes) :
           load.nodes[i] \in Nodes /\ RouteOf(load)[i] = Bare(load.nodes[i])
  BY <1>1, RoutePlaces
<1>3. Len(load.nodes) >= 4
  BY <1>1, <1>2, ChainPlaces
<1> QED
  BY <1>1, <1>2, <1>3, BareNode

\* The counts, the peak and the stops do not depend on depots and distances.
LEMMA SameProfile ==
  ASSUME NEW a \in Seq(Nodes), NEW b \in Seq(Nodes), Len(a) = Len(b), Len(a) >= 2,
         \A i \in 1 .. Len(a) : a[i].type = b[i].type /\ a[i].acts = b[i].acts,
         \A i \in 2 .. Len(a) - 1 : a[i].loc = b[i].loc
  PROVE  \A f \in {"drops", "peak", "stops"} : Profile(a)[f] = Profile(b)[f]
<1>1. Len(a) \in Nat /\ DOMAIN a = 1 .. Len(a) /\ DOMAIN b = 1 .. Len(a)
  OBVIOUS
<1>2. Profile(a).drops = Profile(b).drops
  <2>1. \A i \in 1 .. Len(a) : \A j \in i .. Len(a) - 1 : j \in 1 .. Len(a)
    BY <1>1
  <2>2. {i \in DOMAIN a : i < Len(a) /\ \A j \in i .. Len(a) - 1 : a[j].type = "DROP"}
        = {i \in DOMAIN b : i < Len(b) /\ \A j \in i .. Len(b) - 1 : b[j].type = "DROP"}
    BY <1>1, <2>1
  <2>3. DropNodeCount(a) = DropNodeCount(b)
    BY <2>2 DEF DropNodeCount
  <2> QED
    BY <2>3 DEF Profile
<1>3. Profile(a).peak = Profile(b).peak
  <2>1. 2 \in 1 .. Len(a)
    BY <1>1
  <2> QED
    BY <2>1 DEF Profile
<1>4. Profile(a).stops = Profile(b).stops
  <2>1. {a[i].loc : i \in 2 .. Len(a) - 1} = {b[i].loc : i \in 2 .. Len(b) - 1}
    OBVIOUS
  <2>2. \A nodes : Profile(nodes).stops = {nodes[i].loc : i \in 2 .. Len(nodes) - 1}
    BY DEF Profile
  <2> QED
    BY <2>1, <2>2
<1> QED
  BY <1>2, <1>3, <1>4

LEMMA SameRouteProfile ==
  ASSUME NEW a, Whole(a), NEW b, IsLoad(b), RouteOf(a) = RouteOf(b)
  PROVE  \A f \in {"drops", "peak", "stops"} : Profile(a.nodes)[f] = Profile(b.nodes)[f]
<1>1. /\ Len(a.nodes) \in Nat /\ Len(a.nodes) >= 4
      /\ Len(RouteOf(a)) = Len(a.nodes)
      /\ \A i \in 1 .. Len(a.nodes) :
           a.nodes[i] \in Nodes /\ RouteOf(a)[i] = Bare(a.nodes[i])
  BY WholePlaces
<1>2. /\ b.nodes \in Seq(Nodes) /\ Len(b.nodes) = Len(a.nodes)
      /\ \A i \in 1 .. Len(a.nodes) :
           b.nodes[i] \in Nodes /\ RouteOf(b)[i] = Bare(b.nodes[i])
  BY <1>1, RoutePlaces DEF IsLoad
<1>3. \A i \in 1 .. Len(a.nodes) :
        /\ a.nodes[i].type = b.nodes[i].type /\ a.nodes[i].acts = b.nodes[i].acts
        /\ a.nodes[i].loc = b.nodes[i].loc
  <2>1. \A i \in 1 .. Len(a.nodes) : Bare(a.nodes[i]) = Bare(b.nodes[i])
    BY <1>1, <1>2
  <2> QED
    BY <1>1, <1>2, <2>1, BareNode
<1>4. a.nodes \in Seq(Nodes)
  BY DEF Whole, IsLoad
<1>5. \A i \in 2 .. Len(a.nodes) - 1 : i \in 1 .. Len(a.nodes)
  BY <1>1
<1>6. \A i \in 2 .. Len(a.nodes) - 1 : a.nodes[i].loc = b.nodes[i].loc
  BY <1>3, <1>5
<1>7. Len(a.nodes) >= 2
  BY <1>1
<1> QED
  BY <1>2, <1>3, <1>4, <1>6, <1>7, SameProfile

\* A whole load's nodes between the pick node and the end are its drop nodes.
LEMMA DropCount ==
  ASSUME NEW load, Whole(load)
  PROVE  Profile(load.nodes).drops = Len(load.nodes) - 3
<1> DEFINE L == Len(load.nodes)
           nodes == load.nodes
           D == {i \in DOMAIN nodes : i < L /\ \A j \in i .. L - 1 : nodes[j].type = "DROP"}
<1>1. /\ L \in Nat /\ L >= 4 /\ DOMAIN nodes = 1 .. L /\ Chain(RouteOf(load))
      /\ Len(RouteOf(load)) = L
      /\ \A i \in 1 .. L : RouteOf(load)[i].type = nodes[i].type
  BY WholePlaces
<1>2. nodes[2].type = "PICK" /\ \A i \in 3 .. L - 1 : nodes[i].type = "DROP"
  <2>1. /\ RouteOf(load)[2].type = "PICK"
        /\ \A i \in DropPlaces(RouteOf(load)) : RouteOf(load)[i].type = "DROP"
    BY <1>1, ChainCarries
  <2>2. DropPlaces(RouteOf(load)) = 3 .. L - 1
    BY <1>1 DEF DropPlaces
  <2>3. 2 \in 1 .. L /\ \A i \in 3 .. L - 1 : i \in 1 .. L
    BY <1>1
  <2> QED
    BY <1>1, <2>1, <2>2, <2>3
<1> HIDE DEF L
<1>3. D = 3 .. L - 1
  <2>1. ASSUME NEW i \in D PROVE i \in 3 .. L - 1
    <3>1. i \in 1 .. L /\ i < L
      BY <1>1
    <3>2. CASE i <= 2
      <4>1. 2 \in i .. L - 1
        BY <1>1, <3>1, <3>2
      <4>2. nodes[2].type = "DROP"
        BY <4>1
      <4> QED
        BY <1>2, <4>2
    <3> QED
      BY <1>1, <3>1, <3>2
  <2>2. ASSUME NEW i \in 3 .. L - 1 PROVE i \in D
    <3>1. i \in 1 .. L /\ i < L /\ \A j \in i .. L - 1 : j \in 3 .. L - 1
      BY <1>1
    <3> QED
      BY <1>1, <1>2, <3>1
  <2> QED
    BY <2>1, <2>2
<1>4. Cardinality(3 .. L - 1) = L - 3
  <2>1. L - 1 \in Int /\ 3 \in Int
    BY <1>1
  <2>2. Cardinality(3 .. L - 1) = IF 3 > L - 1 THEN 0 ELSE L - 1 - 3 + 1
    BY <2>1, FS_Interval
  <2> QED
    BY <1>1, <2>2
<1>5. DropNodeCount(nodes) = Cardinality(D)
  BY DEF DropNodeCount, L
<1> QED
  BY <1>3, <1>4, <1>5 DEF Profile, L

(***************************************************************************)
(* What the calls do to a load                                             *)
(***************************************************************************)

\* The vehicles' depots and distances.
LEMMA VehicleData ==
  ASSUME InstanceAssumption, NEW v \in VehicleTypes
  PROVE  /\ OrigLoc[v] \in Locations /\ DestLoc[v] \in Locations
         /\ \A x, y \in Locations : Dist[Matrix[v]][x][y] \in Nat
<1>1. OrigLoc[v] \in Locations /\ DestLoc[v] \in Locations
  BY DEF InstanceAssumption
<1>2. Matrix[v] \in Range(Matrix)
  BY DEF InstanceAssumption, Range
<1> QED
  BY <1>1, <1>2 DEF InstanceAssumption

\* change_vehicle moves the depots and nothing else of the route.
LEMMA ChangedParts ==
  ASSUME InstanceAssumption, NEW load, Whole(load), NEW v \in VehicleTypes
  PROVE  LET changed == ChangeVehicle(load, v)
         IN /\ changed.nodes \in Seq(Nodes)
            /\ RouteOf(changed) = Moved(RouteOf(load), v)
<1> DEFINE changed == ChangeVehicle(load, v)
           r == RouteOf(load)
           L == Len(load.nodes)
           nodes == load.nodes
           newStart == nodes[1].loc # OrigLoc[v]
           newEnd == nodes[L].loc # DestLoc[v]
           started == IF newStart THEN [nodes EXCEPT ![1] = NewNode("START", OrigLoc[v], <<>>)]
                      ELSE nodes
           moved == IF newEnd THEN [started EXCEPT ![L] = NewNode("END", DestLoc[v], <<>>)]
                    ELSE started
           leg(i) == Dist[Matrix[v]][moved[i - 1].loc][moved[i].loc]
<1>1. /\ L \in Nat /\ L >= 4 /\ DOMAIN nodes = 1 .. L /\ Chain(r) /\ Len(r) = L
      /\ \A i \in 1 .. L : /\ nodes[i] \in Nodes /\ r[i] = Bare(nodes[i])
                           /\ r[i].type = nodes[i].type /\ r[i].loc = nodes[i].loc
                           /\ r[i].acts = nodes[i].acts
  BY WholePlaces
<1>2. OrigLoc[v] \in Locations /\ DestLoc[v] \in Locations
      /\ \A x, y \in Locations : Dist[Matrix[v]][x][y] \in Nat
  BY VehicleData
<1>3. /\ r[1].type = "START" /\ r[1].acts = <<>> /\ r[L].type = "END" /\ r[L].acts = <<>>
      /\ 1 \in 1 .. L /\ L \in 1 .. L /\ L # 1
  BY <1>1 DEF Chain, Framed
<1>4. /\ DOMAIN moved = 1 .. L
      /\ moved[1] = (IF newStart THEN NewNode("START", OrigLoc[v], <<>>) ELSE nodes[1])
      /\ moved[L] = (IF newEnd THEN NewNode("END", DestLoc[v], <<>>) ELSE nodes[L])
      /\ \A i \in 2 .. L - 1 : moved[i] = nodes[i]
  <2>1. /\ DOMAIN started = 1 .. L
        /\ started[1] = (IF newStart THEN NewNode("START", OrigLoc[v], <<>>) ELSE nodes[1])
        /\ \A i \in 1 .. L : i # 1 => started[i] = nodes[i]
    BY <1>1, <1>3
  <2> HIDE DEF started
  <2>2. /\ DOMAIN moved = 1 .. L
        /\ moved[L] = (IF newEnd THEN NewNode("END", DestLoc[v], <<>>) ELSE started[L])
        /\ \A i \in 1 .. L : i # L => moved[i] = started[i]
    BY <1>3, <2>1
  <2>3. \A i \in 2 .. L - 1 : i \in 1 .. L /\ i # 1 /\ i # L
    BY <1>1
  <2> HIDE DEF moved
  <2> QED
    BY <1>3, <2>1, <2>2, <2>3
<1>5. /\ NewNode("START", OrigLoc[v], <<>>) \in Nodes /\ NewNode("END", DestLoc[v], <<>>) \in Nodes
      /\ Bare(NewNode("START", OrigLoc[v], <<>>)) = At(r[1], OrigLoc[v])
      /\ Bare(NewNode("END", DestLoc[v], <<>>)) = At(r[L], DestLoc[v])
  <2>1. <<>> \in Seq(Orders)
    OBVIOUS
  <2> QED
    BY <1>2, <1>3, <2>1 DEF NewNode, Nodes, NodeTypes, Bare, At
<1>6. (~ newStart => Bare(nodes[1]) = At(r[1], OrigLoc[v]))
      /\ (~ newEnd => Bare(nodes[L]) = At(r[L], DestLoc[v]))
  BY <1>1, <1>3 DEF Bare, At
<1> HIDE DEF moved, newStart, newEnd
<1>7. \A i \in 1 .. L : moved[i] \in Nodes /\ Bare(moved[i]) = Moved(r, v)[i]
  <2>1. /\ Moved(r, v)[1] = At(r[1], OrigLoc[v]) /\ Moved(r, v)[L] = At(r[L], DestLoc[v])
        /\ \A i \in 2 .. L - 1 : Moved(r, v)[i] = r[i]
    BY <1>1, MovedPlaces
  <2>2. moved[1] \in Nodes /\ Bare(moved[1]) = Moved(r, v)[1]
    BY <1>1, <1>3, <1>4, <1>5, <1>6, <2>1
  <2>3. moved[L] \in Nodes /\ Bare(moved[L]) = Moved(r, v)[L]
    BY <1>1, <1>3, <1>4, <1>5, <1>6, <2>1
  <2>4. \A i \in 2 .. L - 1 : i \in 1 .. L
    BY <1>1
  <2>5. \A i \in 2 .. L - 1 : moved[i] \in Nodes /\ Bare(moved[i]) = Moved(r, v)[i]
    BY <1>1, <1>4, <2>1, <2>4
  <2>6. \A i \in 1 .. L : i = 1 \/ i = L \/ i \in 2 .. L - 1
    BY <1>1
  <2> QED
    BY <2>2, <2>3, <2>5, <2>6
<1>8. ASSUME NEW i \in 2 .. L PROVE leg(i) \in Nat
  <2>1. i \in 1 .. L /\ i - 1 \in 1 .. L
    BY <1>1
  <2>2. moved[i - 1].loc \in Locations /\ moved[i].loc \in Locations
    BY <1>7, <2>1, BareNode
  <2> QED
    BY <1>2, <2>2
<1>9. \E I \in SUBSET (2 .. L) :
        changed.nodes = [i \in 1 .. L |-> IF i \in I THEN [moved[i] EXCEPT !.dist = leg(i)] ELSE moved[i]]
  <2> DEFINE network == load.veh # "none" /\ load.code # Matrix[load.veh]
             I == IF network THEN {} ELSE IF newStart THEN {2} ELSE IF newEnd THEN {L} ELSE {}
  <2>1. I \in SUBSET (2 .. L)
    BY <1>1
  <2>2. changed.nodes
        = [i \in DOMAIN moved |-> IF i \in I THEN [moved[i] EXCEPT !.dist = leg(i)] ELSE moved[i]]
    <3>1. "nodes" \in DOMAIN load
      BY DEF Whole, IsLoad
    <3> QED
      BY <3>1 DEF ChangeVehicle, moved, newStart, newEnd
  <2> HIDE DEF I, changed, leg
  <2>3. changed.nodes
        = [i \in 1 .. L |-> IF i \in I THEN [moved[i] EXCEPT !.dist = leg(i)] ELSE moved[i]]
    BY <1>4, <2>2
  <2> QED
    BY <2>1, <2>3
<1>10. PICK I \in SUBSET (2 .. L) :
        changed.nodes = [i \in 1 .. L |-> IF i \in I THEN [moved[i] EXCEPT !.dist = leg(i)] ELSE moved[i]]
  BY <1>9
<1> HIDE DEF changed, leg
<1>11. \A i \in 1 .. L : changed.nodes[i] \in Nodes /\ Bare(changed.nodes[i]) = Moved(r, v)[i]
  BY <1>7, <1>8, <1>10, BareNode
<1>12. changed.nodes \in Seq(Nodes) /\ Len(changed.nodes) = L
  <2> DEFINE f == changed.nodes
  <2>1. f = [i \in 1 .. L |-> f[i]]
    BY <1>10
  <2>2. \A i \in 1 .. L : f[i] \in Nodes
    BY <1>11
  <2>3. L \in Nat
    BY <1>1
  <2> HIDE DEF f, L
  <2>4. f \in Seq(Nodes) /\ Len(f) = L
    BY <2>1, <2>2, <2>3, SeqByPlaces
  <2> QED
    BY <2>4 DEF f
<1>13. Moved(r, v) \in Seq(BareNodes) /\ Len(Moved(r, v)) = L
  BY <1>1, MovedChain DEF Chain, Framed
<1>14. RouteOf(changed) = Moved(r, v)
  BY <1>11, <1>12, <1>13, RouteBy
<1> QED
  BY <1>12, <1>14 DEF changed

LEMMA ChangedLoad ==
  ASSUME InstanceAssumption, NEW load, Whole(load), NEW v \in VehicleTypes,
         NEW changed, changed = ChangeVehicle(load, v)
  PROVE  /\ Whole(changed) /\ Housed(changed) /\ changed.veh = v
         /\ RouteOf(changed) = Moved(RouteOf(load), v)
         /\ Current(load) => Current(changed)
<1> DEFINE r == RouteOf(load)
           L == Len(load.nodes)
<1>1. changed.nodes \in Seq(Nodes) /\ RouteOf(changed) = Moved(r, v)
  BY ChangedParts
<1>2. IsLoad(load)
  BY DEF Whole
<1>3. /\ changed.veh = v
      /\ DOMAIN changed = {"nodes", "veh", "code", "cache", "feasible", "obj"}
  BY <1>2 DEF ChangeVehicle, IsLoad
<1>4. /\ DOMAIN changed.cache \subseteq DOMAIN load.cache
      /\ \A f \in DOMAIN changed.cache : changed.cache[f] = load.cache[f]
  <2>1. changed.cache
        = IF load.veh # "none" /\ load.code # Matrix[load.veh]
          THEN [f \in DOMAIN load.cache \ {"legs", "dist"} |-> load.cache[f]] ELSE load.cache
    BY <1>2 DEF ChangeVehicle, IsLoad
  <2> QED
    BY <2>1
<1>5. /\ L \in Nat /\ L >= 4 /\ Chain(r) /\ Len(r) = L
      /\ \A i \in 1 .. L : r[i] = Bare(load.nodes[i]) /\ load.nodes[i] \in Nodes
  BY WholePlaces
<1>6. Chain(RouteOf(changed)) /\ Len(RouteOf(changed)) = L
  BY <1>1, <1>5, MovedChain
<1>7. Whole(changed)
  BY <1>1, <1>2, <1>3, <1>4, <1>6 DEF Whole, IsLoad
<1>8. /\ Len(changed.nodes) = L
      /\ \A i \in 1 .. L : /\ RouteOf(changed)[i] = Bare(changed.nodes[i])
                           /\ changed.nodes[i] \in Nodes
                           /\ RouteOf(changed)[i].loc = changed.nodes[i].loc
  BY <1>6, <1>7, WholePlaces
<1>9. /\ Moved(r, v)[1] = At(r[1], OrigLoc[v]) /\ Moved(r, v)[L] = At(r[L], DestLoc[v])
      /\ \A i \in 2 .. L - 1 : Moved(r, v)[i] = r[i]
  BY <1>5, MovedPlaces
<1>10. Housed(changed)
  <2>1. 1 \in 1 .. L /\ L \in 1 .. L
    BY <1>5
  <2>2. At(r[1], OrigLoc[v]).loc = OrigLoc[v] /\ At(r[L], DestLoc[v]).loc = DestLoc[v]
    BY DEF At
  <2> QED
    BY <1>1, <1>3, <1>8, <1>9, <2>1, <2>2 DEF Housed
<1>11. ASSUME Current(load) PROVE Current(changed)
  <2>1. \A i \in 1 .. L : Bare(changed.nodes[i]).type = Bare(load.nodes[i]).type
                          /\ Bare(changed.nodes[i]).acts = Bare(load.nodes[i]).acts
    <3>1. \A i \in 1 .. L : i = 1 \/ i = L \/ i \in 2 .. L - 1
      BY <1>5
    <3>2. \A node, x : At(node, x).type = node.type /\ At(node, x).acts = node.acts
      BY DEF At
    <3>3. ASSUME NEW i \in 1 .. L
          PROVE  Moved(r, v)[i].type = r[i].type /\ Moved(r, v)[i].acts = r[i].acts
      <4>1. CASE i = 1
        BY <1>9, <3>2, <4>1
      <4>2. CASE i = L
        BY <1>9, <3>2, <4>2
      <4>3. CASE i \in 2 .. L - 1
        BY <1>9, <4>3
      <4> QED
        BY <3>1, <4>1, <4>2, <4>3
    <3> QED
      BY <1>1, <1>5, <1>8, <3>3
  <2>2. \A i \in 1 .. L : changed.nodes[i].type = load.nodes[i].type
                          /\ changed.nodes[i].acts = load.nodes[i].acts
    BY <1>5, <1>8, <2>1, BareNode
  <2>3. \A i \in 2 .. L - 1 : changed.nodes[i].loc = load.nodes[i].loc
    <3>1. \A i \in 2 .. L - 1 : i \in 1 .. L
      BY <1>5
    <3>2. \A i \in 2 .. L - 1 : Bare(changed.nodes[i]) = Bare(load.nodes[i])
      BY <1>1, <1>5, <1>8, <1>9, <3>1
    <3> QED
      BY <1>5, <1>8, <3>1, <3>2, BareSame
  <2>4. load.nodes \in Seq(Nodes) /\ changed.nodes \in Seq(Nodes) /\ L >= 2
    BY <1>1, <1>2, <1>5 DEF IsLoad
  <2>5. \A f \in {"drops", "peak", "stops"} : Profile(changed.nodes)[f] = Profile(load.nodes)[f]
    BY <1>8, <2>2, <2>3, <2>4, SameProfile
  <2> QED
    BY <1>2, <1>4, <1>11, <2>5 DEF Current, IsLoad
<1> QED
  BY <1>1, <1>3, <1>7, <1>10, <1>11

\* change_vehicle marks nothing.
LEMMA ChangedCache ==
  ASSUME NEW load, Whole(load), NEW v, DOMAIN load.cache = {}
  PROVE  DOMAIN ChangeVehicle(load, v).cache = {}
<1>1. ChangeVehicle(load, v).cache
      = IF load.veh # "none" /\ load.code # Matrix[load.veh]
        THEN [f \in DOMAIN load.cache \ {"legs", "dist"} |-> load.cache[f]] ELSE load.cache
  BY DEF ChangeVehicle, Whole, IsLoad
<1> QED
  BY <1>1

\* A load between other depots has the same pick node.
LEMMA MovedPick ==
  ASSUME NEW a, Whole(a), NEW b, Whole(b), NEW v, RouteOf(b) = Moved(RouteOf(a), v)
  PROVE  /\ Picked(a) = Picked(b) /\ Len(a.nodes) = Len(b.nodes)
         /\ \A o : SharesPick(a, o) <=> SharesPick(b, o)
<1>1. /\ Len(a.nodes) \in Nat /\ Len(a.nodes) >= 4 /\ Len(RouteOf(a)) = Len(a.nodes)
      /\ Chain(RouteOf(a))
      /\ \A i \in 1 .. Len(a.nodes) : /\ RouteOf(a)[i].type = a.nodes[i].type
                                      /\ RouteOf(a)[i].loc = a.nodes[i].loc
                                      /\ RouteOf(a)[i].acts = a.nodes[i].acts
  BY WholePlaces
<1>2. /\ Len(b.nodes) \in Nat /\ Len(b.nodes) >= 4 /\ Len(RouteOf(b)) = Len(b.nodes)
      /\ Chain(RouteOf(b)) /\ DOMAIN b.nodes = 1 .. Len(b.nodes)
      /\ \A i \in 1 .. Len(b.nodes) : /\ RouteOf(b)[i].type = b.nodes[i].type
                                      /\ RouteOf(b)[i].loc = b.nodes[i].loc
                                      /\ RouteOf(b)[i].acts = b.nodes[i].acts
  BY WholePlaces
<1>3. DOMAIN RouteOf(b) = 1 .. Len(a.nodes) /\ \A i \in 2 .. Len(a.nodes) - 1 : RouteOf(b)[i] = RouteOf(a)[i]
  BY <1>1, MovedPlaces
<1>4. DOMAIN RouteOf(b) = DOMAIN b.nodes
  BY DEF RouteOf
<1>5. Len(a.nodes) = Len(b.nodes)
  BY <1>1, <1>2, <1>3, <1>4
<1>6. 2 \in 2 .. Len(a.nodes) - 1 /\ 2 \in 1 .. Len(a.nodes) /\ 2 \in 1 .. Len(b.nodes)
  BY <1>1, <1>2
<1>7. RouteOf(b)[2] = RouteOf(a)[2]
  BY <1>3, <1>6
<1>8. a.nodes[2].type = b.nodes[2].type /\ a.nodes[2].loc = b.nodes[2].loc
      /\ a.nodes[2].acts = b.nodes[2].acts
  BY <1>1, <1>2, <1>6, <1>7
<1> QED
  BY <1>5, <1>8 DEF Picked, SharesPick

\* update_node_dist_time renews every leg and nothing else.
LEMMA Relegged ==
  ASSUME InstanceAssumption, NEW load, Whole(load), Housed(load),
         NEW renewed, renewed = UpdateNodeDistTime(load)
  PROVE  /\ Whole(renewed) /\ Housed(renewed) /\ LegsOf(renewed)
         /\ renewed.veh = load.veh /\ renewed.cache = load.cache
         /\ RouteOf(renewed) = RouteOf(load)
<1> DEFINE v == load.veh
           L == Len(load.nodes)
           leg(i) == IF i = 1 THEN 0
                     ELSE Dist[Matrix[v]][load.nodes[i - 1].loc][load.nodes[i].loc]
           f == renewed.nodes
<1>1. IsLoad(load) /\ v \in VehicleTypes /\ load.nodes \in Seq(Nodes)
  BY DEF Whole, Housed, IsLoad
<1>2. /\ L \in Nat /\ L >= 4 /\ DOMAIN load.nodes = 1 .. L /\ Chain(RouteOf(load))
      /\ Len(RouteOf(load)) = L /\ RouteOf(load) \in Seq(BareNodes)
      /\ \A i \in 1 .. L : load.nodes[i] \in Nodes /\ RouteOf(load)[i] = Bare(load.nodes[i])
  BY WholePlaces
<1>3. /\ f = [i \in 1 .. L |-> [load.nodes[i] EXCEPT !.dist = leg(i)]]
      /\ renewed.veh = load.veh /\ renewed.cache = load.cache
      /\ DOMAIN renewed = DOMAIN load
  BY <1>1, <1>2 DEF UpdateNodeDistTime, IsLoad
<1>4. \A i \in 1 .. L : leg(i) \in Nat
  <2> SUFFICES ASSUME NEW i \in 1 .. L, i # 1 PROVE leg(i) \in Nat
    OBVIOUS
  <2>1. i - 1 \in 1 .. L
    BY <1>2
  <2>2. load.nodes[i - 1].loc \in Locations /\ load.nodes[i].loc \in Locations
    BY <1>2, <2>1, BareNode
  <2>3. \A x, y \in Locations : Dist[Matrix[v]][x][y] \in Nat
    BY <1>1, VehicleData
  <2> QED
    BY <2>2, <2>3
<1>5. /\ 1 \in 1 .. L /\ L \in 1 .. L /\ L \in Nat
      /\ \A i \in 2 .. L : i \in 1 .. L /\ i - 1 \in 1 .. L /\ i # 1
  BY <1>2
<1> HIDE DEF leg, L, f
<1>6. \A i \in 1 .. L : /\ f[i] \in Nodes /\ f[i].dist = leg(i)
                        /\ Bare(f[i]) = Bare(load.nodes[i])
  <2> SUFFICES ASSUME NEW i \in 1 .. L
               PROVE  /\ f[i] \in Nodes /\ f[i].dist = leg(i)
                      /\ Bare(f[i]) = Bare(load.nodes[i])
    OBVIOUS
  <2>1. f[i] = [load.nodes[i] EXCEPT !.dist = leg(i)]
    BY <1>3
  <2>2. load.nodes[i] \in Nodes /\ leg(i) \in Nat
    BY <1>2, <1>4 DEF L
  <2> QED
    BY <2>1, <2>2, BareNode
<1>7. f \in Seq(Nodes) /\ Len(f) = L
  <2>1. f = [i \in 1 .. L |-> f[i]]
    BY <1>3
  <2> QED
    BY <1>5, <1>6, <2>1, SeqByPlaces
<1>8. \A i \in 1 .. L : f[i].loc = load.nodes[i].loc
  BY <1>2, <1>6, BareSame DEF L
<1>9. RouteOf(renewed) = RouteOf(load)
  BY <1>2, <1>6, <1>7, RouteBy DEF f, L
<1>10. Whole(renewed)
  BY <1>1, <1>2, <1>3, <1>7, <1>9 DEF Whole, IsLoad, f
<1>11. Housed(renewed)
  BY <1>3, <1>5, <1>7, <1>8 DEF Housed, f, L
<1>12. LegsOf(renewed)
  <2>1. \A i \in 2 .. L : f[i].dist = Dist[Matrix[v]][f[i - 1].loc][f[i].loc]
    BY <1>5, <1>6, <1>8 DEF leg
  <2>2. Len(f) = L /\ renewed.veh = v
    BY <1>3, <1>7
  <2>3. \A i \in 2 .. Len(f) : f[i].dist = Dist[Matrix[renewed.veh]][f[i - 1].loc][f[i].loc]
    BY <2>1, <2>2
  <2> QED
    BY <2>3 DEF LegsOf, f
<1> QED
  BY <1>3, <1>9, <1>10, <1>11, <1>12

\* A load with the nodes and the vehicle of another, and what its profile keeps.
LEMMA SameNodes ==
  ASSUME NEW load, Whole(load), NEW read, read.nodes = load.nodes, read.veh = load.veh,
         DOMAIN read = DOMAIN load,
         DOMAIN read.cache \subseteq {"drops", "peak", "stops", "dist"}
  PROVE  /\ Whole(read) /\ RouteOf(read) = RouteOf(load)
         /\ Housed(load) => Housed(read)
         /\ LegsOf(load) => LegsOf(read)
         /\ read.cache = load.cache /\ Current(load) => Current(read)
<1>1. /\ Whole(read) /\ RouteOf(read) = RouteOf(load)
      /\ Housed(load) => Housed(read)
      /\ LegsOf(load) => LegsOf(read)
  BY DEF Whole, IsLoad, RouteOf, Housed, LegsOf
<1>2. read.cache = load.cache /\ Current(load) => Current(read)
  BY DEF Current
<1> QED
  BY <1>1, <1>2

LEMMA ReadLoad ==
  ASSUME NEW load, Whole(load), NEW fields, fields \subseteq {"drops", "peak", "stops", "dist"},
         NEW read, read = WithRead(load, fields)
  PROVE  /\ Whole(read) /\ RouteOf(read) = RouteOf(load) /\ read.veh = load.veh
         /\ Housed(load) => Housed(read)
         /\ LegsOf(load) => LegsOf(read)
         /\ Current(load) => Current(read)
<1>1. IsLoad(load)
  BY DEF Whole
<1>2. /\ DOMAIN read = DOMAIN load /\ read.nodes = load.nodes /\ read.veh = load.veh
      /\ read.cache = [f \in DOMAIN load.cache \cup fields |-> Read(load, f)]
  BY <1>1 DEF WithRead, IsLoad
<1>3. /\ Whole(read) /\ RouteOf(read) = RouteOf(load)
      /\ Housed(load) => Housed(read)
      /\ LegsOf(load) => LegsOf(read)
  <2>1. DOMAIN read.cache \subseteq {"drops", "peak", "stops", "dist"}
    BY <1>1, <1>2 DEF IsLoad
  <2> QED
    BY <1>2, <2>1, SameNodes
<1>4. Current(load) => Current(read)
  BY <1>1, <1>2 DEF Current, Read, IsLoad
<1> QED
  BY <1>2, <1>3, <1>4

LEMMA HardLoad ==
  ASSUME InstanceAssumption, NEW load, Whole(load), Housed(load), NEW hard, hard = EvalHard(load)
  PROVE  /\ Whole(hard) /\ Housed(hard) /\ LegsOf(hard)
         /\ hard.veh = load.veh /\ RouteOf(hard) = RouteOf(load)
         /\ Current(load) => Current(hard)
<1> DEFINE renewed == UpdateNodeDistTime(load)
<1>1. /\ Whole(renewed) /\ Housed(renewed) /\ LegsOf(renewed)
      /\ renewed.veh = load.veh /\ renewed.cache = load.cache
      /\ RouteOf(renewed) = RouteOf(load)
  BY Relegged
<1>2. hard = WithRead(renewed, {"drops", "peak", "stops"})
  BY DEF EvalHard
<1> HIDE DEF renewed
<1>3. /\ Whole(hard) /\ RouteOf(hard) = RouteOf(renewed) /\ hard.veh = renewed.veh
      /\ Housed(hard) /\ LegsOf(hard) /\ (Current(renewed) => Current(hard))
  BY <1>1, <1>2, ReadLoad
<1>4. Current(load) => Current(renewed)
  <2>1. \A f \in {"drops", "peak", "stops"} : Profile(load.nodes)[f] = Profile(renewed.nodes)[f]
    BY <1>1, SameRouteProfile DEF Whole
  <2>2. DOMAIN load.cache \subseteq {"drops", "peak", "stops", "dist"}
    BY DEF Whole, IsLoad
  <2> QED
    BY <1>1, <2>1, <2>2 DEF Current
<1> QED
  BY <1>1, <1>3, <1>4

LEMMA CostLoad ==
  ASSUME NEW load, Whole(load), Housed(load), LegsOf(load), NEW full, full = EvalCost(load)
  PROVE  /\ Whole(full) /\ Housed(full) /\ LegsOf(full)
         /\ full.veh = load.veh /\ RouteOf(full) = RouteOf(load)
         /\ Current(load) => Current(full)
<1> DEFINE read == WithRead(load, {"dist"})
<1>1. /\ Whole(read) /\ RouteOf(read) = RouteOf(load) /\ read.veh = load.veh
      /\ Housed(read) /\ LegsOf(read) /\ (Current(load) => Current(read))
  BY ReadLoad
<1>2. full = [read EXCEPT !.feasible = HardFeasible(load) /\ read.cache.dist < TierUpper[load.veh],
                          !.obj = Rate[load.veh] * read.cache.dist]
  BY DEF EvalCost
<1>3. IsLoad(read)
  BY <1>1 DEF Whole
<1> HIDE DEF read
<1>4. /\ full.nodes = read.nodes /\ full.veh = read.veh /\ full.cache = read.cache
      /\ DOMAIN full = DOMAIN read
  BY <1>2, <1>3 DEF IsLoad
<1>5. /\ Whole(full) /\ RouteOf(full) = RouteOf(read)
      /\ Housed(full) /\ LegsOf(full) /\ (Current(read) => Current(full))
  BY <1>1, <1>3, <1>4, SameNodes DEF IsLoad
<1> QED
  BY <1>1, <1>4, <1>5

\* An evaluation renews the legs, keeps the route and leaves no stale count.
LEMMA EvaluatedLoad ==
  ASSUME InstanceAssumption, NEW load, Whole(load), Housed(load), NEW done, done = EvalLoad(load)
  PROVE  /\ Whole(done) /\ Housed(done) /\ LegsOf(done)
         /\ done.veh = load.veh /\ RouteOf(done) = RouteOf(load)
         /\ Current(load) => Current(done)
<1> DEFINE hard == EvalHard(load)
<1>1. /\ Whole(hard) /\ Housed(hard) /\ LegsOf(hard)
      /\ hard.veh = load.veh /\ RouteOf(hard) = RouteOf(load)
      /\ Current(load) => Current(hard)
  BY HardLoad
<1>2. done = EvalCost(hard)
  BY DEF EvalLoad
<1> HIDE DEF hard
<1> QED
  BY <1>1, <1>2, CostLoad

LEMMA TriedLoad ==
  ASSUME InstanceAssumption, NEW load, Whole(load), Housed(load),
         NEW tried, tried = TmpEvalLoad(load).load
  PROVE  /\ Whole(tried) /\ RouteOf(tried) = RouteOf(load)
         /\ Current(load) => Current(tried)
<1> DEFINE hard == EvalHard(load)
<1>1. /\ Whole(hard) /\ Housed(hard) /\ LegsOf(hard)
      /\ hard.veh = load.veh /\ RouteOf(hard) = RouteOf(load)
      /\ Current(load) => Current(hard)
  BY HardLoad
<1>2. \/ tried = [EvalCost(hard) EXCEPT !.feasible = load.feasible, !.obj = load.obj]
      \/ tried = hard
  BY DEF TmpEvalLoad
<1> HIDE DEF hard
<1>3. CASE tried = hard
  BY <1>1, <1>3
<1>4. CASE tried = [EvalCost(hard) EXCEPT !.feasible = load.feasible, !.obj = load.obj]
  <2> DEFINE full == EvalCost(hard)
  <2>1. /\ Whole(full) /\ RouteOf(full) = RouteOf(hard) /\ (Current(hard) => Current(full))
    BY <1>1, CostLoad
  <2>2. tried = [full EXCEPT !.feasible = load.feasible, !.obj = load.obj]
    BY <1>4
  <2> HIDE DEF full
  <2>3. IsLoad(full)
    BY <2>1 DEF Whole
  <2>4. /\ tried.nodes = full.nodes /\ tried.veh = full.veh /\ tried.cache = full.cache
        /\ DOMAIN tried = DOMAIN full
    BY <2>2, <2>3 DEF IsLoad
  <2>5. Whole(tried) /\ RouteOf(tried) = RouteOf(full) /\ (Current(full) => Current(tried))
    BY <2>1, <2>3, <2>4, SameNodes DEF IsLoad
  <2> QED
    BY <1>1, <2>1, <2>5
<1> QED
  BY <1>2, <1>3, <1>4

LEMMA ResetLoad ==
  ASSUME NEW load, Whole(load), NEW reset, reset = ResetProfile(load)
  PROVE  /\ Whole(reset) /\ Current(reset)
         /\ reset.veh = load.veh /\ RouteOf(reset) = RouteOf(load)
         /\ Housed(load) => Housed(reset)
<1>1. /\ DOMAIN reset = DOMAIN load /\ reset.nodes = load.nodes /\ reset.veh = load.veh
      /\ reset.cache = <<>>
  BY DEF ResetProfile, Whole, IsLoad
<1>2. DOMAIN reset.cache = {}
  BY <1>1
<1> QED
  BY <1>1, <1>2, SameNodes DEF Current

(***************************************************************************)
(* Calls that edit the chain                                               *)
(***************************************************************************)

LEMMA GrownNode ==
  \A node \in Nodes : \A o \in Orders :
    /\ [node EXCEPT !.acts = Append(@, o)] \in Nodes
    /\ Bare([node EXCEPT !.acts = Append(@, o)]) = With(Bare(node), o)
    /\ [node EXCEPT !.acts = <<o>> \o @] \in Nodes
    /\ Grows(Bare(node), Bare([node EXCEPT !.acts = <<o>> \o @]), o)
<1> SUFFICES ASSUME NEW node \in Nodes, NEW o \in Orders
             PROVE  /\ [node EXCEPT !.acts = Append(@, o)] \in Nodes
                    /\ Bare([node EXCEPT !.acts = Append(@, o)]) = With(Bare(node), o)
                    /\ [node EXCEPT !.acts = <<o>> \o @] \in Nodes
                    /\ Grows(Bare(node), Bare([node EXCEPT !.acts = <<o>> \o @]), o)
  OBVIOUS
<1>1. /\ node.type \in NodeTypes /\ node.loc \in Locations /\ node.acts \in Seq(Orders)
      /\ node.dist \in Nat
      /\ node = [type |-> node.type, loc |-> node.loc, acts |-> node.acts, dist |-> node.dist]
  BY DEF Nodes
<1>2. ASSUME NEW acts \in Seq(Orders)
      PROVE  /\ [node EXCEPT !.acts = acts] \in Nodes
             /\ Bare([node EXCEPT !.acts = acts])
                = [type |-> node.type, loc |-> node.loc, acts |-> acts]
             /\ Bare([node EXCEPT !.acts = acts]) \in BareNodes
  <2>1. [node EXCEPT !.acts = acts]
        = [type |-> node.type, loc |-> node.loc, acts |-> acts, dist |-> node.dist]
    BY <1>1
  <2> QED
    BY <1>1, <2>1 DEF Bare, Nodes, BareNodes
<1>3. Append(node.acts, o) \in Seq(Orders) /\ <<o>> \o node.acts \in Seq(Orders)
  BY <1>1
<1>4. Bare(node).type = node.type /\ Bare(node).loc = node.loc /\ Bare(node).acts = node.acts
  BY DEF Bare
<1>5. /\ [node EXCEPT !.acts = Append(@, o)] \in Nodes
      /\ Bare([node EXCEPT !.acts = Append(@, o)]) = With(Bare(node), o)
  BY <1>2, <1>3, <1>4 DEF With
<1>6. /\ [node EXCEPT !.acts = <<o>> \o @] \in Nodes
      /\ Grows(Bare(node), Bare([node EXCEPT !.acts = <<o>> \o @]), o)
  <2> DEFINE front == <<o>> \o node.acts
             more == Bare([node EXCEPT !.acts = front])
  <2>1. front \in Seq(Orders)
    BY <1>3
  <2> HIDE DEF front
  <2>2. /\ [node EXCEPT !.acts = front] \in Nodes /\ more \in BareNodes
        /\ more = [type |-> node.type, loc |-> node.loc, acts |-> front]
    BY <1>2, <2>1
  <2> HIDE DEF more
  <2>3. more.type = Bare(node).type /\ more.loc = Bare(node).loc /\ more.acts = front
    BY <1>4, <2>2
  <2>4. front = <<o>> \o Bare(node).acts
    BY <1>4 DEF front
  <2>5. Grows(Bare(node), more, o)
    BY <2>2, <2>3, <2>4 DEF Grows
  <2> QED
    BY <2>2, <2>5 DEF more, front
<1> QED
  BY <1>5, <1>6

LEMMA AddBackPlaces ==
  ASSUME NEW nodes \in Seq(Nodes), NEW i \in 1 .. Len(nodes), NEW o \in Orders,
         NEW more, more = AddBack(nodes, i, o)
  PROVE  /\ more \in Seq(Nodes) /\ Len(more) = Len(nodes)
         /\ Bare(more[i]) = With(Bare(nodes[i]), o)
         /\ \A j \in 1 .. Len(nodes) : j # i => more[j] = nodes[j]
<1>1. nodes[i] \in Nodes
  OBVIOUS
<1>2. more = [nodes EXCEPT ![i] = [nodes[i] EXCEPT !.acts = Append(@, o)]]
  BY DEF AddBack
<1>3. [nodes[i] EXCEPT !.acts = Append(@, o)] \in Nodes
  BY <1>1, GrownNode
<1>4. Bare([nodes[i] EXCEPT !.acts = Append(@, o)]) = With(Bare(nodes[i]), o)
  BY <1>1, GrownNode
<1> DEFINE node == [nodes[i] EXCEPT !.acts = Append(@, o)]
<1> HIDE DEF node
<1>5. /\ more \in Seq(Nodes) /\ Len(more) = Len(nodes) /\ more[i] = node
      /\ \A j \in 1 .. Len(nodes) : j # i => more[j] = nodes[j]
  BY <1>2, <1>3 DEF node
<1> QED
  BY <1>4, <1>5 DEF node

LEMMA AddFrontPlaces ==
  ASSUME NEW nodes \in Seq(Nodes), NEW i \in 1 .. Len(nodes), NEW o \in Orders,
         NEW more, more = AddFront(nodes, i, o)
  PROVE  /\ more \in Seq(Nodes) /\ Len(more) = Len(nodes)
         /\ Grows(Bare(nodes[i]), Bare(more[i]), o)
         /\ \A j \in 1 .. Len(nodes) : j # i => more[j] = nodes[j]
<1>1. nodes[i] \in Nodes
  OBVIOUS
<1>2. more = [nodes EXCEPT ![i] = [nodes[i] EXCEPT !.acts = <<o>> \o @]]
  BY DEF AddFront
<1>3. [nodes[i] EXCEPT !.acts = <<o>> \o @] \in Nodes
  BY <1>1, GrownNode
<1>4. Grows(Bare(nodes[i]), Bare([nodes[i] EXCEPT !.acts = <<o>> \o @]), o)
  BY <1>1, GrownNode
<1> QED
  BY <1>2, <1>3, <1>4

LEMMA InsertAtPlaces ==
  ASSUME NEW S, NEW s \in Seq(S), NEW e \in S, NEW i \in 1 .. Len(s) + 1,
         NEW t, t = InsertAt(s, i, e)
  PROVE  /\ t \in Seq(S) /\ Len(t) = Len(s) + 1 /\ t[i] = e
         /\ \A k \in 1 .. Len(s) : t[After(i, k)] = s[k]
<1>1. t = SubSeq(s, 1, i - 1) \o <<e>> \o SubSeq(s, i, Len(s))
  BY DEF InsertAt
<1>2. Len(s) \in Nat /\ i \in Int /\ 1 <= i /\ i <= Len(s) + 1
  OBVIOUS
<1>3. /\ SubSeq(s, 1, i - 1) \in Seq(S) /\ Len(SubSeq(s, 1, i - 1)) = i - 1
      /\ \A k \in 1 .. i - 1 : SubSeq(s, 1, i - 1)[k] = s[k]
  BY <1>2
<1>4. /\ SubSeq(s, i, Len(s)) \in Seq(S) /\ Len(SubSeq(s, i, Len(s))) = Len(s) - i + 1
      /\ \A k \in 1 .. Len(s) - i + 1 : SubSeq(s, i, Len(s))[k] = s[i + k - 1]
  BY <1>2
<1> DEFINE a == SubSeq(s, 1, i - 1)
           b == SubSeq(s, i, Len(s))
<1> HIDE DEF a, b
<1>5. /\ a \in Seq(S) /\ Len(a) = i - 1 /\ \A k \in 1 .. i - 1 : a[k] = s[k]
  BY <1>3 DEF a
<1>6. /\ b \in Seq(S) /\ Len(b) = Len(s) - i + 1
      /\ \A k \in 1 .. Len(s) - i + 1 : b[k] = s[i + k - 1]
  BY <1>4 DEF b
<1>7. t = (a \o <<e>>) \o b
  BY <1>1 DEF a, b
<1>8. /\ a \o <<e>> \in Seq(S) /\ Len(a \o <<e>>) = i /\ (a \o <<e>>)[i] = e
      /\ \A k \in 1 .. i - 1 : (a \o <<e>>)[k] = a[k]
  BY <1>2, <1>5
<1>9. /\ t \in Seq(S) /\ Len(t) = Len(s) + 1
      /\ \A k \in 1 .. i : t[k] = (a \o <<e>>)[k]
      /\ \A k \in 1 .. Len(s) - i + 1 : t[i + k] = b[k]
  <2> DEFINE c == a \o <<e>>
  <2>1. c \in Seq(S) /\ Len(c) = i /\ b \in Seq(S) /\ Len(b) = Len(s) - i + 1 /\ t = c \o b
    BY <1>6, <1>7, <1>8
  <2> HIDE DEF c
  <2>2. t \in Seq(S) /\ Len(t) = Len(c) + Len(b)
    BY <2>1, ConcatProperties
  <2>3. \A k \in 1 .. Len(c) : t[k] = c[k]
    BY <2>1
  <2>4. \A k \in 1 .. Len(b) : t[Len(c) + k] = b[k]
    BY <2>1
  <2> QED
    BY <1>2, <2>1, <2>2, <2>3, <2>4 DEF c
<1>10. t[i] = e
  BY <1>2, <1>8, <1>9
<1>11. ASSUME NEW k \in 1 .. Len(s) PROVE t[After(i, k)] = s[k]
  <2>1. CASE k < i
    <3>1. k \in 1 .. i /\ k \in 1 .. i - 1
      BY <1>2, <2>1
    <3> QED
      BY <1>5, <1>8, <1>9, <2>1, <3>1 DEF After
  <2>2. CASE ~ (k < i)
    <3> DEFINE h == k - i + 1
    <3>1. h \in 1 .. Len(s) - i + 1 /\ i + h = k + 1 /\ i + h - 1 = k
      BY <1>2, <2>2
    <3>2. t[i + h] = b[h] /\ b[h] = s[i + h - 1]
      BY <1>6, <1>9, <3>1
    <3> QED
      BY <2>2, <3>1, <3>2 DEF After
  <2> QED
    BY <2>1, <2>2
<1> QED
  BY <1>9, <1>10, <1>11

LEMMA EndsHoused ==
  ASSUME NEW load, Whole(load)
  PROVE  Housed(load) <=> /\ load.veh \in VehicleTypes
                          /\ RouteOf(load)[1].loc = OrigLoc[load.veh]
                          /\ RouteOf(load)[Len(RouteOf(load))].loc = DestLoc[load.veh]
<1>1. /\ Len(load.nodes) \in Nat /\ Len(load.nodes) >= 4
      /\ Len(RouteOf(load)) = Len(load.nodes)
      /\ \A i \in 1 .. Len(load.nodes) : RouteOf(load)[i].loc = load.nodes[i].loc
  BY WholePlaces
<1>2. 1 \in 1 .. Len(load.nodes) /\ Len(load.nodes) \in 1 .. Len(load.nodes)
  BY <1>1
<1> QED
  BY <1>1, <1>2 DEF Housed

\* The order joins a delivery of the chain.
LEMMA JoinedNodes ==
  ASSUME NEW load, Whole(load), NEW o \in Orders, NEW q \in DropPlaces(RouteOf(load)),
         NEW put, put.nodes = AddBack(AddBack(load.nodes, 2, o), q, o)
  PROVE  put.nodes \in Seq(Nodes) /\ RouteOf(put) = Joined(RouteOf(load), o, q)
<1> DEFINE r == RouteOf(load)
           L == Len(load.nodes)
           once == AddBack(load.nodes, 2, o)
<1>1. /\ L \in Nat /\ L >= 4 /\ Chain(r) /\ Len(r) = L /\ load.nodes \in Seq(Nodes)
      /\ \A i \in 1 .. L : load.nodes[i] \in Nodes /\ r[i] = Bare(load.nodes[i])
  BY WholePlaces DEF Whole, IsLoad
<1>2. 2 \in 1 .. L /\ q \in 1 .. L /\ q # 2
  BY <1>1, Places DEF DropPlaces
<1>3. /\ once \in Seq(Nodes) /\ Len(once) = L /\ Bare(once[2]) = With(r[2], o)
      /\ \A j \in 1 .. L : j # 2 => once[j] = load.nodes[j]
  <2> DEFINE nodes == load.nodes
             two == 2
  <2>1. nodes \in Seq(Nodes) /\ two \in 1 .. Len(nodes) /\ once = AddBack(nodes, two, o)
    BY <1>1, <1>2
  <2> HIDE DEF once, nodes, two
  <2>2. /\ once \in Seq(Nodes) /\ Len(once) = Len(nodes)
        /\ Bare(once[two]) = With(Bare(nodes[two]), o)
        /\ \A j \in 1 .. Len(nodes) : j # two => once[j] = nodes[j]
    BY <2>1, AddBackPlaces, SMTT(30)
  <2> QED
    BY <1>1, <1>2, <2>2 DEF nodes, two
<1> HIDE DEF once
<1>4. /\ put.nodes \in Seq(Nodes) /\ Len(put.nodes) = L
      /\ Bare(put.nodes[q]) = With(Bare(once[q]), o)
      /\ \A j \in 1 .. L : j # q => put.nodes[j] = once[j]
  <2> DEFINE both == put.nodes
  <2>1. q \in 1 .. Len(once) /\ both = AddBack(once, q, o)
    BY <1>2, <1>3 DEF once
  <2> HIDE DEF both
  <2>2. /\ both \in Seq(Nodes) /\ Len(both) = Len(once)
        /\ Bare(both[q]) = With(Bare(once[q]), o)
        /\ \A j \in 1 .. Len(once) : j # q => both[j] = once[j]
    BY <1>3, <2>1, AddBackPlaces
  <2> QED
    BY <1>3, <2>2 DEF both
<1>5. /\ Joined(r, o, q) \in Seq(BareNodes) /\ Len(Joined(r, o, q)) = L
      /\ Joined(r, o, q)[2] = With(r[2], o) /\ Joined(r, o, q)[q] = With(r[q], o)
      /\ \A i \in 1 .. L : i \notin {2, q} => Joined(r, o, q)[i] = r[i]
  BY <1>1, JoinedPlaces
<1>6. ASSUME NEW i \in 1 .. L PROVE Bare(put.nodes[i]) = Joined(r, o, q)[i]
  <2>1. CASE i = q
    BY <1>1, <1>2, <1>3, <1>4, <1>5, <2>1
  <2>2. CASE i = 2
    BY <1>2, <1>3, <1>4, <1>5, <2>2
  <2>3. CASE i \notin {2, q}
    BY <1>1, <1>3, <1>4, <1>5, <2>3
  <2> QED
    BY <2>1, <2>2, <2>3
<1> QED
  BY <1>4, <1>5, <1>6, RouteBy

LEMMA DropNodeIsNode ==
  ASSUME InstanceAssumption, NEW o \in Orders
  PROVE  DropNode(o) \in Nodes /\ Bare(DropNode(o)) = Stop(o)
<1>1. DropLoc[o] \in Locations /\ <<o>> \in Seq(Orders)
  BY DEF InstanceAssumption
<1>2. \A x \in Locations, s \in Seq(Orders) :
        [type |-> "DROP", loc |-> x, acts |-> s, dist |-> 0] \in Nodes
  BY DEF Nodes, NodeTypes
<1> QED
  BY <1>1, <1>2 DEF DropNode, NewNode, Bare, Stop

\* The order gets a drop node of its own.
LEMMA PartedNodes ==
  ASSUME InstanceAssumption, NEW load, Whole(load), NEW o \in Orders,
         NEW p \in 3 .. Len(RouteOf(load)),
         NEW put, put.nodes = InsertAt(AddBack(load.nodes, 2, o), p, DropNode(o))
  PROVE  put.nodes \in Seq(Nodes) /\ RouteOf(put) = Parted(RouteOf(load), o, p)
<1> DEFINE r == RouteOf(load)
           L == Len(load.nodes)
           once == AddBack(load.nodes, 2, o)
<1>1. /\ L \in Nat /\ L >= 4 /\ Chain(r) /\ Len(r) = L /\ load.nodes \in Seq(Nodes)
      /\ \A i \in 1 .. L : load.nodes[i] \in Nodes /\ r[i] = Bare(load.nodes[i])
  BY WholePlaces DEF Whole, IsLoad
<1>2. 2 \in 1 .. L /\ p \in 1 .. L + 1 /\ p \in 3 .. L
  BY <1>1
<1>3. /\ once \in Seq(Nodes) /\ Len(once) = L /\ Bare(once[2]) = With(r[2], o)
      /\ \A j \in 1 .. L : j # 2 => once[j] = load.nodes[j]
  <2> DEFINE nodes == load.nodes
             two == 2
  <2>1. nodes \in Seq(Nodes) /\ two \in 1 .. Len(nodes) /\ once = AddBack(nodes, two, o)
    BY <1>1, <1>2
  <2> HIDE DEF once, nodes, two
  <2>2. /\ once \in Seq(Nodes) /\ Len(once) = Len(nodes)
        /\ Bare(once[two]) = With(Bare(nodes[two]), o)
        /\ \A j \in 1 .. Len(nodes) : j # two => once[j] = nodes[j]
    BY <2>1, AddBackPlaces, SMTT(30)
  <2> QED
    BY <1>1, <1>2, <2>2 DEF nodes, two
<1> HIDE DEF once
<1>4. DropNode(o) \in Nodes /\ Bare(DropNode(o)) = Stop(o)
  BY DropNodeIsNode
<1>5. /\ put.nodes \in Seq(Nodes) /\ Len(put.nodes) = L + 1 /\ put.nodes[p] = DropNode(o)
      /\ \A k \in 1 .. L : put.nodes[After(p, k)] = once[k]
  <2> DEFINE parted == put.nodes
             drop == DropNode(o)
  <2>1. parted = InsertAt(once, p, drop) /\ drop \in Nodes
    BY <1>4 DEF once
  <2>2. p \in 1 .. Len(once) + 1
    BY <1>2, <1>3
  <2> HIDE DEF parted, drop
  <2>0. once \in Seq(Nodes)
    BY <1>3
  <2>3. /\ parted \in Seq(Nodes) /\ Len(parted) = Len(once) + 1 /\ parted[p] = drop
        /\ \A k \in 1 .. Len(once) : parted[After(p, k)] = once[k]
    BY <2>0, <2>1, <2>2, InsertAtPlaces, SMTT(30)
  <2> QED
    BY <1>3, <2>3 DEF parted, drop
<1>6. /\ Parted(r, o, p) \in Seq(BareNodes) /\ Len(Parted(r, o, p)) = L + 1
      /\ Parted(r, o, p)[1] = r[1] /\ Parted(r, o, p)[2] = With(r[2], o)
      /\ Parted(r, o, p)[p] = Stop(o)
      /\ \A i \in 3 .. L : Parted(r, o, p)[After(p, i)] = r[i]
  BY <1>1, PartedPlaces
<1>7. ASSUME NEW k \in 1 .. L PROVE Bare(put.nodes[After(p, k)]) = Parted(r, o, p)[After(p, k)]
  <2>1. k = 1 \/ k = 2 \/ k \in 3 .. L
    <3>1. L \in Int
      BY <1>1
    <3> QED
      BY <3>1
  <2>2. After(p, 1) = 1 /\ After(p, 2) = 2
    BY <1>2 DEF After
  <2>3. CASE k = 1
    BY <1>1, <1>3, <1>5, <1>6, <2>2, <2>3
  <2>4. CASE k = 2
    BY <1>3, <1>5, <1>6, <2>2, <2>4
  <2>5. CASE k \in 3 .. L
    <3>1. k # 2
      BY <2>5
    <3> QED
      BY <1>1, <1>3, <1>5, <1>6, <2>5, <3>1
  <2> QED
    BY <2>1, <2>3, <2>4, <2>5
<1>8. ASSUME NEW i \in 1 .. L + 1 PROVE i = p \/ \E k \in 1 .. L : i = After(p, k)
  <2>1. CASE i < p
    <3>1. i \in 1 .. L /\ i = After(p, i)
      BY <1>2, <2>1 DEF After
    <3> QED
      BY <3>1
  <2>2. CASE i > p
    <3>1. i - 1 \in 1 .. L /\ i = After(p, i - 1)
      BY <1>1, <1>2, <2>2 DEF After
    <3> QED
      BY <3>1
  <2> QED
    BY <1>2, <2>1, <2>2
<1>9. \A i \in 1 .. L + 1 : Bare(put.nodes[i]) = Parted(r, o, p)[i]
  BY <1>4, <1>5, <1>6, <1>7, <1>8
<1> QED
  BY <1>5, <1>6, <1>9, RouteBy

LEMMA PutEnds ==
  ASSUME InstanceAssumption, NEW r, Chain(r), NEW o \in Orders, NEW p \in 3 .. Len(r)
  PROVE  /\ PutAt(r, o, p)[1] = r[1]
         /\ PutAt(r, o, p)[Len(PutAt(r, o, p))] = r[Len(r)]
<1> DEFINE L == Len(r)
           g == PutAt(r, o, p)
<1>1. L \in Nat /\ L >= 4 /\ DropPlaces(r) = 3 .. L - 1
  BY ChainPlaces
<1>2. \/ \E q \in DropPlaces(r) : g = Joined(r, o, q)
      \/ g = Parted(r, o, p)
  BY PutCases
<1> HIDE DEF g
<1>3. ASSUME NEW q \in DropPlaces(r), g = Joined(r, o, q)
      PROVE  g[1] = r[1] /\ g[Len(g)] = r[L]
  <2>1. Len(g) = L /\ \A i \in 1 .. L : i \notin {2, q} => g[i] = r[i]
    BY <1>3, JoinedPlaces
  <2>2. 1 \in 1 .. L /\ L \in 1 .. L /\ 1 \notin {2, q} /\ L \notin {2, q}
    BY <1>1, Places
  <2> QED
    BY <2>1, <2>2
<1>4. ASSUME g = Parted(r, o, p)
      PROVE  g[1] = r[1] /\ g[Len(g)] = r[L]
  <2>1. Len(g) = L + 1 /\ g[1] = r[1] /\ \A i \in 3 .. L : g[After(p, i)] = r[i]
    BY <1>4, PartedPlaces
  <2>2. L \in 3 .. L /\ After(p, L) = L + 1
    BY <1>1 DEF After
  <2> QED
    BY <2>1, <2>2
<1> QED
  BY <1>2, <1>3, <1>4 DEF g

\* insert_segment_at puts the order at its slot.
LEMMA PutLoad ==
  ASSUME InstanceAssumption, NEW load, Whole(load), NEW o \in Orders,
         o \notin Picked(load), SharesPick(load, o), NEW n \in 0 .. Len(load.nodes) - 3,
         NEW put, put = InsertSegmentAt(load, o, n)
  PROVE  /\ Whole(put) /\ put.veh = load.veh /\ put.cache = load.cache
         /\ RouteOf(put) = Put(RouteOf(load), o, n)
         /\ Housed(load) => Housed(put)
<1> DEFINE r == RouteOf(load)
           L == Len(load.nodes)
           once == AddBack(load.nodes, 2, o)
           p == L - n
           anchor == L - 1 - n
           Joins(i) == once[i].type = "DROP" /\ once[i].loc = DropLoc[o]
<1>1. /\ L \in Nat /\ L >= 4 /\ Chain(r) /\ Len(r) = L /\ load.nodes \in Seq(Nodes) /\ IsLoad(load)
      /\ \A i \in 1 .. L : load.nodes[i] \in Nodes /\ r[i] = Bare(load.nodes[i])
  BY WholePlaces DEF Whole, IsLoad
<1>2. 2 \in 1 .. L /\ p \in 3 .. L /\ p - 1 \in 1 .. L /\ p \in 1 .. L /\ anchor = p - 1
      /\ anchor + 1 = p
  BY <1>1
<1>3. /\ once \in Seq(Nodes) /\ Len(once) = L /\ Bare(once[2]) = With(r[2], o)
      /\ \A j \in 1 .. L : j # 2 => once[j] = load.nodes[j]
  <2> DEFINE nodes == load.nodes
             two == 2
  <2>1. nodes \in Seq(Nodes) /\ two \in 1 .. Len(nodes) /\ once = AddBack(nodes, two, o)
    BY <1>1, <1>2
  <2> HIDE DEF once, nodes, two
  <2>2. /\ once \in Seq(Nodes) /\ Len(once) = Len(nodes)
        /\ Bare(once[two]) = With(Bare(nodes[two]), o)
        /\ \A j \in 1 .. Len(nodes) : j # two => once[j] = nodes[j]
    BY <2>1, AddBackPlaces, SMTT(30)
  <2> QED
    BY <1>1, <1>2, <2>2 DEF nodes, two
<1> HIDE DEF once
<1>4. \A i \in 1 .. L : once[i] \in Nodes /\ once[i].type = r[i].type /\ once[i].loc = r[i].loc
  <2>1. \A i \in 1 .. L : once[i] \in Nodes
    BY <1>3
  <2>2. \A i \in 1 .. L : Bare(once[i]).type = r[i].type /\ Bare(once[i]).loc = r[i].loc
    <3>1. With(r[2], o).type = r[2].type /\ With(r[2], o).loc = r[2].loc
      BY DEF With
    <3> QED
      BY <1>1, <1>3, <3>1
  <2> QED
    BY <2>1, <2>2, BareNode
<1>5. \A i \in 1 .. L : Joins(i) <=> JoinsAt(r, o, i)
  BY <1>4 DEF JoinsAt
<1>6. /\ put.nodes = IF Joins(anchor) THEN AddBack(once, anchor, o)
                     ELSE IF Joins(anchor + 1) THEN AddBack(once, anchor + 1, o)
                     ELSE InsertAt(once, anchor + 1, DropNode(o))
      /\ put.veh = load.veh /\ put.cache = load.cache /\ DOMAIN put = DOMAIN load
  BY <1>1 DEF InsertSegmentAt, IsLoad, LastStop, once
<1>7. put.nodes = IF JoinsAt(r, o, p - 1) THEN AddBack(once, p - 1, o)
                  ELSE IF JoinsAt(r, o, p) THEN AddBack(once, p, o)
                  ELSE InsertAt(once, p, DropNode(o))
  BY <1>2, <1>5, <1>6
<1> HIDE DEF p, anchor, Joins
<1>8. /\ p \in 3 .. Len(r) /\ \A q \in {p - 1, p} : JoinsAt(r, o, q) => q \in DropPlaces(r)
  <2>1. p \in 3 .. Len(r) /\ DropPlaces(r) = 3 .. L - 1
    BY <1>1, <1>2 DEF DropPlaces
  <2>2. ~ JoinsAt(r, o, 2) /\ ~ JoinsAt(r, o, L)
    <3>1. r[2].type = "PICK" /\ r[Len(r)].type = "END"
      BY <1>1, ChainCarries
    <3> QED
      BY <1>1, <3>1 DEF JoinsAt
  <2>3. ASSUME NEW q \in {p - 1, p}, JoinsAt(r, o, q) PROVE q \in DropPlaces(r)
    <3>1. q # 2 /\ q # L
      BY <2>2, <2>3
    <3>2. q \in 2 .. L
      BY <1>1, <1>2
    <3>3. q \in 3 .. L - 1
      BY <1>1, <3>1, <3>2
    <3> QED
      BY <2>1, <3>3
  <2> QED
    BY <2>1, <2>3
<1>9. put.nodes \in Seq(Nodes) /\ RouteOf(put) = PutAt(r, o, p)
  <2>1. CASE JoinsAt(r, o, p - 1)
    <3> DEFINE q == p - 1
    <3>1. q \in DropPlaces(r) /\ put.nodes = AddBack(once, q, o)
      BY <1>7, <1>8, <2>1
    <3>2. PutAt(r, o, p) = Joined(r, o, q)
      BY <2>1 DEF PutAt
    <3> HIDE DEF q
    <3>3. put.nodes \in Seq(Nodes) /\ RouteOf(put) = Joined(r, o, q)
      BY <3>1, JoinedNodes DEF once
    <3> QED
      BY <3>2, <3>3
  <2>2. CASE ~ JoinsAt(r, o, p - 1) /\ JoinsAt(r, o, p)
    <3>1. p \in DropPlaces(r) /\ put.nodes = AddBack(once, p, o)
      BY <1>7, <1>8, <2>2
    <3>2. PutAt(r, o, p) = Joined(r, o, p)
      BY <2>2 DEF PutAt
    <3>3. put.nodes \in Seq(Nodes) /\ RouteOf(put) = Joined(r, o, p)
      BY <3>1, JoinedNodes DEF once
    <3> QED
      BY <3>2, <3>3
  <2>3. CASE ~ JoinsAt(r, o, p - 1) /\ ~ JoinsAt(r, o, p)
    <3>1. put.nodes = InsertAt(once, p, DropNode(o))
      BY <1>7, <2>3
    <3>2. PutAt(r, o, p) = Parted(r, o, p)
      BY <2>3 DEF PutAt
    <3>3. put.nodes \in Seq(Nodes) /\ RouteOf(put) = Parted(r, o, p)
      BY <1>8, <3>1, PartedNodes DEF once
    <3> QED
      BY <3>2, <3>3
  <2> QED
    BY <2>1, <2>2, <2>3
<1>10. RouteOf(put) = Put(r, o, n)
  BY <1>1, <1>9 DEF Put, p
<1>11. o \notin Range(r[2].acts) /\ r[2].loc = PickLoc[o]
  <2>1. r[2].type = "PICK"
    BY <1>1, ChainCarries
  <2>2. r[2].acts = load.nodes[2].acts /\ r[2].loc = load.nodes[2].loc /\ r[2].type = load.nodes[2].type
    BY <1>1, <1>2, BareNode
  <2> QED
    BY <2>1, <2>2 DEF Picked, SharesPick
<1>12. Chain(RouteOf(put))
  BY <1>1, <1>8, <1>9, <1>11, PutChains
<1>13. Whole(put)
  BY <1>1, <1>6, <1>9, <1>12 DEF Whole, IsLoad
<1>14. Housed(load) => Housed(put)
  <2>1. RouteOf(put)[1] = r[1] /\ RouteOf(put)[Len(RouteOf(put))] = r[Len(r)]
    BY <1>1, <1>8, <1>9, PutEnds
  <2> QED
    BY <1>6, <1>13, <2>1, EndsHoused
<1> QED
  BY <1>6, <1>10, <1>13, <1>14

LEMMA LessNode ==
  \A node \in Nodes : \A R :
    /\ [node EXCEPT !.acts = Without(@, R)] \in Nodes
    /\ Bare([node EXCEPT !.acts = Without(@, R)]) = Less(Bare(node), R)
    /\ [node EXCEPT !.acts = Without(@, R)].type = node.type
    /\ [node EXCEPT !.acts = Without(@, R)].acts = Without(node.acts, R)
<1> SUFFICES ASSUME NEW node \in Nodes, NEW R
             PROVE  LET less == [node EXCEPT !.acts = Without(@, R)]
                    IN /\ less \in Nodes /\ Bare(less) = Less(Bare(node), R)
                       /\ less.type = node.type /\ less.acts = Without(node.acts, R)
  OBVIOUS
<1> DEFINE acts == Without(node.acts, R)
           less == [node EXCEPT !.acts = Without(@, R)]
<1>1. /\ node.type \in NodeTypes /\ node.loc \in Locations /\ node.acts \in Seq(Orders)
      /\ node.dist \in Nat
      /\ node = [type |-> node.type, loc |-> node.loc, acts |-> node.acts, dist |-> node.dist]
  BY DEF Nodes
<1>2. acts \in Seq(Orders)
  BY <1>1, WithoutSome
<1>3. less = [node EXCEPT !.acts = acts]
  OBVIOUS
<1> HIDE DEF acts, less
<1>4. less = [type |-> node.type, loc |-> node.loc, acts |-> acts, dist |-> node.dist]
  BY <1>1, <1>3
<1>5. /\ less \in Nodes /\ less.type = node.type /\ less.acts = acts
      /\ Bare(less) = [type |-> node.type, loc |-> node.loc, acts |-> acts]
  BY <1>1, <1>2, <1>4 DEF Nodes, Bare
<1>6. Bare(node).type = node.type /\ Bare(node).loc = node.loc /\ Bare(node).acts = node.acts
  BY DEF Bare
<1> QED
  BY <1>5, <1>6 DEF Less, acts, less

\* What remove_activities leaves of a load's nodes.
LEMMA LeftNodes ==
  ASSUME NEW load, Whole(load), NEW R, NEW left, left = RemoveActivities(load, R)
  PROVE  /\ left.nodes \in Seq(Nodes) /\ left.veh = load.veh /\ left.cache = load.cache
         /\ DOMAIN left = DOMAIN load
         /\ Len(left.nodes) = Cardinality(Kept(RouteOf(load), R))
         /\ RouteOf(left) = Shorn(RouteOf(load), R)
<1> DEFINE r == RouteOf(load)
           L == Len(load.nodes)
           rest == [i \in DOMAIN load.nodes |-> [load.nodes[i] EXCEPT !.acts = Without(@, R)]]
           I == Kept(r, R)
           K == Cardinality(I)
           bare == [i \in DOMAIN r |-> Less(r[i], R)]
           f == left.nodes
           g == Shorn(r, R)
<1>1. /\ L \in Nat /\ Len(r) = L /\ DOMAIN load.nodes = 1 .. L /\ r \in Seq(BareNodes)
      /\ \A i \in 1 .. L : load.nodes[i] \in Nodes /\ r[i] = Bare(load.nodes[i])
  BY WholePlaces
<1>2. DOMAIN r = 1 .. L
  BY <1>1
<1>3. \A i \in 1 .. L : /\ rest[i] \in Nodes /\ Bare(rest[i]) = Less(r[i], R)
                        /\ rest[i].type = r[i].type /\ rest[i].acts = Without(r[i].acts, R)
  <2> SUFFICES ASSUME NEW i \in 1 .. L
               PROVE  /\ rest[i] \in Nodes /\ Bare(rest[i]) = Less(r[i], R)
                      /\ rest[i].type = r[i].type /\ rest[i].acts = Without(r[i].acts, R)
    OBVIOUS
  <2>1. rest[i] = [load.nodes[i] EXCEPT !.acts = Without(@, R)]
    BY <1>1
  <2>2. load.nodes[i] \in Nodes /\ r[i] = Bare(load.nodes[i])
    BY <1>1
  <2>3. r[i].type = load.nodes[i].type /\ r[i].acts = load.nodes[i].acts
    BY <2>2, BareNode
  <2> HIDE DEF rest
  <2>4. /\ rest[i] \in Nodes /\ Bare(rest[i]) = Less(Bare(load.nodes[i]), R)
        /\ rest[i].type = load.nodes[i].type /\ rest[i].acts = Without(load.nodes[i].acts, R)
    BY <2>1, <2>2, LessNode
  <2> QED
    BY <2>2, <2>3, <2>4
<1>4. /\ f = Only(rest, {i \in DOMAIN rest : rest[i].type \in {"START", "END"} \/ rest[i].acts # <<>>})
      /\ left.veh = load.veh /\ left.cache = load.cache /\ DOMAIN left = DOMAIN load
  <2>1. IsLoad(load)
    BY DEF Whole
  <2> QED
    BY <2>1 DEF RemoveActivities, IsLoad
<1>5. DOMAIN rest = 1 .. L
  BY <1>1
<1> HIDE DEF rest, f, L
<1>6. {i \in DOMAIN rest : rest[i].type \in {"START", "END"} \/ rest[i].acts # <<>>} = I
  BY <1>2, <1>3, <1>5 DEF Kept
<1>7. I \in SUBSET (1 .. L)
  BY <1>2 DEF Kept
<1>8. g = Only(bare, I) /\ \A i \in I : bare[i] = Less(r[i], R)
  BY <1>2, <1>7 DEF Shorn
<1>9. f = Only(rest, I)
  BY <1>4, <1>6
<1> HIDE DEF I, K, bare, g
<1>10. L \in Nat
  BY <1>1
<1>11. K \in Nat /\ \A n \in 1 .. K : \E i \in I : Place(I, i) = n
  <2>1. K \in Nat
    BY <1>7, <1>10, PlaceOrder DEF K
  <2>2. \A n \in 1 .. K : \E i \in I : Place(I, i) = n
    BY <1>7, <1>10, PlaceEach DEF K
  <2> QED
    BY <2>1, <2>2
<1>12. f = [n \in 1 .. K |-> f[n]] /\ \A i \in I : f[Place(I, i)] = rest[i]
  BY <1>7, <1>9, <1>10, OnlyElements DEF K
<1>13. g = [n \in 1 .. K |-> g[n]] /\ \A i \in I : g[Place(I, i)] = Less(r[i], R)
  <2>1. /\ Only(bare, I) = [n \in 1 .. Cardinality(I) |-> Only(bare, I)[n]]
        /\ \A i \in I : Only(bare, I)[Place(I, i)] = bare[i]
    BY <1>7, <1>10, OnlyElements
  <2> QED
    BY <1>8, <2>1 DEF K
<1>14. \A n \in 1 .. K : f[n] \in Nodes /\ Bare(f[n]) = g[n]
  <2> SUFFICES ASSUME NEW n \in 1 .. K PROVE f[n] \in Nodes /\ Bare(f[n]) = g[n]
    OBVIOUS
  <2>1. PICK i \in I : Place(I, i) = n
    BY <1>11
  <2>2. f[n] = rest[i] /\ g[n] = Less(r[i], R) /\ i \in 1 .. L
    BY <1>7, <1>12, <1>13, <2>1
  <2> QED
    BY <1>3, <2>2
<1>15. f \in Seq(Nodes) /\ Len(f) = K
  BY <1>11, <1>12, <1>14, SeqByPlaces
<1>16. \A n \in 1 .. K : g[n] \in BareNodes
  BY <1>14, BareNode
<1>17. g \in Seq(BareNodes) /\ Len(g) = K
  BY <1>11, <1>13, <1>16, SeqByPlaces
<1>18. RouteOf(left) = g
  BY <1>14, <1>15, <1>17, RouteBy DEF f
<1> QED
  BY <1>4, <1>15, <1>18 DEF f, g, K, I

\* remove_activities takes orders out of a chain.
LEMMA ShornLoad ==
  ASSUME NEW load, Whole(load), NEW R, Chain(Shorn(RouteOf(load), R)),
         NEW left, left = RemoveActivities(load, R)
  PROVE  /\ Whole(left) /\ left.veh = load.veh
         /\ RouteOf(left) = Shorn(RouteOf(load), R)
<1>1. /\ left.nodes \in Seq(Nodes) /\ left.veh = load.veh /\ left.cache = load.cache
      /\ DOMAIN left = DOMAIN load
      /\ RouteOf(left) = Shorn(RouteOf(load), R)
  BY LeftNodes
<1> QED
  BY <1>1 DEF Whole, IsLoad

\* A chain whose orders are all removed is empty.
LEMMA AllGone ==
  ASSUME NEW load, Whole(load), NEW R, Picked(load) \subseteq R,
         NEW left, left = RemoveActivities(load, R)
  PROVE  IsEmpty(left)
<1> DEFINE r == RouteOf(load)
           L == Len(r)
<1>1. /\ L \in Nat /\ L >= 4 /\ Chain(r) /\ DOMAIN r = 1 .. L /\ DropPlaces(r) = 3 .. L - 1
      /\ \A i \in 1 .. L : r[i].acts \in Seq(Orders)
  BY WholePlaces, ChainPlaces
<1>2. /\ 1 \in 1 .. L /\ 2 \in 1 .. L /\ L \in 1 .. L /\ L # 1 /\ L # 2
      /\ (\A i \in 1 .. L : i = 1 \/ i = L \/ i = 2 \/ i \in DropPlaces(r))
      /\ \A i \in DropPlaces(r) : i \in 1 .. L /\ i # 1 /\ i # 2 /\ i # L
  BY <1>1, Places
<1>3. /\ \A i \in DropPlaces(r) : Range(r[i].acts) \subseteq Range(r[2].acts)
      /\ r[1].type = "START" /\ r[L].type = "END" /\ r[2].type = "PICK"
      /\ \A i \in DropPlaces(r) : r[i].type = "DROP"
  BY <1>1, ChainCarries
<1>4. Range(r[2].acts) \subseteq R
  <2>1. \A i \in 1 .. Len(load.nodes) : r[i].acts = load.nodes[i].acts
    BY WholePlaces
  <2>2. Len(load.nodes) = L
    BY WholePlaces
  <2>3. r[2].acts = load.nodes[2].acts
    BY <1>2, <2>1, <2>2
  <2> QED
    BY <2>3 DEF Picked
<1>5. \A i \in 1 .. L : i # 1 /\ i # L => Without(r[i].acts, R) = <<>>
  <2> SUFFICES ASSUME NEW i \in 1 .. L, i # 1, i # L PROVE Without(r[i].acts, R) = <<>>
    OBVIOUS
  <2>1. Range(r[i].acts) \subseteq R
    BY <1>2, <1>3, <1>4
  <2>2. r[i].acts \in Seq(Orders)
    BY <1>1
  <2>3. Without(r[i].acts, R) \in Seq(Orders) /\ Range(Without(r[i].acts, R)) = {}
    BY <2>1, <2>2, WithoutSome
  <2> QED
    BY <2>3, EmptySequence
<1>6. Kept(r, R) = {1, L}
  <2>1. \A i \in 1 .. L : i # 1 /\ i # L => r[i].type \notin {"START", "END"}
    BY <1>2, <1>3
  <2> QED
    BY <1>1, <1>2, <1>3, <1>5, <2>1 DEF Kept
<1>7. Cardinality(Kept(r, R)) = 2
  <2>1. IsFiniteSet({1}) /\ Cardinality({1}) = 1
    BY FS_Singleton
  <2>2. L \notin {1}
    BY <1>2
  <2> DEFINE pair == {1} \cup {L}
             one == Cardinality({1})
  <2>3. Cardinality(pair) = one + 1
    BY <2>1, <2>2, FS_AddElement
  <2>4. Kept(r, R) = pair
    BY <1>6
  <2>5. one = 1
    BY <2>1
  <2> HIDE DEF pair, one
  <2>6. Cardinality(pair) = 2
    BY <2>3, <2>5
  <2> QED
    BY <2>4, <2>6
<1>8. Len(left.nodes) = Cardinality(Kept(r, R))
  BY LeftNodes
<1> QED
  BY <1>7, <1>8 DEF IsEmpty

\* construct_load_by_order's first chain.
LEMMA FirstDelivery ==
  ASSUME InstanceAssumption, NEW o \in Orders, NEW load, load = InsertLastDelivery(CreateLoad, o)
  PROVE  Whole(load) /\ Current(load)
<1> DEFINE s == NewNode("START", DefaultLoc, <<>>)
           e == NewNode("END", DefaultLoc, <<>>)
           k == NewNode("PICK", PickLoc[o], <<o>>)
           d == DropNode(o)
           r == RouteOf(load)
<1>1. /\ DOMAIN load = {"nodes", "veh", "code", "cache", "feasible", "obj"}
      /\ load.nodes = <<s, k, d, e>> /\ load.cache = <<>>
  <2>1. /\ DOMAIN CreateLoad = {"nodes", "veh", "code", "cache", "feasible", "obj"}
        /\ CreateLoad.nodes = <<s, e>>
    BY DEF CreateLoad
  <2>2. IsEmpty(CreateLoad)
    BY <2>1 DEF IsEmpty
  <2> DEFINE create == CreateLoad
  <2>3. load = [ResetProfile(create) EXCEPT !.nodes = <<create.nodes[1], k, d, create.nodes[2]>>]
    BY <2>2 DEF InsertLastDelivery
  <2>4. /\ DOMAIN create = {"nodes", "veh", "code", "cache", "feasible", "obj"}
        /\ create.nodes = <<s, e>>
    BY <2>1
  <2> HIDE DEF create, s, e, k, d
  <2>5. /\ DOMAIN load = DOMAIN create /\ load.cache = <<>>
        /\ load.nodes = <<create.nodes[1], k, d, create.nodes[2]>>
    BY <2>3, <2>4 DEF ResetProfile
  <2> QED
    BY <2>4, <2>5
<1>2. DefaultLoc \in Locations /\ PickLoc[o] \in Locations /\ DropLoc[o] \in Locations
  BY DEF InstanceAssumption
<1>3. /\ s \in Nodes /\ s.type = "START" /\ s.acts = <<>>
      /\ e \in Nodes /\ e.type = "END" /\ e.acts = <<>>
      /\ k \in Nodes /\ k.type = "PICK" /\ k.acts = <<o>> /\ k.loc = PickLoc[o]
      /\ d \in Nodes /\ d.type = "DROP" /\ d.acts = <<o>> /\ d.loc = DropLoc[o]
  <2>1. <<>> \in Seq(Orders) /\ <<o>> \in Seq(Orders)
    OBVIOUS
  <2>2. \A type \in NodeTypes, loc \in Locations, acts \in Seq(Orders) :
          /\ NewNode(type, loc, acts) \in Nodes
          /\ NewNode(type, loc, acts).type = type /\ NewNode(type, loc, acts).loc = loc
          /\ NewNode(type, loc, acts).acts = acts
    BY DEF NewNode, Nodes
  <2>3. /\ "START" \in NodeTypes /\ "PICK" \in NodeTypes
        /\ "DROP" \in NodeTypes /\ "END" \in NodeTypes
    BY DEF NodeTypes
  <2> DEFINE none == <<>>
             one == <<o>>
  <2>4. none \in Seq(Orders) /\ one \in Seq(Orders)
    BY <2>1
  <2>5. /\ s = NewNode("START", DefaultLoc, none) /\ e = NewNode("END", DefaultLoc, none)
        /\ k = NewNode("PICK", PickLoc[o], one) /\ d = NewNode("DROP", DropLoc[o], one)
    BY DEF DropNode
  <2> HIDE DEF none, one, s, e, k, d
  <2>6. /\ s \in Nodes /\ s.type = "START" /\ s.acts = none
        /\ e \in Nodes /\ e.type = "END" /\ e.acts = none
    BY <1>2, <2>2, <2>3, <2>4, <2>5
  <2>7. /\ k \in Nodes /\ k.type = "PICK" /\ k.acts = one /\ k.loc = PickLoc[o]
        /\ d \in Nodes /\ d.type = "DROP" /\ d.acts = one /\ d.loc = DropLoc[o]
    BY <1>2, <2>2, <2>3, <2>4, <2>5
  <2> QED
    BY <2>6, <2>7 DEF none, one
<1> HIDE DEF s, e, k, d
<1>4. /\ load.nodes \in Seq(Nodes) /\ Len(load.nodes) = 4
      /\ load.nodes[1] = s /\ load.nodes[2] = k /\ load.nodes[3] = d /\ load.nodes[4] = e
  BY <1>1, <1>3
<1>5. IsLoad(load)
  <2>1. DOMAIN load.cache = {}
    BY <1>1
  <2> QED
    BY <1>1, <1>4, <2>1 DEF IsLoad
<1>6. /\ r \in Seq(BareNodes) /\ Len(r) = 4
      /\ \A i \in 1 .. 4 : r[i] = Bare(load.nodes[i])
  BY <1>4, RoutePlaces
<1>7. r[1] = Bare(s) /\ r[2] = Bare(k) /\ r[3] = Bare(d) /\ r[4] = Bare(e)
  BY <1>4, <1>6
<1>8. /\ r[1].type = "START" /\ r[1].acts = <<>> /\ r[4].type = "END" /\ r[4].acts = <<>>
      /\ r[2].type = "PICK" /\ r[2].acts = <<o>> /\ r[2].loc = PickLoc[o]
      /\ r[3].type = "DROP" /\ r[3].acts = <<o>> /\ r[3].loc = DropLoc[o]
  BY <1>3, <1>7 DEF Bare
<1>9. Framed(r)
  BY <1>6, <1>8 DEF Framed
<1>10. NoRepeat(<<o>>) /\ Range(<<o>>) = {o} /\ <<o>> # <<>>
  BY DEF NoRepeat, Range
<1>11. DropPlaces(r) = {3}
  BY <1>6 DEF DropPlaces
<1>12. Paired(r)
  BY <1>8, <1>10, <1>11 DEF Paired, Delivers
<1>13. Current(load)
  BY <1>1 DEF Current
<1> QED
  BY <1>5, <1>9, <1>12, <1>13 DEF Whole, Chain

LEMMA LastPlaces ==
  ASSUME NEW L \in Nat, L >= 4
  PROVE  /\ 1 \in 1 .. L /\ 2 \in 1 .. L /\ L \in 1 .. L /\ L - 1 \in 1 .. L /\ L - 1 \in 3 .. L - 1
         /\ L - 1 + 1 = L /\ L \in 3 .. L /\ L - 1 # 2 /\ L - 1 # 1 /\ L - 1 # L
         /\ L # 1 /\ L # 2
OBVIOUS

\* insert_last_delivery: the order joins the last delivery or gets a drop node behind it.
LEMMA LastDelivery ==
  ASSUME InstanceAssumption, NEW load, Whole(load), NEW o \in Orders,
         o \notin Picked(load), SharesPick(load, o),
         NEW more, more = InsertLastDelivery(load, o)
  PROVE  /\ Whole(more) /\ Current(more) /\ more.veh = load.veh
         /\ Housed(load) => Housed(more)
<1> DEFINE r == RouteOf(load)
           g == RouteOf(more)
           L == Len(load.nodes)
           last == L - 1
           once == AddFront(load.nodes, 2, o)
           joins == load.nodes[last].loc = DropLoc[o]
<1>1. /\ L \in Nat /\ L >= 4 /\ Chain(r) /\ Len(r) = L /\ load.nodes \in Seq(Nodes) /\ IsLoad(load)
      /\ \A i \in 1 .. L : /\ load.nodes[i] \in Nodes /\ r[i] = Bare(load.nodes[i])
                           /\ r[i].type = load.nodes[i].type /\ r[i].loc = load.nodes[i].loc
                           /\ r[i].acts = load.nodes[i].acts
  BY WholePlaces DEF Whole, IsLoad
<1>2. /\ 1 \in 1 .. L /\ 2 \in 1 .. L /\ L \in 1 .. L /\ last \in 1 .. L /\ last \in 3 .. L - 1
      /\ last + 1 = L /\ L \in 3 .. L /\ last # 2 /\ last # 1 /\ last # L /\ L # 1 /\ L # 2
  <2>1. L \in Nat /\ L >= 4
    BY <1>1
  <2> HIDE DEF L
  <2> QED
    BY <2>1, LastPlaces
<1>3. ~ IsEmpty(load)
  BY <1>2 DEF IsEmpty
<1>4. /\ more.nodes = IF joins THEN AddFront(once, last, o) ELSE InsertAt(once, last + 1, DropNode(o))
      /\ more.veh = load.veh /\ more.cache = <<>> /\ DOMAIN more = DOMAIN load
  BY <1>1, <1>3 DEF InsertLastDelivery, IsLoad, ResetProfile, LastStop
<1>5. last \in DropPlaces(r) /\ DropPlaces(r) = 3 .. L - 1
  BY <1>1, <1>2 DEF DropPlaces
<1>6. o \notin Range(r[2].acts) /\ r[2].loc = PickLoc[o]
  <2>1. r[2].type = "PICK"
    BY <1>1, ChainCarries
  <2> QED
    BY <1>1, <1>2, <2>1 DEF Picked, SharesPick
<1>7. /\ once \in Seq(Nodes) /\ Len(once) = L /\ Grows(r[2], Bare(once[2]), o)
      /\ \A j \in 1 .. L : j # 2 => once[j] = load.nodes[j]
  <2> DEFINE nodes == load.nodes
             two == 2
  <2>1. nodes \in Seq(Nodes) /\ two \in 1 .. Len(nodes) /\ once = AddFront(nodes, two, o)
    BY <1>1, <1>2
  <2> HIDE DEF once, nodes, two
  <2>2. /\ once \in Seq(Nodes) /\ Len(once) = Len(nodes)
        /\ Grows(Bare(nodes[two]), Bare(once[two]), o)
        /\ \A j \in 1 .. Len(nodes) : j # two => once[j] = nodes[j]
    BY <2>1, AddFrontPlaces, SMTT(30)
  <2> QED
    BY <1>1, <1>2, <2>2 DEF nodes, two
<1> HIDE DEF once, last, joins, L
<1>8. ASSUME joins
      PROVE  more.nodes \in Seq(Nodes) /\ Chain(g) /\ g[1] = r[1] /\ g[Len(g)] = r[L]
  <2> DEFINE f == more.nodes
  <2>1. f = AddFront(once, last, o) /\ last \in 1 .. Len(once)
    BY <1>2, <1>4, <1>7, <1>8
  <2> HIDE DEF f
  <2>2. /\ f \in Seq(Nodes) /\ Len(f) = Len(once) /\ Grows(Bare(once[last]), Bare(f[last]), o)
        /\ \A j \in 1 .. Len(once) : j # last => f[j] = once[j]
    BY <1>7, <2>1, AddFrontPlaces
  <2>3. f \in Seq(Nodes) /\ Len(f) = L
    BY <1>7, <2>2
  <2>4. g \in Seq(BareNodes) /\ Len(g) = L /\ \A i \in 1 .. L : g[i] = Bare(f[i])
    BY <2>3, RoutePlaces DEF f
  <2>5. Grows(r[last], g[last], o)
    BY <1>1, <1>2, <1>7, <2>2, <2>4 DEF L
  <2>6. Grows(r[2], g[2], o)
    BY <1>2, <1>7, <2>2, <2>4
  <2>7. \A i \in 1 .. L : i \notin {2, last} => g[i] = r[i]
    BY <1>1, <1>7, <2>2, <2>4 DEF L
  <2>8. r[last].loc = DropLoc[o]
    BY <1>1, <1>2, <1>8 DEF joins, L
  <2>9. Len(r) = L /\ Chain(r)
    BY <1>1 DEF L
  <2> HIDE DEF g, r
  <2>10. Chain(g)
    BY <1>5, <1>6, <2>4, <2>5, <2>6, <2>7, <2>8, <2>9, JoinedChain
  <2>11. g[1] = r[1] /\ g[L] = r[L]
    BY <1>2, <2>7
  <2> QED
    BY <2>3, <2>4, <2>10, <2>11 DEF f
<1>9. ASSUME ~ joins
      PROVE  more.nodes \in Seq(Nodes) /\ Chain(g) /\ g[1] = r[1] /\ g[Len(g)] = r[L]
  <2> DEFINE f == more.nodes
             drop == DropNode(o)
  <2>0. drop \in Nodes /\ Bare(drop) = Stop(o)
    BY DropNodeIsNode
  <2>1. f = InsertAt(once, L, drop) /\ L \in 1 .. Len(once) + 1
    <3>1. f = InsertAt(once, last + 1, drop)
      BY <1>4, <1>9
    <3>2. L \in 1 .. L + 1
      BY <1>1 DEF L
    <3> QED
      BY <1>2, <1>7, <3>1, <3>2
  <2> HIDE DEF f, drop
  <2>2. /\ f \in Seq(Nodes) /\ Len(f) = Len(once) + 1 /\ f[L] = drop
        /\ \A k \in 1 .. Len(once) : f[After(L, k)] = once[k]
    <3>1. once \in Seq(Nodes)
      BY <1>7
    <3> QED
      BY <2>0, <2>1, <3>1, InsertAtPlaces, SMTT(30)
  <2>3. f \in Seq(Nodes) /\ Len(f) = L + 1
    BY <1>7, <2>2
  <2>4. g \in Seq(BareNodes) /\ Len(g) = L + 1 /\ \A i \in 1 .. L + 1 : g[i] = Bare(f[i])
    BY <2>3, RoutePlaces DEF f
  <2>5. \A k \in 1 .. L : After(L, k) \in 1 .. L + 1
    BY <1>1 DEF After, L
  <2>6. \A k \in 1 .. L : g[After(L, k)] = Bare(once[k])
    BY <1>7, <2>2, <2>4, <2>5
  <2>7. After(L, 1) = 1 /\ After(L, 2) = 2 /\ After(L, L) = L + 1
    BY <1>1 DEF After, L
  <2>8. Grows(r[2], g[2], o)
    BY <1>2, <1>7, <2>6, <2>7
  <2>9. \A k \in 1 .. L : k # 2 => g[After(L, k)] = r[k]
    BY <1>1, <1>7, <2>6 DEF L
  <2>10. g[1] = r[1] /\ g[L + 1] = r[L]
    BY <1>2, <2>7, <2>9
  <2>11. g[L] = Stop(o)
    <3>1. L \in 1 .. L + 1
      BY <1>1 DEF L
    <3> QED
      BY <2>0, <2>2, <2>4, <3>1
  <2>12. \A i \in 3 .. L : g[After(L, i)] = r[i]
    <3>1. \A i \in 3 .. L : i \in 1 .. L /\ i # 2
      BY <1>1 DEF L
    <3> QED
      BY <2>9, <3>1
  <2>13. Len(r) = L /\ Chain(r)
    BY <1>1 DEF L
  <2> HIDE DEF g, r
  <2>14. Chain(g)
    <3>1. PICK p \in 3 .. Len(r) : p = L
      BY <1>2, <2>13
    <3>2. \A i \in 3 .. Len(r) : g[After(p, i)] = r[i]
      BY <2>12, <2>13, <3>1
    <3>3. g[p] = Stop(o) /\ g[1] = r[1] /\ Len(g) = Len(r) + 1 /\ g \in Seq(BareNodes)
      BY <2>4, <2>10, <2>11, <2>13, <3>1
    <3>4. Chain(r) /\ o \notin Range(r[2].acts) /\ r[2].loc = PickLoc[o]
      BY <1>6, <2>13 DEF r
    <3> QED
      BY <2>8, <3>2, <3>3, <3>4, PartedChain, Zenon
  <2> QED
    BY <2>3, <2>4, <2>10, <2>14 DEF f
<1>10. more.nodes \in Seq(Nodes) /\ Chain(g) /\ g[1] = r[1] /\ g[Len(g)] = r[Len(r)]
  BY <1>1, <1>8, <1>9 DEF L
<1>11. Whole(more) /\ Current(more)
  <2>1. DOMAIN more.cache = {}
    BY <1>4
  <2> QED
    BY <1>1, <1>4, <1>10, <2>1 DEF Whole, IsLoad, Current
<1>12. Housed(load) => Housed(more)
  BY <1>4, <1>10, <1>11, EndsHoused
<1> QED
  BY <1>4, <1>11, <1>12

(***************************************************************************)
(* Steps                                                                   *)
(***************************************************************************)

LEMMA LoadInitially ==
  ASSUME LoadInit
  PROVE  LoadInv
BY DEF LoadInit, LoadInv

LEMMA ChosenVehicle ==
  ASSUME InstanceAssumption, LoadInv, w <= Len(Usages)
  PROVE  Usages[w] \in VehicleTypes
<1>1. w \in Nat \ {0}
  BY DEF LoadInv
<1>2. Usages \in Seq(VehicleTypes)
  BY DEF InstanceAssumption
<1> QED
  BY <1>1, <1>2

\* A call that is over leaves the load the solution holds.
LEMMA FinishedStep ==
  ASSUME LoadInv, Finished, base' = NoLoad \/ Evaluated(base')
  PROVE  LoadInv'
BY DEF LoadInv, Finished

LEMMA ConstructBeginStep ==
  ASSUME InstanceAssumption, LoadInv, NEW o \in Orders, NEW F, ConstructBegin(o, F)
  PROVE  LoadInv'
<1>1. /\ base = NoLoad /\ base' = NoLoad /\ phase' = "construct" /\ w' = w /\ pick' = pick
      /\ work' = InsertLastDelivery(CreateLoad, o) /\ phase = "solution"
  BY DEF ConstructBegin
<1>2. Whole(work') /\ Current(work')
  BY <1>1, FirstDelivery
<1>3. w \in Nat \ {0} /\ pick = Nothing
  BY <1>1 DEF LoadInv
<1> QED
  BY <1>1, <1>2, <1>3 DEF LoadInv

LEMMA ConstructTryStep ==
  ASSUME InstanceAssumption, LoadInv, ConstructTry
  PROVE  LoadInv'
<1> DEFINE v == Usages[w]
           tried == TmpEvalLoad(ChangeVehicle(work, v))
<1>1. /\ phase = "construct" /\ phase' = "construct" /\ w' = w + 1 /\ base' = base
      /\ w <= Len(Usages)
      /\ \/ work' = work /\ pick' = pick
         \/ work' = tried.load /\ (pick' = pick \/ pick'.veh = v)
  BY DEF ConstructTry
<1>2. /\ w \in Nat \ {0} /\ base = NoLoad /\ Whole(work) /\ Current(work)
      /\ pick = Nothing \/ pick.veh \in VehicleTypes
  BY <1>1 DEF LoadInv
<1>3. v \in VehicleTypes
  BY <1>1, ChosenVehicle
<1>4. Whole(tried.load) /\ Current(tried.load)
  <2> DEFINE changed == ChangeVehicle(work, v)
  <2>1. Whole(changed) /\ Housed(changed) /\ Current(changed)
    BY <1>2, <1>3, ChangedLoad
  <2>2. tried.load = TmpEvalLoad(changed).load
    OBVIOUS
  <2> HIDE DEF changed, tried
  <2> QED
    BY <2>1, <2>2, TriedLoad
<1> HIDE DEF tried
<1>5. Whole(work') /\ Current(work') /\ (pick' = Nothing \/ pick'.veh \in VehicleTypes)
  BY <1>1, <1>2, <1>3, <1>4
<1>6. w' \in Nat \ {0} /\ base' = NoLoad /\ phase' = "construct"
  BY <1>1, <1>2
<1> QED
  BY <1>5, <1>6 DEF LoadInv

\* A vehicle that is changed to and evaluated.
LEMMA ChangedEvaluated ==
  ASSUME InstanceAssumption, NEW load, Whole(load), Current(load), NEW v \in VehicleTypes,
         NEW done, done = EvalLoad(ChangeVehicle(load, v))
  PROVE  /\ Evaluated(done) /\ done.veh = v
         /\ RouteOf(done) = Moved(RouteOf(load), v)
<1> DEFINE changed == ChangeVehicle(load, v)
<1>1. /\ Whole(changed) /\ Housed(changed) /\ changed.veh = v /\ Current(changed)
      /\ RouteOf(changed) = Moved(RouteOf(load), v)
  BY ChangedLoad
<1>2. done = EvalLoad(changed)
  OBVIOUS
<1> HIDE DEF changed
<1>3. /\ Whole(done) /\ Housed(done) /\ LegsOf(done) /\ Current(done)
      /\ done.veh = changed.veh /\ RouteOf(done) = RouteOf(changed)
  BY <1>1, <1>2, EvaluatedLoad
<1> QED
  BY <1>1, <1>3 DEF Evaluated

LEMMA ConstructEndStep ==
  ASSUME InstanceAssumption, LoadInv, ConstructEnd
  PROVE  LoadInv'
<1>1. /\ phase = "construct" /\ Finished
      /\ \/ base' = NoLoad
         \/ pick # Nothing /\ base' = EvalLoad(ChangeVehicle(work, pick.veh))
  BY DEF ConstructEnd
<1>2. Whole(work) /\ Current(work) /\ (pick = Nothing \/ pick.veh \in VehicleTypes)
  BY <1>1 DEF LoadInv
<1>3. base' = NoLoad \/ Evaluated(base')
  BY <1>1, <1>2, ChangedEvaluated
<1> QED
  BY <1>1, <1>3, FinishedStep

LEMMA WholeIsLoad ==
  ASSUME NEW load, Whole(load)
  PROVE  load # NoLoad
<1>1. Len(load.nodes) >= 4
  BY WholePlaces
<1>2. NoLoad.nodes = <<>> /\ Len(<<>>) = 0
  BY DEF NoLoad
<1> QED
  BY <1>1, <1>2

\* What two loads with one route share.
LEMMA SameRoute ==
  ASSUME NEW a, Whole(a), NEW b, Whole(b), RouteOf(a) = RouteOf(b)
  PROVE  /\ Picked(a) = Picked(b) /\ Len(a.nodes) = Len(b.nodes)
         /\ \A o : SharesPick(a, o) <=> SharesPick(b, o)
         /\ a.veh = b.veh => (Housed(a) <=> Housed(b))
<1>1. /\ Len(a.nodes) \in Nat /\ Len(a.nodes) >= 4 /\ Len(RouteOf(a)) = Len(a.nodes)
      /\ \A i \in 1 .. Len(a.nodes) : /\ RouteOf(a)[i].type = a.nodes[i].type
                                      /\ RouteOf(a)[i].loc = a.nodes[i].loc
                                      /\ RouteOf(a)[i].acts = a.nodes[i].acts
  BY WholePlaces
<1>2. /\ Len(RouteOf(b)) = Len(b.nodes)
      /\ \A i \in 1 .. Len(b.nodes) : /\ RouteOf(b)[i].type = b.nodes[i].type
                                      /\ RouteOf(b)[i].loc = b.nodes[i].loc
                                      /\ RouteOf(b)[i].acts = b.nodes[i].acts
  BY WholePlaces
<1>3. Len(a.nodes) = Len(b.nodes) /\ 2 \in 1 .. Len(a.nodes)
  BY <1>1, <1>2
<1>4. a.nodes[2].type = b.nodes[2].type /\ a.nodes[2].loc = b.nodes[2].loc
      /\ a.nodes[2].acts = b.nodes[2].acts
  BY <1>1, <1>2, <1>3
<1>5. a.veh = b.veh => (Housed(a) <=> Housed(b))
  BY EndsHoused
<1> QED
  BY <1>3, <1>4, <1>5 DEF Picked, SharesPick

LEMMA AppendBeginStep ==
  ASSUME InstanceAssumption, LoadInv, NEW o \in Orders, NEW F, AppendBegin(o, F)
  PROVE  LoadInv'
<1> DEFINE more == InsertLastDelivery(base, o)
<1>1. /\ base # NoLoad /\ base' = base /\ phase' = "append" /\ w' = 1
      /\ o \notin Picked(base) /\ SharesPick(base, o)
      /\ work' = EvalLoad(more) /\ pick'.veh = work'.veh
  BY DEF AppendBegin, SelectBegin
<1>2. Evaluated(base)
  BY <1>1 DEF LoadInv
<1>3. Whole(more) /\ Current(more) /\ Housed(more)
  BY <1>1, <1>2, LastDelivery DEF Evaluated
<1> HIDE DEF more
<1>4. Whole(work') /\ Housed(work') /\ LegsOf(work') /\ Current(work')
  BY <1>1, <1>3, EvaluatedLoad
<1>5. Evaluated(work') /\ pick'.veh \in VehicleTypes
  BY <1>1, <1>4 DEF Evaluated, Housed
<1>6. 1 \in Nat \ {0}
  OBVIOUS
<1> QED
  BY <1>1, <1>2, <1>5, <1>6 DEF LoadInv

LEMMA AppendEndStep ==
  ASSUME InstanceAssumption, LoadInv, AppendEnd
  PROVE  LoadInv'
<1>1. phase = "append" /\ Finished /\ (base' = base \/ base' = EvalLoad(ChangeVehicle(work, pick.veh)))
  BY DEF AppendEnd, Selected
<1>2. base # NoLoad /\ Evaluated(base) /\ Evaluated(work) /\ pick.veh \in VehicleTypes
  BY <1>1 DEF LoadInv
<1>3. Evaluated(EvalLoad(ChangeVehicle(work, pick.veh)))
  BY <1>2, ChangedEvaluated DEF Evaluated
<1> QED
  BY <1>1, <1>2, <1>3, FinishedStep

LEMMA InsertBeginStep ==
  ASSUME InstanceAssumption, LoadInv, NEW o \in Orders, NEW F, InsertBegin(o, F)
  PROVE  LoadInv'
<1>1. /\ base # NoLoad /\ base' = base /\ phase = "solution" /\ phase' = "trial"
      /\ o \notin Picked(base) /\ SharesPick(base, o) /\ order' = o
      /\ work' = WithRead(base, {"drops"}) /\ slots' = Read(base, "drops") + 1
      /\ u' = u /\ w' = w /\ best' = best
  BY DEF InsertBegin
<1>2. Evaluated(base) /\ u = 0 /\ best = Nothing /\ w \in Nat \ {0}
  BY <1>1 DEF LoadInv
<1>3. Whole(work') /\ RouteOf(work') = RouteOf(base) /\ work'.veh = base.veh
  <2>1. {"drops"} \subseteq {"drops", "peak", "stops", "dist"}
    OBVIOUS
  <2> QED
    BY <1>1, <1>2, <2>1, ReadLoad DEF Evaluated
<1>4. slots' = Len(base.nodes) - 2 /\ 0 \in 0 .. slots'
  <2>1. Read(base, "drops") = Profile(base.nodes).drops
    BY <1>2 DEF Read, Evaluated, Current
  <2>2. Profile(base.nodes).drops = Len(base.nodes) - 3
    BY <1>2, DropCount DEF Evaluated
  <2>3. Len(base.nodes) \in Nat /\ Len(base.nodes) >= 4
    BY <1>2, WholePlaces DEF Evaluated
  <2>4. slots' = Len(base.nodes) - 3 + 1
    BY <1>1, <2>1, <2>2
  <2> QED
    BY <2>3, <2>4
<1>5. Inserting'
  BY <1>1, <1>2, <1>4 DEF Inserting, BestKnown
<1>6. AtTrial'
  BY <1>1, <1>3, <1>5 DEF AtTrial
<1> QED
  BY <1>1, <1>2, <1>6 DEF LoadInv

\* The routes of the trials of a slot.
LEMMA InsertedRoute ==
  ASSUME InstanceAssumption, Evaluated(base), Inserting, NEW n \in 0 .. slots - 1,
         NEW v \in VehicleTypes
  PROVE  /\ Chain(Moved(RouteOf(base), v))
         /\ Put(Moved(RouteOf(base), v), order, n) = Inserted(n, v)
         /\ Shorn(Inserted(n, v), {order}) = Moved(RouteOf(base), v)
         /\ Moved(RouteOf(base), base.veh) = RouteOf(base)
         /\ \A x : Moved(Inserted(n, v), x) = Inserted(n, x)
<1> DEFINE r == RouteOf(base)
           L == Len(r)
           p == L - n
           m == Moved(r, v)
<1>1. Whole(base) /\ Housed(base) /\ order \in Orders /\ order \notin Picked(base)
      /\ SharesPick(base, order) /\ slots = Len(base.nodes) - 2
  BY DEF Evaluated, Inserting
<1>2. /\ Len(base.nodes) \in Nat /\ Len(base.nodes) >= 4 /\ L = Len(base.nodes) /\ Chain(r)
      /\ \A i \in 1 .. L : /\ r[i].type = base.nodes[i].type
                           /\ r[i].loc = base.nodes[i].loc /\ r[i].acts = base.nodes[i].acts
  BY <1>1, WholePlaces
<1>3. /\ p \in 3 .. L /\ 2 \in 1 .. L /\ 2 \in 2 .. L - 1
  BY <1>1, <1>2
<1>4. order \notin Range(r[2].acts) /\ r[2].loc = PickLoc[order]
  <2>1. r[2].type = "PICK"
    BY <1>2, ChainCarries
  <2>2. r[2].type = base.nodes[2].type /\ r[2].loc = base.nodes[2].loc
        /\ r[2].acts = base.nodes[2].acts
    BY <1>2, <1>3
  <2> QED
    BY <1>1, <2>1, <2>2 DEF Picked, SharesPick
<1>5. Chain(m) /\ Len(m) = L
  BY <1>2, MovedChain
<1>6. Put(r, order, n) = PutAt(r, order, p) /\ Put(m, order, n) = PutAt(m, order, p)
  BY <1>5 DEF Put
<1>7. order \notin Range(m[2].acts) /\ m[2].loc = PickLoc[order]
  <2>1. m[2] = r[2]
    <3>1. \A i \in 2 .. L - 1 : m[i] = r[i]
      BY <1>2, MovedPlaces
    <3> QED
      BY <1>3, <3>1
  <2> QED
    BY <1>4, <2>1
<1> HIDE DEF p, r, m, L
<1>8. Chain(r) /\ p \in 3 .. Len(r) /\ p \in 3 .. Len(m) /\ m = Moved(r, v)
  BY <1>2, <1>3, <1>5 DEF L, m
<1>9. PutAt(m, order, p) = Moved(PutAt(r, order, p), v)
  BY <1>1, <1>4, <1>8, PutMoved
<1>10. Put(m, order, n) = Inserted(n, v)
  BY <1>6, <1>9 DEF Inserted, r
<1>11. Shorn(PutAt(m, order, p), {order}) = m
  BY <1>1, <1>5, <1>7, <1>8, ShornPut
<1>12. Moved(r, base.veh) = r
  <2>1. r[1].loc = OrigLoc[base.veh] /\ r[Len(r)].loc = DestLoc[base.veh]
    BY <1>1, EndsHoused DEF r
  <2> QED
    BY <1>8, <2>1, MovedHome
<1>13. ASSUME NEW x PROVE Moved(Inserted(n, v), x) = Inserted(n, x)
  <2>1. Chain(PutAt(r, order, p))
    BY <1>1, <1>4, <1>8, PutChains
  <2>2. Moved(Moved(PutAt(r, order, p), v), x) = Moved(PutAt(r, order, p), x)
    BY <2>1, MovedTwice
  <2> QED
    BY <1>6, <2>2 DEF Inserted, r
<1> QED
  BY <1>5, <1>6, <1>10, <1>11, <1>12, <1>13 DEF m, r

\* The copy with the order at slot u, before its evaluation.
LEMMA TrialPut ==
  ASSUME InstanceAssumption, Evaluated(base), AtTrial, u < slots,
         NEW put, put = InsertSegmentAt(ResetProfile(work), order, u)
  PROVE  /\ Whole(put) /\ Housed(put) /\ put.veh = base.veh /\ put.cache = <<>>
         /\ RouteOf(put) = Inserted(u, base.veh) /\ u \in 0 .. slots - 1
<1> DEFINE reset == ResetProfile(work)
           v == base.veh
<1>1. Inserting /\ Whole(work) /\ RouteOf(work) = RouteOf(base) /\ work.veh = v
  BY DEF AtTrial
<1>2. Whole(base) /\ Housed(base) /\ v \in VehicleTypes
  BY DEF Evaluated, Housed
<1>3. /\ order \in Orders /\ order \notin Picked(base) /\ SharesPick(base, order)
      /\ slots = Len(base.nodes) - 2 /\ u \in 0 .. slots
  BY <1>1 DEF Inserting
<1>4. Housed(work)
  BY <1>1, <1>2, SameRoute
<1>5. /\ Whole(reset) /\ Current(reset) /\ Housed(reset) /\ reset.veh = v
      /\ RouteOf(reset) = RouteOf(base) /\ reset.cache = <<>>
  <2>1. reset.cache = <<>>
    BY <1>1 DEF ResetProfile, Whole, IsLoad
  <2> QED
    BY <1>1, <1>4, <2>1, ResetLoad
<1>6. put = InsertSegmentAt(reset, order, u)
  OBVIOUS
<1> HIDE DEF reset
<1>7. /\ order \notin Picked(reset) /\ SharesPick(reset, order)
      /\ Len(reset.nodes) = Len(base.nodes)
  BY <1>2, <1>3, <1>5, SameRoute
<1>8. u \in 0 .. Len(reset.nodes) - 3 /\ u \in 0 .. slots - 1
  <2>1. Len(base.nodes) \in Nat
    BY <1>2, WholePlaces
  <2> QED
    BY <1>3, <1>7, <2>1
<1>9. /\ Whole(put) /\ put.veh = v /\ put.cache = <<>> /\ Housed(put)
      /\ RouteOf(put) = Put(RouteOf(base), order, u)
  BY <1>3, <1>5, <1>6, <1>7, <1>8, PutLoad
<1>10. RouteOf(put) = Inserted(u, v)
  BY <1>1, <1>2, <1>8, <1>9, InsertedRoute
<1> QED
  BY <1>8, <1>9, <1>10

LEMMA TrialStep ==
  ASSUME InstanceAssumption, LoadInv, Trial
  PROVE  LoadInv'
<1> DEFINE put == InsertSegmentAt(ResetProfile(work), order, u)
           v == base.veh
<1>1. /\ phase = "trial" /\ u < slots /\ base' = base /\ order' = order /\ u' = u
      /\ slots' = slots /\ best' = best /\ work' = EvalLoad(put)
      /\ \/ phase' = "judge" /\ w' = w
         \/ phase' = "select" /\ w' = 1 /\ pick'.veh = work'.veh
  BY DEF Trial, SelectBegin
<1>2. w \in Nat \ {0} /\ Inserting /\ AtTrial /\ Evaluated(base)
  BY <1>1 DEF LoadInv, AtTrial, Inserting
<1>3. v \in VehicleTypes
  BY <1>2 DEF Evaluated, Housed
<1>4. /\ Whole(put) /\ put.veh = v /\ put.cache = <<>> /\ Housed(put)
      /\ RouteOf(put) = Inserted(u, v)
  BY <1>1, <1>2, TrialPut
<1> HIDE DEF put
<1>5. Current(put)
  <2>1. DOMAIN put.cache = {}
    BY <1>4
  <2> QED
    BY <2>1 DEF Current
<1>6. Evaluated(work') /\ work'.veh = v /\ RouteOf(work') = Inserted(u, v)
  BY <1>1, <1>4, <1>5, EvaluatedLoad DEF Evaluated
<1>7. Inserting'
  BY <1>1, <1>2 DEF Inserting, BestKnown, Inserted
<1>8. AtJudge'
  BY <1>1, <1>6, <1>7 DEF AtJudge, Inserted
<1>9. 1 \in Nat \ {0}
  OBVIOUS
<1> QED
  BY <1>1, <1>2, <1>3, <1>6, <1>8, <1>9 DEF LoadInv

\* Looking for a vehicle keeps the route but for its depots.
LEMMA SelectedRoute ==
  ASSUME InstanceAssumption, Evaluated(base), AtJudge, NEW v \in VehicleTypes,
         NEW done, done = EvalLoad(ChangeVehicle(work, v))
  PROVE  Evaluated(done) /\ done.veh = v /\ RouteOf(done) = Inserted(u, done.veh)
<1>1. /\ Inserting /\ u < slots /\ Evaluated(work)
      /\ RouteOf(work) = Inserted(u, work.veh) /\ u \in 0 .. slots /\ work.veh \in VehicleTypes
  BY DEF AtJudge, Inserting, Evaluated, Housed
<1>2. Evaluated(done) /\ done.veh = v /\ RouteOf(done) = Moved(RouteOf(work), v)
  BY <1>1, ChangedEvaluated DEF Evaluated
<1>3. u \in 0 .. slots - 1
  <2>1. Len(base.nodes) \in Nat /\ slots = Len(base.nodes) - 2
    BY <1>1, WholePlaces DEF Evaluated, Inserting
  <2> QED
    BY <1>1, <2>1
<1>4. Moved(Inserted(u, work.veh), v) = Inserted(u, v)
  BY <1>1, <1>3, InsertedRoute
<1> QED
  BY <1>1, <1>2, <1>4

LEMMA SelectTryStep ==
  ASSUME InstanceAssumption, LoadInv, SelectTry
  PROVE  LoadInv'
<1> DEFINE v == Usages[w]
           done == EvalLoad(ChangeVehicle(work, v))
<1>1. /\ phase \in {"append", "select"} /\ phase' = phase /\ w' = w + 1 /\ w <= Len(Usages)
      /\ base' = base /\ order' = order /\ u' = u /\ slots' = slots /\ best' = best
      /\ \/ work' = work /\ pick' = pick
         \/ work' = done /\ (pick' = pick \/ pick'.veh = v)
  BY DEF SelectTry, Selecting
<1>2. /\ w \in Nat \ {0} /\ base # NoLoad /\ Evaluated(base) /\ Evaluated(work)
      /\ pick.veh \in VehicleTypes /\ (phase = "select" => AtJudge)
  BY <1>1 DEF LoadInv, AtJudge, Inserting
<1>3. v \in VehicleTypes
  BY <1>1, ChosenVehicle
<1>4. Evaluated(done) /\ done.veh = v
  BY <1>2, <1>3, ChangedEvaluated DEF Evaluated
<1>5. ASSUME phase = "select" PROVE RouteOf(done) = Inserted(u, done.veh)
  BY <1>2, <1>3, <1>5, SelectedRoute
<1> HIDE DEF done
<1>6. Evaluated(work') /\ pick'.veh \in VehicleTypes
  BY <1>1, <1>2, <1>3, <1>4
<1>7. w' \in Nat \ {0}
  BY <1>1, <1>2
<1>8. ASSUME phase = "select" PROVE AtJudge'
  <2>1. Inserting /\ u < slots /\ RouteOf(work) = Inserted(u, work.veh)
    BY <1>2, <1>8 DEF AtJudge
  <2>2. RouteOf(work') = Inserted(u, work'.veh)
    BY <1>1, <1>5, <1>8, <2>1
  <2>3. Inserting'
    BY <1>1, <2>1 DEF Inserting, BestKnown, Inserted
  <2> QED
    BY <1>1, <1>6, <2>1, <2>2, <2>3 DEF AtJudge, Inserted
<1>9. CASE phase = "append"
  BY <1>1, <1>2, <1>6, <1>7, <1>9 DEF LoadInv
<1>10. CASE phase = "select"
  BY <1>1, <1>2, <1>6, <1>7, <1>8, <1>10 DEF LoadInv
<1> QED
  BY <1>1, <1>9, <1>10

LEMMA SelectEndStep ==
  ASSUME InstanceAssumption, LoadInv, SelectEnd
  PROVE  LoadInv'
<1>1. /\ phase = "select" /\ phase' = "judge" /\ w' = 1
      /\ base' = base /\ order' = order /\ u' = u /\ slots' = slots /\ best' = best
      /\ work' = EvalLoad(ChangeVehicle(work, pick.veh))
  BY DEF SelectEnd, Selected
<1>2. AtJudge /\ pick.veh \in VehicleTypes /\ base # NoLoad /\ Evaluated(base)
  BY <1>1 DEF LoadInv, AtJudge, Inserting
<1>3. Evaluated(work') /\ RouteOf(work') = Inserted(u, work'.veh)
  BY <1>1, <1>2, SelectedRoute
<1>4. Inserting /\ u < slots
  BY <1>2 DEF AtJudge
<1>5. Inserting'
  BY <1>1, <1>4 DEF Inserting, BestKnown, Inserted
<1>6. AtJudge'
  BY <1>1, <1>3, <1>4, <1>5 DEF AtJudge, Inserted
<1>7. 1 \in Nat \ {0}
  OBVIOUS
<1> QED
  BY <1>1, <1>2, <1>6, <1>7 DEF LoadInv

LEMMA JudgeStep ==
  ASSUME InstanceAssumption, LoadInv, Judge
  PROVE  LoadInv'
<1> DEFINE v == work.veh
           home == base.veh
           left == RemoveActivities(work, {order})
<1>1. /\ phase = "judge" /\ phase' = "trial" /\ base' = base /\ order' = order /\ u' = u + 1
      /\ slots' = slots /\ w' = w /\ work' = ChangeVehicle(left, home)
      /\ \/ best' = best
         \/ /\ best'.veh = v /\ best'.slot = u /\ best'.route = RouteOf(work)
  BY DEF Judge, RollBack
<1>2. /\ w \in Nat \ {0} /\ Inserting /\ u < slots /\ Evaluated(work)
      /\ RouteOf(work) = Inserted(u, v) /\ base # NoLoad /\ Evaluated(base)
  BY <1>1 DEF LoadInv, AtJudge, Inserting
<1>3. /\ v \in VehicleTypes /\ home \in VehicleTypes /\ u \in 0 .. slots
      /\ Whole(work) /\ Whole(base)
  BY <1>2 DEF Evaluated, Housed, Inserting
<1>4. u \in 0 .. slots - 1 /\ u + 1 \in 0 .. slots
  <2>1. slots \in Int
    <3>1. Len(base.nodes) \in Nat /\ slots = Len(base.nodes) - 2
      BY <1>2, <1>3, WholePlaces DEF Inserting
    <3> QED
      BY <3>1
  <2> QED
    BY <1>2, <1>3, <2>1
<1>5. /\ Chain(Moved(RouteOf(base), v))
      /\ Shorn(Inserted(u, v), {order}) = Moved(RouteOf(base), v)
      /\ Moved(RouteOf(base), home) = RouteOf(base)
  BY <1>2, <1>3, <1>4, InsertedRoute
<1>6. Whole(left) /\ RouteOf(left) = Moved(RouteOf(base), v)
  BY <1>2, <1>3, <1>5, ShornLoad
<1> HIDE DEF left
<1>7. Whole(work') /\ work'.veh = home /\ RouteOf(work') = Moved(RouteOf(left), home)
  BY <1>1, <1>3, <1>6, ChangedLoad
<1>8. Moved(Moved(RouteOf(base), v), home) = Moved(RouteOf(base), home)
  <2>1. Chain(RouteOf(base))
    BY <1>3 DEF Whole
  <2> QED
    BY <1>3, <2>1, MovedTwice
<1>9. RouteOf(work') = RouteOf(base)
  BY <1>5, <1>6, <1>7, <1>8
<1>10. BestKnown'
  <2>1. CASE best' = best
    BY <1>1, <1>2, <2>1 DEF Inserting, BestKnown, Inserted
  <2>2. CASE best'.veh = v /\ best'.slot = u /\ best'.route = RouteOf(work)
    BY <1>1, <1>2, <1>3, <1>4, <2>2 DEF BestKnown, Inserted
  <2> QED
    BY <1>1, <2>1, <2>2
<1>11. Inserting'
  BY <1>1, <1>2, <1>4, <1>10 DEF Inserting
<1>12. AtTrial'
  BY <1>1, <1>7, <1>9, <1>11 DEF AtTrial
<1> QED
  BY <1>1, <1>2, <1>12 DEF LoadInv

LEMMA InsertFailsStep ==
  ASSUME LoadInv, InsertFails
  PROVE  LoadInv'
<1>1. Finished /\ base' = base
  BY DEF InsertFails
<1>2. base = NoLoad \/ Evaluated(base)
  BY DEF LoadInv
<1> QED
  BY <1>1, <1>2, FinishedStep

LEMMA InsertBestStep ==
  ASSUME InstanceAssumption, LoadInv, InsertBest
  PROVE  LoadInv'
<1> DEFINE reset == ResetProfile(work)
           v == best.veh
           n == best.slot
           changed == ChangeVehicle(reset, v)
           put == InsertSegmentAt(changed, order, n)
<1>1. /\ phase = "trial" /\ best # Nothing /\ best' = best /\ base' = base /\ w' = w
      /\ work' = EvalLoad(put) /\ phase' \in {"final", "threw"}
  BY DEF InsertBest
<1>2. /\ w \in Nat \ {0} /\ Inserting /\ Whole(work) /\ RouteOf(work) = RouteOf(base)
      /\ Evaluated(base)
  BY <1>1 DEF LoadInv, AtTrial, Inserting
<1>3. /\ n \in 0 .. slots - 1 /\ v \in VehicleTypes /\ best.route = Inserted(n, v)
      /\ order \in Orders /\ order \notin Picked(base) /\ SharesPick(base, order)
      /\ slots = Len(base.nodes) - 2 /\ Whole(base)
  BY <1>1, <1>2 DEF Inserting, BestKnown, Evaluated
<1>4. /\ Whole(reset) /\ RouteOf(reset) = RouteOf(base)
  BY <1>2, ResetLoad
<1>5. DOMAIN reset.cache = {}
  <2>1. reset.cache = <<>>
    BY <1>2 DEF ResetProfile, Whole, IsLoad
  <2> QED
    BY <2>1
<1> HIDE DEF reset
<1>6. /\ Whole(changed) /\ Housed(changed) /\ changed.veh = v
      /\ RouteOf(changed) = Moved(RouteOf(base), v)
  BY <1>3, <1>4, ChangedLoad
<1>7. DOMAIN changed.cache = {}
  BY <1>3, <1>4, <1>5, ChangedCache
<1> HIDE DEF changed
<1>8. /\ Chain(Moved(RouteOf(base), v)) /\ Put(Moved(RouteOf(base), v), order, n) = Inserted(n, v)
  BY <1>2, <1>3, InsertedRoute
<1>9. /\ order \notin Picked(changed) /\ SharesPick(changed, order)
      /\ Len(changed.nodes) = Len(base.nodes)
  BY <1>3, <1>6, MovedPick
<1>10. n \in 0 .. Len(changed.nodes) - 3
  <2>1. Len(base.nodes) \in Nat
    BY <1>3, WholePlaces
  <2> QED
    BY <1>3, <1>9, <2>1
<1>11. /\ Whole(put) /\ put.veh = v /\ put.cache = changed.cache /\ Housed(put)
       /\ RouteOf(put) = Inserted(n, v)
  BY <1>3, <1>6, <1>8, <1>9, <1>10, PutLoad
<1> HIDE DEF put
<1>12. Current(put)
  BY <1>7, <1>11 DEF Current
<1>13. Evaluated(work') /\ work'.veh = v /\ RouteOf(work') = Inserted(n, v)
  BY <1>1, <1>11, <1>12, EvaluatedLoad DEF Evaluated
<1>14. AtFinal'
  BY <1>1, <1>3, <1>13 DEF AtFinal
<1> QED
  BY <1>1, <1>2, <1>13, <1>14 DEF LoadInv

LEMMA UseCellStep ==
  ASSUME LoadInv, UseCell
  PROVE  LoadInv'
<1>1. phase = "final" /\ Finished /\ base' \in {base, work}
  BY DEF UseCell
<1>2. Evaluated(work) /\ (base = NoLoad \/ Evaluated(base))
  BY <1>1 DEF LoadInv, AtFinal
<1> QED
  BY <1>1, <1>2, FinishedStep

\* A load that keeps an order when others are removed.
LEMMA RemovedSome ==
  ASSUME InstanceAssumption, NEW load, Evaluated(load), NEW R, NEW x \in Picked(load), x \notin R,
         NEW done, done = EvalLoad(ResetProfile(RemoveActivities(load, R)))
  PROVE  Evaluated(done)
<1> DEFINE r == RouteOf(load)
           left == RemoveActivities(load, R)
           reset == ResetProfile(left)
<1>1. Whole(load) /\ Housed(load)
  BY DEF Evaluated
<1>2. Chain(r) /\ x \in Range(r[2].acts)
  <2>1. /\ Len(load.nodes) \in Nat /\ Len(load.nodes) >= 4 /\ Chain(r)
        /\ \A i \in 1 .. Len(load.nodes) : r[i].acts = load.nodes[i].acts
    BY <1>1, WholePlaces
  <2>2. 2 \in 1 .. Len(load.nodes)
    BY <2>1
  <2> QED
    BY <2>1, <2>2 DEF Picked
<1>3. /\ Chain(Shorn(r, R)) /\ Shorn(r, R)[1].loc = r[1].loc
      /\ Shorn(r, R)[Len(Shorn(r, R))].loc = r[Len(r)].loc
  BY <1>2, ShornChain
<1>4. Whole(left) /\ left.veh = load.veh /\ RouteOf(left) = Shorn(r, R)
  BY <1>1, <1>3, ShornLoad
<1> HIDE DEF left
<1>5. Housed(left)
  BY <1>1, <1>3, <1>4, EndsHoused
<1>6. Whole(reset) /\ Current(reset) /\ Housed(reset)
  BY <1>4, <1>5, ResetLoad
<1>7. done = EvalLoad(reset)
  BY DEF left
<1> HIDE DEF reset
<1> QED
  BY <1>6, <1>7, EvaluatedLoad DEF Evaluated

LEMMA RuinPartStep ==
  ASSUME InstanceAssumption, LoadInv, NEW R, RuinPart(R)
  PROVE  LoadInv'
<1>1. /\ phase = "solution" /\ base # NoLoad /\ R # Picked(base) /\ R \subseteq Picked(base)
      /\ base' = EvalLoad(ResetProfile(RemoveActivities(base, R)))
      /\ phase' \in {"solution", "shed"}
      /\ work' = work /\ w' = w /\ u' = u /\ best' = best /\ pick' = pick
  BY DEF RuinPart
<1>2. Evaluated(base) /\ w \in Nat \ {0} /\ work = NoLoad /\ best = Nothing /\ pick = Nothing /\ u = 0
  BY <1>1 DEF LoadInv
<1>3. PICK x \in Picked(base) : x \notin R
  BY <1>1
<1>4. Evaluated(base')
  BY <1>1, <1>2, <1>3, RemovedSome
<1>5. base' # NoLoad
  BY <1>4, WholeIsLoad DEF Evaluated
<1> QED
  BY <1>1, <1>2, <1>4, <1>5 DEF LoadInv

LEMMA ShedStep ==
  ASSUME InstanceAssumption, LoadInv, Shed
  PROVE  LoadInv'
<1> DEFINE R == {Last(base.nodes[LastStop(base)].acts)}
           left == RemoveActivities(base, R)
<1>1. /\ phase = "shed" /\ work' = work /\ w' = w /\ u' = u /\ best' = best /\ pick' = pick
      /\ \/ base' = NoLoad /\ phase' = "solution"
         \/ /\ ~ IsEmpty(left) /\ base' = EvalLoad(ResetProfile(left))
            /\ phase' \in {"solution", "shed"}
  BY DEF Shed
<1>2. /\ Evaluated(base) /\ w \in Nat \ {0} /\ work = NoLoad /\ best = Nothing /\ pick = Nothing
      /\ u = 0
  BY <1>1 DEF LoadInv
<1>3. CASE base' = NoLoad /\ phase' = "solution"
  BY <1>1, <1>2, <1>3 DEF LoadInv
<1>4. CASE /\ ~ IsEmpty(left) /\ base' = EvalLoad(ResetProfile(left))
           /\ phase' \in {"solution", "shed"}
  <2> HIDE DEF R
  <2>1. ~ (Picked(base) \subseteq R)
    BY <1>2, <1>4, AllGone DEF Evaluated
  <2>2. PICK x \in Picked(base) : x \notin R
    BY <2>1
  <2>3. Evaluated(base')
    BY <1>2, <1>4, <2>2, RemovedSome
  <2>4. base' # NoLoad
    BY <2>3, WholeIsLoad DEF Evaluated
  <2> QED
    BY <1>1, <1>2, <1>4, <2>3, <2>4 DEF LoadInv
<1> QED
  BY <1>1, <1>3, <1>4

LEMMA RuinWholeStep ==
  ASSUME LoadInv, RuinWhole
  PROVE  LoadInv'
BY DEF LoadInv, RuinWhole

LEMMA LoadStep ==
  ASSUME InstanceAssumption, LoadInv, [LoadNext]_loadVars
  PROVE  LoadInv'
<1>1. ASSUME NEW o \in Orders, NEW F \in SUBSET VehicleTypes,
             ConstructBegin(o, F) \/ AppendBegin(o, F) \/ InsertBegin(o, F)
      PROVE  LoadInv'
  BY <1>1, ConstructBeginStep, AppendBeginStep, InsertBeginStep
<1>2. CASE ConstructTry
  BY <1>2, ConstructTryStep
<1>3. CASE ConstructEnd
  BY <1>3, ConstructEndStep
<1>4. CASE SelectTry
  BY <1>4, SelectTryStep
<1>5. CASE AppendEnd
  BY <1>5, AppendEndStep
<1>6. CASE Trial
  BY <1>6, TrialStep
<1>7. CASE SelectEnd
  BY <1>7, SelectEndStep
<1>8. CASE Judge
  BY <1>8, JudgeStep
<1>9. CASE InsertFails
  BY <1>9, InsertFailsStep
<1>10. CASE InsertBest
  BY <1>10, InsertBestStep
<1>11. CASE UseCell
  BY <1>11, UseCellStep
<1>12. ASSUME NEW R \in SUBSET Orders, RuinPart(R)
       PROVE  LoadInv'
  BY <1>12, RuinPartStep
<1>13. CASE Shed
  BY <1>13, ShedStep
<1>14. CASE RuinWhole
  BY <1>14, RuinWholeStep
<1>15. CASE UNCHANGED loadVars
  <2>1. /\ base' = base /\ work' = work /\ phase' = phase /\ order' = order /\ u' = u /\ w' = w
        /\ slots' = slots /\ best' = best /\ pick' = pick
    BY <1>15 DEF loadVars
  <2> QED
    BY <2>1 DEF LoadInv, AtTrial, AtJudge, AtFinal, Inserting, BestKnown, Inserted
<1> QED
  BY <1>1, <1>2, <1>3, <1>4, <1>5, <1>6, <1>7, <1>8, <1>9, <1>10, <1>11, <1>12, <1>13, <1>14,
     <1>15 DEF LoadNext

\* Whatever is built, appended, tried, rolled back, done again or removed, LoadInv holds.
THEOREM LoadsWhole == LoadSpec => []LoadInv
<1>1. LoadInit => LoadInv
  BY LoadInitially
<1>2. LoadInv /\ [LoadNext]_loadVars => LoadInv'
  BY InstanceAssumption, LoadStep
<1> QED
  BY <1>1, <1>2, PTL DEF LoadSpec

\* A list without repetitions is as long as the set of its elements is large.
LEMMA NoRepeatCount ==
  ASSUME NEW S, NEW acts \in Seq(S), NoRepeat(acts)
  PROVE  Cardinality(Range(acts)) = Len(acts)
<1> DEFINE D == 1 .. Len(acts)
           T == Range(acts)
<1>1. Len(acts) \in Nat /\ DOMAIN acts = D /\ acts = [i \in D |-> acts[i]]
  OBVIOUS
<1>2. IsFiniteSet(D) /\ Cardinality(D) = Len(acts)
  <2>1. Cardinality(1 .. Len(acts)) = IF 1 > Len(acts) THEN 0 ELSE Len(acts) - 1 + 1
    BY <1>1, FS_Interval
  <2>2. 1 \in Int /\ Len(acts) \in Int
    BY <1>1
  <2>3. IsFiniteSet(1 .. Len(acts))
    BY <2>2, FS_Interval, Zenon
  <2> QED
    BY <1>1, <2>1, <2>3
<1>3. /\ \A i \in D : acts[i] \in T
      /\ \A t \in T : \E i \in D : acts[i] = t
      /\ \A i, j \in D : acts[i] = acts[j] => i = j
  BY <1>1 DEF Range, NoRepeat
<1> HIDE DEF D, T
<1>4. acts \in [D -> T]
  BY <1>1, <1>3
<1>5. acts \in Surjection(D, T) /\ acts \in Injection(D, T)
  BY <1>3, <1>4 DEF Surjection, Injection, IsInjective
<1>6. Cardinality(T) = Cardinality(D)
  BY <1>2, <1>5, FS_Surjection
<1> QED
  BY <1>2, <1>6 DEF T

\* The loads there are.
LEMMA LivingLoads ==
  ASSUME LoadInv, NEW load \in Live
  PROVE  /\ Whole(load)
         /\ Current(load) \/ (phase = "trial" /\ load = work)
<1>1. CASE load = base
  BY <1>1 DEF LoadInv, Live, Evaluated
<1>2. CASE load = work
  BY <1>2 DEF LoadInv, Live, Evaluated, AtTrial, AtJudge, AtFinal
<1> QED
  BY <1>1, <1>2 DEF Live

\* RoutePaired of one load.
PairedNodes(load, nodes, last, drops) ==
  /\ last >= 4
  /\ nodes[1].type = "START" /\ nodes[2].type = "PICK" /\ nodes[last].type = "END"
  /\ \A i \in drops : /\ nodes[i].type = "DROP" /\ nodes[i].acts # <<>>
                     /\ \A o \in Range(nodes[i].acts) : nodes[i].loc = DropLoc[o]
  /\ \A o \in Picked(load) : nodes[2].loc = PickLoc[o]
  /\ \A i \in 2 .. last - 1 : Cardinality(Range(nodes[i].acts)) = Len(nodes[i].acts)
  /\ \A i, j \in drops : i # j => Range(nodes[i].acts) \cap Range(nodes[j].acts) = {}
  /\ Picked(load) = UNION {Range(nodes[i].acts) : i \in drops}

LEMMA WholeIsPaired ==
  ASSUME NEW load, Whole(load), NEW last, last = Len(load.nodes), NEW drops, drops = 3 .. last - 1
  PROVE  PairedNodes(load, load.nodes, last, drops)
<1> DEFINE r == RouteOf(load)
           nodes == load.nodes
<1>1. /\ last \in Nat /\ last >= 4 /\ Chain(r) /\ Len(r) = last
      /\ \A i \in 1 .. last : /\ r[i].type = nodes[i].type /\ r[i].loc = nodes[i].loc
                              /\ r[i].acts = nodes[i].acts
  BY WholePlaces
<1>2. /\ 1 \in 1 .. last /\ 2 \in 1 .. last /\ last \in 1 .. last
      /\ \A i \in 2 .. last - 1 : i \in 1 .. last /\ (i = 2 \/ i \in drops)
      /\ \A i \in drops : i \in 1 .. last
  BY <1>1, Places
<1> HIDE DEF r
<1>3. DropPlaces(r) = drops /\ \A i \in 1 .. last : r[i].acts \in Seq(Orders)
  BY <1>1, ChainPlaces
<1>4. /\ \A o \in Range(r[2].acts) : r[2].loc = PickLoc[o] /\ \E i \in drops : o \in Range(r[i].acts)
      /\ \A i \in drops :
           /\ r[i].type = "DROP" /\ r[i].acts # <<>> /\ NoRepeat(r[i].acts)
           /\ \A o \in Range(r[i].acts) : o \in Range(r[2].acts) /\ r[i].loc = DropLoc[o]
      /\ \A i, j \in drops :
           (\E o \in Orders : o \in Range(r[i].acts) /\ o \in Range(r[j].acts)) => i = j
      /\ NoRepeat(r[2].acts)
  BY <1>1, <1>3 DEF Chain, Paired, Delivers
<1>5. r[1].type = "START" /\ r[2].type = "PICK" /\ r[last].type = "END"
  BY <1>1 DEF Chain, Framed
<1> HIDE DEF nodes
<1>6. \A i \in 2 .. last - 1 : NoRepeat(r[i].acts) /\ r[i].acts \in Seq(Orders)
  BY <1>2, <1>3, <1>4
<1>7. \A i \in 2 .. last - 1 : Cardinality(Range(nodes[i].acts)) = Len(nodes[i].acts)
  BY <1>1, <1>2, <1>6, NoRepeatCount
<1>8. \A i \in drops : Range(r[i].acts) \subseteq Orders
  <2>1. \A a \in Seq(Orders) : Range(a) \subseteq Orders
    BY DEF Range
  <2> QED
    BY <1>2, <1>3, <2>1
<1>9. \A i, j \in drops : i # j => Range(nodes[i].acts) \cap Range(nodes[j].acts) = {}
  <2> SUFFICES ASSUME NEW i \in drops, NEW j \in drops,
                      NEW o, o \in Range(nodes[i].acts), o \in Range(nodes[j].acts)
               PROVE  i = j
    OBVIOUS
  <2>1. o \in Range(r[i].acts) /\ o \in Range(r[j].acts)
    BY <1>1, <1>2
  <2> QED
    BY <1>4, <1>8, <2>1
<1>10. Picked(load) = Range(r[2].acts)
  BY <1>1, <1>2 DEF Picked, nodes
<1>11. Picked(load) = UNION {Range(nodes[i].acts) : i \in drops}
  <2>1. \A o \in Picked(load) : \E i \in drops : o \in Range(nodes[i].acts)
    BY <1>1, <1>2, <1>4, <1>10
  <2>2. \A i \in drops : \A o \in Range(nodes[i].acts) : o \in Picked(load)
    BY <1>1, <1>2, <1>4, <1>10
  <2> QED
    BY <2>1, <2>2
<1>12. \A i \in drops : /\ nodes[i].type = "DROP" /\ nodes[i].acts # <<>>
                       /\ \A o \in Range(nodes[i].acts) : nodes[i].loc = DropLoc[o]
  <2> SUFFICES ASSUME NEW i \in drops
               PROVE  /\ nodes[i].type = "DROP" /\ nodes[i].acts # <<>>
                      /\ \A o \in Range(nodes[i].acts) : nodes[i].loc = DropLoc[o]
    OBVIOUS
  <2>1. r[i].type = nodes[i].type /\ r[i].loc = nodes[i].loc /\ r[i].acts = nodes[i].acts
    BY <1>1, <1>2
  <2> QED
    BY <1>4, <2>1
<1>13. \A o \in Picked(load) : nodes[2].loc = PickLoc[o]
  BY <1>1, <1>2, <1>4, <1>10
<1>14. nodes[1].type = "START" /\ nodes[2].type = "PICK" /\ nodes[last].type = "END"
  BY <1>1, <1>2, <1>5
<1>15. last >= 4
  BY <1>1
<1> QED
  BY <1>7, <1>9, <1>11, <1>12, <1>13, <1>14, <1>15 DEF PairedNodes, nodes

\* Insertions, joins, roll backs and removals leave every order of a route picked up
\* once and delivered once, where it has to be.
THEOREM RoutesPaired == LoadSpec => []RoutePaired
<1>1. LoadInv => RoutePaired
  <2> SUFFICES ASSUME LoadInv, NEW load \in Live
               PROVE  PairedNodes(load, load.nodes, Len(load.nodes), 3 .. Len(load.nodes) - 1)
    BY DEF RoutePaired, PairedNodes
  <2> QED
    BY LivingLoads, WholeIsPaired
<1> QED
  BY <1>1, LoadsWhole, PTL

\* The copy on which the slots are tried one after the other has the route and the
\* vehicle of the load before each of them.
THEOREM TrialsStartAlike == LoadSpec => []RollBackRestores
<1>1. LoadInv => RollBackRestores
  BY DEF LoadInv, RollBackRestores, AtTrial
<1> QED
  BY <1>1, LoadsWhole, PTL

\* The best slot and vehicle, done again, give the route that was the best.
THEOREM BestDoneAgain == LoadSpec => []BestReproduced
<1>1. LoadInv => BestReproduced
  BY DEF LoadInv, BestReproduced, AtFinal
<1> QED
  BY <1>1, LoadsWhole, PTL

\* What a load is judged by is its own: the counts it remembers, its depots and its legs.
THEOREM JudgedTruly == LoadSpec => []JudgedAsItIs
<1>1. LoadInv => ProfileCurrent
  <2> SUFFICES ASSUME LoadInv, NEW load \in Live \ (IF phase = "trial" THEN {work} ELSE {})
               PROVE  Current(load)
    BY DEF ProfileCurrent, Current
  <2> QED
    BY LivingLoads
<1>2. ASSUME NEW load, Evaluated(load)
      PROVE  /\ load.nodes[1].loc = OrigLoc[load.veh]
             /\ Last(load.nodes).loc = DestLoc[load.veh]
             /\ LegsOf(load)
  BY <1>2 DEF Evaluated, Housed, Last
<1>3. LoadInv => LegsCurrent
  <2> SUFFICES ASSUME LoadInv,
                      NEW load \in {base} \cup (IF phase \in {"judge", "final", "select"}
                                                THEN {work} ELSE {}),
                      load # NoLoad
               PROVE  Evaluated(load)
    BY <1>2 DEF LegsCurrent, LegsOf
  <2>1. CASE load = base
    BY <2>1 DEF LoadInv
  <2>2. CASE load = work /\ phase \in {"judge", "final", "select"}
    BY <2>2 DEF LoadInv, AtJudge, AtFinal
  <2> QED
    BY <2>1, <2>2
<1> QED
  BY <1>1, <1>3, LoadsWhole, PTL DEF JudgedAsItIs

(***************************************************************************)
(* Empty cells                                                             *)
(***************************************************************************)

Meets(nodes, v) ==
  /\ Profile(nodes).peak <= Capacity[v] /\ Profile(nodes).stops \subseteq Serves[v]
  /\ Profile(nodes).drops <= MaxDropNodeCount
  /\ TotalDist(nodes) <= Horizon /\ TotalDist(nodes) < TierUpper[v]

\* Without remembered fields, a verdict is of the chain.
LEMMA FreshVerdict ==
  ASSUME InstanceAssumption, NEW load, Whole(load), Housed(load), load.cache = <<>>,
         NEW done, done = EvalLoad(load), Meets(done.nodes, load.veh)
  PROVE  done.feasible
<1> DEFINE renewed == UpdateNodeDistTime(load)
           hard == WithRead(renewed, {"drops", "peak", "stops"})
           read == WithRead(hard, {"dist"})
           fresh == {"drops", "peak", "stops"}
<1>1. /\ Whole(renewed) /\ Housed(renewed) /\ LegsOf(renewed)
      /\ renewed.veh = load.veh /\ renewed.cache = load.cache
  BY Relegged
<1>2. Whole(hard) /\ IsLoad(renewed)
  BY <1>1, ReadLoad DEF Whole
<1>3. done = EvalCost(hard)
  BY DEF EvalLoad, EvalHard
<1> HIDE DEF renewed
<1>4. /\ hard.nodes = renewed.nodes /\ hard.veh = load.veh
      /\ hard.cache = [f \in DOMAIN renewed.cache \cup fresh |-> Read(renewed, f)]
  BY <1>1, <1>2 DEF WithRead, IsLoad
<1>5. /\ DOMAIN hard.cache = fresh
      /\ \A f \in fresh : hard.cache[f] = Profile(renewed.nodes)[f]
  <2>1. DOMAIN renewed.cache = {}
    BY <1>1
  <2> QED
    BY <1>4, <2>1 DEF Read
<1>6. IsLoad(hard)
  BY <1>2 DEF Whole
<1> HIDE DEF hard
<1>7. /\ read.nodes = hard.nodes /\ DOMAIN read = DOMAIN hard
      /\ read.cache = [f \in DOMAIN hard.cache \cup {"dist"} |-> Read(hard, f)]
  BY <1>6 DEF WithRead, IsLoad
<1>8. read.cache.dist = TotalDist(hard.nodes)
  <2>1. read.cache["dist"] = Profile(hard.nodes)["dist"]
    BY <1>5, <1>7 DEF Read
  <2> QED
    BY <2>1 DEF Profile
<1>9. done = [read EXCEPT !.feasible = HardFeasible(hard) /\ read.cache.dist < TierUpper[hard.veh],
                          !.obj = Rate[hard.veh] * read.cache.dist]
  BY <1>3 DEF EvalCost
<1>10. {"feasible", "obj", "nodes"} \subseteq DOMAIN read
  BY <1>6, <1>7 DEF IsLoad
<1> HIDE DEF read
<1>11. /\ done.feasible = (HardFeasible(hard) /\ read.cache.dist < TierUpper[hard.veh])
       /\ done.nodes = read.nodes
  BY <1>9, <1>10
<1>12. done.nodes = renewed.nodes /\ hard.nodes = renewed.nodes
  BY <1>4, <1>7, <1>11
<1>13. HardFeasible(hard)
  BY <1>4, <1>5, <1>12 DEF HardFeasible, Meets
<1>14. read.cache.dist < TierUpper[hard.veh]
  BY <1>4, <1>8, <1>12 DEF Meets
<1> QED
  BY <1>11, <1>13, <1>14

\* The places of a path through d.
LEMMA PathPlaces ==
  ASSUME NEW S, NEW a \in S, NEW b \in S, NEW c \in S, NEW d \in Seq(S), NEW path,
         path = <<a, b>> \o d \o <<c>>
  PROVE  /\ Len(path) = Len(d) + 3
         /\ path[1] = a /\ path[2] = b /\ path[Len(d) + 3] = c
         /\ \A k \in 1 .. Len(d) : path[k + 2] = d[k]
<1> DEFINE front == <<a, b>>
           most == front \o d
<1>1. Len(d) \in Nat /\ front \in Seq(S) /\ Len(front) = 2 /\ front[1] = a /\ front[2] = b
  OBVIOUS
<1>2. path = most \o <<c>>
  OBVIOUS
<1> HIDE DEF front
<1>3. /\ most \in Seq(S) /\ Len(most) = Len(front) + Len(d)
      /\ \A k \in 1 .. Len(front) : most[k] = front[k]
      /\ \A k \in 1 .. Len(d) : most[Len(front) + k] = d[k]
  <2>1. front \in Seq(S) /\ d \in Seq(S) /\ most = front \o d
    BY <1>1
  <2> HIDE DEF most
  <2>2. most \in Seq(S) /\ Len(most) = Len(front) + Len(d)
    BY <2>1, ConcatProperties
  <2>3. \A k \in 1 .. Len(front) : most[k] = front[k]
    BY <2>1
  <2>4. \A k \in 1 .. Len(d) : most[Len(front) + k] = d[k]
    BY <2>1
  <2> QED
    BY <2>2, <2>3, <2>4
<1> HIDE DEF most
<1>4. \A k \in 1 .. 2 : most[k] = front[k]
  BY <1>1, <1>3
<1>5. \A k \in 1 .. Len(d) : most[2 + k] = d[k]
  BY <1>1, <1>3
<1> DEFINE end == <<c>>
<1>6. end \in Seq(S) /\ Len(end) = 1 /\ end[1] = c
  OBVIOUS
<1> HIDE DEF end
<1>7. /\ Len(path) = Len(most) + Len(end)
      /\ \A k \in 1 .. Len(most) : path[k] = most[k]
      /\ \A k \in 1 .. Len(end) : path[Len(most) + k] = end[k]
  <2>1. most \in Seq(S) /\ end \in Seq(S) /\ path = most \o end
    BY <1>2, <1>3, <1>6 DEF end
  <2>2. Len(path) = Len(most) + Len(end)
    BY <2>1, ConcatProperties
  <2>3. \A k \in 1 .. Len(most) : path[k] = most[k]
    BY <2>1
  <2>4. \A k \in 1 .. Len(end) : path[Len(most) + k] = end[k]
    BY <2>1
  <2> QED
    BY <2>2, <2>3, <2>4
<1>8. path[Len(most) + 1] = c
  BY <1>6, <1>7
<1>9. \A k \in 1 .. Len(most) : path[k] = most[k]
  BY <1>7
<1>10. path[1] = a /\ path[2] = b
  BY <1>1, <1>3, <1>4, <1>9
<1>11. \A k \in 1 .. Len(d) : path[k + 2] = d[k]
  BY <1>1, <1>3, <1>5, <1>9
<1> QED
  BY <1>1, <1>3, <1>6, <1>7, <1>8, <1>10, <1>11

JoinsStop(stops, o, i) == \E j \in {i - 1, i} \cap DOMAIN stops : stops[j] = DropLoc[o]

\* The locations of a route's deliveries.
StopsOf(r) == [k \in 1 .. Len(r) - 3 |-> r[k + 2].loc]

\* Those after an order has been delivered as i-th stop.
MoreStops(stops, o, i) ==
  IF JoinsStop(stops, o, i) THEN stops ELSE InsertAt(stops, i, DropLoc[o])

VisitsAll(g, d) ==
  d \in Seq(Locations) /\ Len(g) = Len(d) + 3 /\ \A k \in 1 .. Len(d) : g[k + 2].loc = d[k]

LEMMA StopsPlaces ==
  ASSUME NEW r, Chain(r)
  PROVE  /\ StopsOf(r) \in Seq(Locations) /\ Len(StopsOf(r)) = Len(r) - 3
         /\ DOMAIN StopsOf(r) = 1 .. Len(r) - 3
         /\ \A k \in 1 .. Len(r) - 3 : StopsOf(r)[k] = r[k + 2].loc
<1> DEFINE L == Len(r)
           s == StopsOf(r)
<1>1. L \in Nat /\ L >= 4 /\ \A i \in 1 .. L : r[i].loc \in Locations
  BY ChainPlaces
<1>2. s = [k \in 1 .. L - 3 |-> r[k + 2].loc]
  BY DEF StopsOf
<1> HIDE DEF L, s
<1>3. \A k \in 1 .. L - 3 : k + 2 \in 1 .. L
  BY <1>1
<1>4. PICK n \in Nat : n = L - 3
  BY <1>1
<1>5. \A k \in 1 .. n : s[k] = r[k + 2].loc /\ s[k] \in Locations
  BY <1>1, <1>2, <1>3, <1>4
<1>6. s \in [1 .. n -> Locations]
  BY <1>2, <1>4, <1>5
<1>7. s \in Seq(Locations) /\ Len(s) = n /\ DOMAIN s = 1 .. n
  BY <1>6
<1> QED
  BY <1>4, <1>5, <1>7 DEF L, s

\* An order joins the delivery at a place just when the node there is one at its location.
LEMMA JoiningStop ==
  ASSUME NEW r, Chain(r), NEW o \in Orders, NEW p \in 3 .. Len(r)
  PROVE  JoinsStop(StopsOf(r), o, p - 2) <=> JoinsAt(r, o, p - 1) \/ JoinsAt(r, o, p)
<1> DEFINE L == Len(r)
           stops == StopsOf(r)
<1>1. /\ L \in Nat /\ L >= 4 /\ DropPlaces(r) = 3 .. L - 1
      /\ r[2].type = "PICK" /\ r[L].type = "END"
      /\ \A q \in 3 .. L - 1 : r[q].type = "DROP"
  BY ChainPlaces, ChainCarries
<1>2. p \in 3 .. L /\ p \in Int
  OBVIOUS
<1>3. DOMAIN stops = 1 .. L - 3 /\ \A k \in 1 .. L - 3 : stops[k] = r[k + 2].loc
  BY StopsPlaces
<1> HIDE DEF L, stops
<1>4. ASSUME NEW j \in {p - 3, p - 2} \cap DOMAIN stops, stops[j] = DropLoc[o]
      PROVE  JoinsAt(r, o, p - 1) \/ JoinsAt(r, o, p)
  <2>1. j \in 1 .. L - 3
    BY <1>3
  <2>2. j + 2 \in 3 .. L - 1 /\ (j + 2 = p - 1 \/ j + 2 = p)
    BY <1>1, <1>2, <2>1
  <2>3. r[j + 2].type = "DROP" /\ r[j + 2].loc = DropLoc[o]
    BY <1>1, <1>3, <1>4, <2>1, <2>2
  <2>4. JoinsAt(r, o, j + 2)
    BY <2>3 DEF JoinsAt
  <2> QED
    BY <2>2, <2>4
<1>5. ASSUME NEW q \in {p - 1, p}, JoinsAt(r, o, q)
      PROVE  \E j \in {p - 3, p - 2} \cap DOMAIN stops : stops[j] = DropLoc[o]
  <2>1. r[q].type = "DROP" /\ r[q].loc = DropLoc[o]
    BY <1>5 DEF JoinsAt
  <2>2. q # 2 /\ q # L
    BY <1>1, <2>1
  <2>3. PICK j \in 1 .. L - 3 : j + 2 = q /\ j \in {p - 3, p - 2}
    <3>1. q - 2 \in 1 .. L - 3 /\ q - 2 + 2 = q /\ q - 2 \in {p - 3, p - 2}
      BY <1>1, <1>2, <2>2
    <3> QED
      BY <3>1
  <2>4. stops[j] = DropLoc[o]
    BY <1>3, <2>1, <2>3
  <2> QED
    BY <1>3, <2>3, <2>4
<1>6. p - 2 - 1 = p - 3
  BY <1>2
<1>7. CASE JoinsStop(stops, o, p - 2)
  BY <1>4, <1>6, <1>7 DEF JoinsStop, stops
<1>8. CASE JoinsAt(r, o, p - 1) \/ JoinsAt(r, o, p)
  BY <1>5, <1>6, <1>8 DEF JoinsStop, stops
<1> QED
  BY <1>7, <1>8 DEF stops

LEMMA JoinedStops ==
  ASSUME NEW r, Chain(r), NEW o \in Orders, NEW q \in DropPlaces(r)
  PROVE  VisitsAll(Joined(r, o, q), StopsOf(r))
<1> DEFINE L == Len(r)
           g == Joined(r, o, q)
           stops == StopsOf(r)
<1>1. /\ L \in Nat /\ L >= 4 /\ DropPlaces(r) = 3 .. L - 1 /\ \A i \in 1 .. L : r[i] \in BareNodes
  BY ChainPlaces
<1>2. /\ Len(g) = L /\ g[q] = With(r[q], o)
      /\ \A i \in 1 .. L : i \notin {2, q} => g[i] = r[i]
  BY JoinedPlaces
<1>3. /\ stops \in Seq(Locations) /\ Len(stops) = L - 3
      /\ \A k \in 1 .. L - 3 : stops[k] = r[k + 2].loc
  BY StopsPlaces
<1>4. q \in 3 .. L - 1
  BY <1>1
<1> HIDE DEF L, g, stops
<1>5. g[q].loc = r[q].loc
  <2>1. q \in 1 .. L
    BY <1>1, <1>4
  <2> QED
    BY <1>1, <1>2, <2>1, WithGrows
<1>6. ASSUME NEW k \in 1 .. L - 3 PROVE g[k + 2].loc = stops[k]
  <2>1. k + 2 \in 1 .. L /\ k + 2 # 2
    BY <1>1
  <2>2. g[k + 2].loc = r[k + 2].loc
    BY <1>2, <1>5, <2>1
  <2> QED
    BY <1>3, <2>2
<1>7. L = L - 3 + 3
  BY <1>1
<1> QED
  BY <1>2, <1>3, <1>6, <1>7 DEF VisitsAll, g, stops

LEMMA InsertedStop ==
  ASSUME NEW s \in Seq(Locations), NEW e \in Locations, NEW i \in 1 .. Len(s) + 1
  PROVE  LET t == InsertAt(s, i, e)
         IN /\ t \in Seq(Locations) /\ Len(t) = Len(s) + 1 /\ t[i] = e
            /\ \A k \in 1 .. Len(s) : t[After(i, k)] = s[k]
BY InsertAtPlaces

LEMMA PartedStops ==
  ASSUME InstanceAssumption, NEW r, Chain(r), NEW o \in Orders, NEW p \in 3 .. Len(r)
  PROVE  VisitsAll(Parted(r, o, p), InsertAt(StopsOf(r), p - 2, DropLoc[o]))
<1> DEFINE L == Len(r)
           g == Parted(r, o, p)
           stops == StopsOf(r)
           i == p - 2
           x == DropLoc[o]
           d == InsertAt(stops, i, x)
<1>1. L \in Nat /\ L >= 4 /\ x \in Locations
  BY ChainPlaces DEF InstanceAssumption
<1>2. /\ stops \in Seq(Locations) /\ Len(stops) = L - 3
      /\ \A k \in 1 .. L - 3 : stops[k] = r[k + 2].loc
  BY StopsPlaces
<1>3. /\ Len(g) = L + 1 /\ g[p] = Stop(o)
      /\ \A k \in 3 .. L : g[After(p, k)] = r[k]
  BY PartedPlaces
<1>4. p \in 3 .. L
  OBVIOUS
<1> HIDE DEF L, g, stops, x
<1>5. i \in 1 .. L - 2 /\ p \in Int /\ i \in Int /\ i = p - 2
      /\ L - 3 + 1 = L - 2 /\ L + 1 = L - 2 + 3
  BY <1>1, <1>4
<1> HIDE DEF i
<1>6. i \in 1 .. Len(stops) + 1
  BY <1>2, <1>5
<1>7. /\ d \in Seq(Locations) /\ Len(d) = Len(stops) + 1 /\ d[i] = x
      /\ \A k \in 1 .. Len(stops) : d[After(i, k)] = stops[k]
  BY <1>1, <1>2, <1>6, InsertedStop
<1> HIDE DEF d
<1>8. Len(d) = L - 2 /\ Len(g) = Len(d) + 3
  BY <1>2, <1>3, <1>5, <1>7
<1>9. ASSUME NEW k \in 1 .. L - 2 PROVE g[k + 2].loc = d[k]
  <2>1. CASE k = i
    <3>1. k + 2 = p
      BY <1>5, <2>1
    <3>2. g[p].loc = x
      BY <1>3 DEF Stop, x
    <3> QED
      BY <1>7, <2>1, <3>1, <3>2
  <2>2. CASE k < i
    <3>1. k \in 1 .. L - 3 /\ k + 2 \in 3 .. L /\ k + 2 < p
      BY <1>1, <1>5, <2>2
    <3>2. After(p, k + 2) = k + 2 /\ After(i, k) = k
      BY <2>2, <3>1 DEF After
    <3>3. g[k + 2] = r[k + 2]
      BY <1>3, <3>1, <3>2
    <3>4. d[k] = stops[k]
      BY <1>2, <1>7, <3>1, <3>2
    <3> QED
      BY <1>2, <3>1, <3>3, <3>4
  <2>3. CASE k > i
    <3>1. PICK j \in 1 .. L - 3 : j + 1 = k /\ ~ (j < i) /\ j + 2 \in 3 .. L /\ ~ (j + 2 < p)
                                  /\ j + 2 + 1 = k + 2
      <4>1. k - 1 \in 1 .. L - 3
        BY <1>1, <1>5, <2>3
      <4>2. /\ k - 1 + 1 = k /\ ~ (k - 1 < i) /\ k - 1 + 2 \in 3 .. L
            /\ ~ (k - 1 + 2 < p) /\ k - 1 + 2 + 1 = k + 2
        BY <1>1, <1>5, <2>3
      <4> QED
        BY <4>1, <4>2
    <3>2. After(p, j + 2) = k + 2 /\ After(i, j) = k
      BY <3>1 DEF After
    <3>3. g[k + 2] = r[j + 2]
      BY <1>3, <3>1, <3>2
    <3>4. d[k] = stops[j]
      BY <1>2, <1>7, <3>1, <3>2
    <3> QED
      BY <1>2, <3>1, <3>3, <3>4
  <2>4. k < i \/ k = i \/ k > i
    BY <1>5
  <2> QED
    BY <2>1, <2>2, <2>3, <2>4
<1> QED
  BY <1>7, <1>8, <1>9 DEF VisitsAll, g, d, i, x, stops

\* The stops of the route with the order at place p.
LEMMA PutStops ==
  ASSUME InstanceAssumption, NEW r, Chain(r), NEW o \in Orders, NEW p \in 3 .. Len(r)
  PROVE  /\ VisitsAll(PutAt(r, o, p), MoreStops(StopsOf(r), o, p - 2))
         /\ PutAt(r, o, p)[2] = With(r[2], o)
<1>1. /\ Len(r) \in Nat /\ Len(r) >= 4 /\ DropPlaces(r) = 3 .. Len(r) - 1
      /\ r[2].type = "PICK" /\ r[Len(r)].type = "END"
  BY ChainPlaces, ChainCarries
<1>2. JoinsStop(StopsOf(r), o, p - 2) <=> JoinsAt(r, o, p - 1) \/ JoinsAt(r, o, p)
  BY JoiningStop
<1>3. ASSUME NEW q \in {p - 1, p}, JoinsAt(r, o, q)
      PROVE  VisitsAll(Joined(r, o, q), StopsOf(r)) /\ Joined(r, o, q)[2] = With(r[2], o)
  <2>1. q \in DropPlaces(r)
    <3>1. q # 2 /\ q # Len(r)
      BY <1>1, <1>3 DEF JoinsAt
    <3> QED
      BY <1>1, <3>1
  <2> QED
    BY <2>1, JoinedStops, JoinedPlaces
<1>4. /\ VisitsAll(Parted(r, o, p), InsertAt(StopsOf(r), p - 2, DropLoc[o]))
      /\ Parted(r, o, p)[2] = With(r[2], o)
  BY PartedStops, PartedPlaces
<1>5. CASE JoinsAt(r, o, p - 1)
  BY <1>2, <1>3, <1>5 DEF PutAt, MoreStops
<1>6. CASE ~ JoinsAt(r, o, p - 1) /\ JoinsAt(r, o, p)
  BY <1>2, <1>3, <1>6 DEF PutAt, MoreStops
<1>7. CASE ~ JoinsAt(r, o, p - 1) /\ ~ JoinsAt(r, o, p)
  BY <1>2, <1>4, <1>7 DEF PutAt, MoreStops
<1> QED
  BY <1>5, <1>6, <1>7

\* A load's distance is the length of the path through its stops.
LEMMA TripLength ==
  ASSUME InstanceAssumption, NEW load, Whole(load), Housed(load), LegsOf(load),
         NEW d, VisitsAll(load.nodes, d), NEW x \in Locations, load.nodes[2].loc = x
  PROVE  TotalDist(load.nodes)
         = RouteLength(load.veh, <<OrigLoc[load.veh], x>> \o d \o <<DestLoc[load.veh]>>)
<1> DEFINE v == load.veh
           a == OrigLoc[v]
           c == DestLoc[v]
           path == <<a, x>> \o d \o <<c>>
           nodes == load.nodes
           N == Len(nodes)
<1>1. /\ v \in VehicleTypes /\ nodes[1].loc = a /\ nodes[N].loc = c /\ nodes[2].loc = x
      /\ N \in Nat
  BY WholePlaces DEF Housed
<1>2. a \in Locations /\ c \in Locations
  BY <1>1, VehicleData
<1>3. d \in Seq(Locations) /\ N = Len(d) + 3 /\ \A k \in 1 .. Len(d) : nodes[k + 2].loc = d[k]
  BY DEF VisitsAll
<1>4. \A i \in 2 .. N : nodes[i].dist = Dist[Matrix[v]][nodes[i - 1].loc][nodes[i].loc]
  BY DEF LegsOf
<1> HIDE DEF a, c, v, nodes, N
<1>5. /\ Len(path) = Len(d) + 3 /\ path[1] = a /\ path[2] = x /\ path[Len(d) + 3] = c
      /\ \A k \in 1 .. Len(d) : path[k + 2] = d[k]
  BY <1>2, <1>3, PathPlaces
<1> HIDE DEF path
<1>6. ASSUME NEW k \in 1 .. N PROVE path[k] = nodes[k].loc
  <2>1. k = 1 \/ k = 2 \/ k = N \/ k \in 3 .. N - 1
    <3>1. N \in Nat
      BY <1>1
    <3> QED
      BY ONLY <3>1, k \in 1 .. N
  <2>2. CASE k \in 3 .. N - 1
    <3>1. PICK j \in 1 .. Len(d) : j + 2 = k
      <4>1. Len(d) \in Nat
        BY <1>3
      <4>2. k - 2 \in 1 .. Len(d) /\ k - 2 + 2 = k
        BY <1>1, <1>3, <2>2, <4>1
      <4> QED
        BY <4>2
    <3>2. path[j + 2] = nodes[j + 2].loc
      BY <1>3, <1>5
    <3> QED
      BY <3>1, <3>2
  <2> QED
    BY <1>1, <1>3, <1>5, <2>1, <2>2
<1>7. Len(path) = N
  BY <1>3, <1>5
<1>8. ASSUME NEW i \in 2 .. N
      PROVE  nodes[i].dist = Dist[Matrix[v]][path[i - 1]][path[i]]
  <2>1. i \in 1 .. N /\ i - 1 \in 1 .. N
    BY <1>1
  <2> QED
    BY <1>4, <1>6, <2>1
<1>9. [i \in 2 .. N |-> nodes[i].dist]
      = [i \in 2 .. N |-> Dist[Matrix[v]][path[i - 1]][path[i]]]
  BY <1>8
<1>10. TotalDist(nodes) = SumFunction([i \in 2 .. N |-> nodes[i].dist])
  BY DEF TotalDist, N
<1>11. RouteLength(v, path) = SumFunction([i \in 2 .. N |-> Dist[Matrix[v]][path[i - 1]][path[i]]])
  BY <1>7 DEF RouteLength
<1>12. TotalDist(nodes) = RouteLength(v, path)
  BY <1>9, <1>10, <1>11
<1> QED
  BY <1>12 DEF path, a, c, v, nodes

\* What the reference says of a stop, with the stops of the route.
LEMMA FitsUnfolded ==
  ASSUME NEW load, Whole(load), NEW o, NEW i, FitsAsStop(load, o, i),
         NEW d, d = MoreStops(StopsOf(RouteOf(load)), o, i)
  PROVE  /\ Cardinality(Picked(load)) + 1 <= Capacity[load.veh]
         /\ Range(d) \cup {PickLoc[o]} \subseteq Serves[load.veh]
         /\ Len(d) <= MaxDropNodeCount
         /\ RouteLength(load.veh, <<OrigLoc[load.veh], PickLoc[o]>> \o d \o <<DestLoc[load.veh]>>)
              <= Horizon
         /\ RouteLength(load.veh, <<OrigLoc[load.veh], PickLoc[o]>> \o d \o <<DestLoc[load.veh]>>)
              < TierUpper[load.veh]
<1> DEFINE stops == DropLocs(load)
<1>1. stops = StopsOf(RouteOf(load))
  <2>1. /\ Len(load.nodes) \in Nat /\ Len(RouteOf(load)) = Len(load.nodes)
        /\ \A k \in 1 .. Len(load.nodes) : RouteOf(load)[k].loc = load.nodes[k].loc
    BY WholePlaces
  <2>2. \A k \in 1 .. Len(load.nodes) - 3 : k + 2 \in 1 .. Len(load.nodes)
    BY <2>1
  <2>3. \A k \in 1 .. Len(load.nodes) - 3 : RouteOf(load)[k + 2].loc = load.nodes[k + 2].loc
    BY <2>1, <2>2
  <2> QED
    BY <2>1, <2>3 DEF DropLocs, StopsOf
<1>2. d = MoreStops(stops, o, i)
  BY <1>1
<1> HIDE DEF stops
<1>3. d = (IF \E j \in {i - 1, i} \cap DOMAIN stops : stops[j] = DropLoc[o]
           THEN stops ELSE InsertAt(stops, i, DropLoc[o]))
  BY <1>2 DEF MoreStops, JoinsStop
<1> QED
  BY <1>3 DEF FitsAsStop, stops

\* A load with one more order meets every limit if the order fits as that stop.
LEMMA MoreMeets ==
  ASSUME InstanceAssumption, NEW load, Evaluated(load), NEW o \in Orders,
         o \notin Picked(load), SharesPick(load, o),
         NEW p \in 3 .. Len(load.nodes), FitsAsStop(load, o, p - 2),
         NEW more, Whole(more), Housed(more), LegsOf(more), more.veh = load.veh,
         RouteOf(more) = Moved(PutAt(RouteOf(load), o, p), load.veh)
  PROVE  Meets(more.nodes, load.veh)
<1> DEFINE r == RouteOf(load)
           g == PutAt(r, o, p)
           v == load.veh
           d == MoreStops(StopsOf(r), o, p - 2)
           nodes == more.nodes
           N == Len(nodes)
<1>1. /\ Whole(load) /\ Chain(r) /\ Len(r) = Len(load.nodes) /\ 2 \in 1 .. Len(r)
      /\ r[2].type = load.nodes[2].type /\ r[2].loc = load.nodes[2].loc
      /\ r[2].acts = load.nodes[2].acts /\ r[2] \in BareNodes /\ r[2].acts \in Seq(Orders)
  <2>1. Whole(load)
    BY DEF Evaluated
  <2>2. /\ Chain(r) /\ Len(r) = Len(load.nodes) /\ 2 \in 1 .. Len(r)
    BY <2>1, WholePlaces
  <2>3. /\ r[2].type = load.nodes[2].type /\ r[2].loc = load.nodes[2].loc
        /\ r[2].acts = load.nodes[2].acts
    BY <2>1, <2>2, WholePlaces
  <2>4. r[2] \in BareNodes /\ r[2].acts \in Seq(Orders)
    BY <2>2, ChainPlaces
  <2> QED
    BY <2>1, <2>2, <2>3, <2>4
<1>2. r[2].type = "PICK" /\ NoRepeat(r[2].acts)
  BY <1>1, ChainCarries DEF Chain, Paired
<1>3. o \notin Range(r[2].acts) /\ r[2].loc = PickLoc[o]
  BY <1>1, <1>2 DEF Picked, SharesPick
<1>4. p \in 3 .. Len(r)
  BY <1>1
<1>5. Chain(g)
  BY <1>1, <1>3, <1>4, PutChains
<1>6. VisitsAll(g, d) /\ g[2] = With(r[2], o)
  BY <1>1, <1>4, PutStops
<1>7. /\ Cardinality(Picked(load)) + 1 <= Capacity[v]
      /\ Range(d) \cup {PickLoc[o]} \subseteq Serves[v] /\ Len(d) <= MaxDropNodeCount
      /\ RouteLength(v, <<OrigLoc[v], PickLoc[o]>> \o d \o <<DestLoc[v]>>) <= Horizon
      /\ RouteLength(v, <<OrigLoc[v], PickLoc[o]>> \o d \o <<DestLoc[v]>>) < TierUpper[v]
  BY <1>1, FitsUnfolded
<1>8. RouteOf(more) = Moved(g, v)
  OBVIOUS
<1> HIDE DEF g, d, v, r
<1>9. /\ N \in Nat /\ N >= 4 /\ N = Len(g)
      /\ \A i \in 2 .. N - 1 : nodes[i].loc = g[i].loc /\ nodes[i].acts = g[i].acts
                               /\ nodes[i].type = g[i].type
  <2>1. /\ N \in Nat /\ N >= 4 /\ Len(RouteOf(more)) = N
        /\ \A i \in 1 .. N : /\ RouteOf(more)[i].type = nodes[i].type
                             /\ RouteOf(more)[i].loc = nodes[i].loc
                             /\ RouteOf(more)[i].acts = nodes[i].acts
    BY WholePlaces
  <2>2. v \in VehicleTypes
    BY DEF Housed, v
  <2>3. Len(Moved(g, v)) = Len(g)
    BY <1>5, <2>2, MovedChain
  <2>4. \A i \in 2 .. Len(g) - 1 : Moved(g, v)[i] = g[i]
    BY <1>5, MovedPlaces
  <2>5. N = Len(g)
    BY <1>8, <2>1, <2>3
  <2>6. \A i \in 2 .. N - 1 : i \in 1 .. N
    BY <2>1
  <2> QED
    BY <1>8, <2>1, <2>4, <2>5, <2>6
<1>10. d \in Seq(Locations) /\ N = Len(d) + 3 /\ \A k \in 1 .. Len(d) : g[k + 2].loc = d[k]
  BY <1>6, <1>9 DEF VisitsAll
<1>11. Len(d) \in Nat
  BY <1>10
<1>12. 2 \in 2 .. N - 1
  BY <1>9
<1>13. /\ nodes[2].type = "PICK" /\ nodes[2].loc = PickLoc[o] /\ nodes[2].acts = Append(r[2].acts, o)
  <2>1. /\ g[2].type = r[2].type /\ g[2].loc = r[2].loc /\ g[2].acts = Append(r[2].acts, o)
    <3>1. r[2] \in BareNodes /\ g[2] = With(r[2], o)
      BY <1>1, <1>6
    <3>2. \A node : /\ With(node, o).type = node.type /\ With(node, o).loc = node.loc
                    /\ With(node, o).acts = Append(node.acts, o)
      BY DEF With
    <3> QED
      BY <3>1, <3>2
  <2> QED
    BY <1>2, <1>3, <1>9, <1>12, <2>1
<1> HIDE DEF N
<1>14. ASSUME NEW k \in 1 .. Len(d) PROVE nodes[k + 2].loc = d[k]
  <2>1. k + 2 \in 2 .. N - 1
    BY <1>10, <1>11
  <2> QED
    BY <1>9, <1>10, <2>1
<1>15. Profile(nodes).peak <= Capacity[v]
  <2>1. Profile(nodes).peak = Len(Append(r[2].acts, o))
    BY <1>13 DEF Profile
  <2>2. Len(Append(r[2].acts, o)) = Len(r[2].acts) + 1
    BY <1>1
  <2>3. Cardinality(Range(r[2].acts)) = Len(r[2].acts)
    BY <1>1, <1>2, NoRepeatCount
  <2>4. Picked(load) = Range(r[2].acts)
    BY <1>1 DEF Picked
  <2> QED
    BY <1>7, <2>1, <2>2, <2>3, <2>4
<1>16. Profile(nodes).stops \subseteq Serves[v]
  <2>1. Profile(nodes).stops = {nodes[i].loc : i \in 2 .. N - 1}
    BY DEF Profile, N
  <2>2. ASSUME NEW i \in 2 .. N - 1 PROVE nodes[i].loc \in Serves[v]
    <3>1. CASE i = 2
      BY <1>7, <1>13, <3>1
    <3>2. CASE i # 2
      <4>1. PICK k \in 1 .. Len(d) : k + 2 = i
        <5>1. i - 2 \in 1 .. Len(d) /\ i - 2 + 2 = i
          BY <1>9, <1>10, <1>11, <3>2
        <5> QED
          BY <5>1
      <4>2. d[k] \in Range(d)
        <5>1. k \in DOMAIN d
          BY <1>10
        <5> QED
          BY <5>1 DEF Range
      <4> QED
        BY <1>7, <1>14, <4>1, <4>2
    <3> QED
      BY <3>1, <3>2
  <2> QED
    BY <2>1, <2>2
<1>17. Profile(nodes).drops <= MaxDropNodeCount
  <2>1. Profile(nodes).drops = N - 3
    BY DropCount DEF N
  <2>2. N - 3 = Len(d)
    BY <1>10, <1>11
  <2> QED
    BY <1>7, <2>1, <2>2
<1>18. TotalDist(nodes) = RouteLength(v, <<OrigLoc[v], PickLoc[o]>> \o d \o <<DestLoc[v]>>)
  <2>1. VisitsAll(nodes, d)
    BY <1>10, <1>14 DEF VisitsAll, N
  <2>2. PickLoc[o] \in Locations
    BY DEF InstanceAssumption
  <2>3. more.veh = v
    BY DEF v
  <2> QED
    BY <1>13, <2>1, <2>2, <2>3, TripLength
<1> QED
  BY <1>7, <1>15, <1>16, <1>17, <1>18 DEF Meets, v

\* The order cannot be delivered at slot n by the load's own vehicle.
Hopeless(n) == ~ FitsAsStop(base, order, Len(base.nodes) - 2 - n)

\* Without a best trial, every slot passed was hopeless; the slot at hand is, if its trial
\* was infeasible, whatever the search for another vehicle says.
HopeInv ==
  /\ phase \in {"trial", "judge", "select"} /\ best = Nothing => \A n \in 0 .. u - 1 : Hopeless(n)
  /\ phase = "select" => Hopeless(u)
  /\ phase = "judge" => work.feasible \/ Hopeless(u)

\* A slot at which the order fits makes a feasible trial.
LEMMA TrialVerdict ==
  ASSUME InstanceAssumption, Evaluated(base), AtTrial, u < slots, ~ Hopeless(u),
         NEW put, put = InsertSegmentAt(ResetProfile(work), order, u),
         NEW try, try = EvalLoad(put)
  PROVE  try.feasible
<1> DEFINE v == base.veh
           p == Len(base.nodes) - u
<1>1. /\ Whole(put) /\ Housed(put) /\ put.veh = v /\ put.cache = <<>>
      /\ RouteOf(put) = Inserted(u, v) /\ u \in 0 .. slots - 1
  BY TrialPut
<1>2. /\ order \in Orders /\ order \notin Picked(base) /\ SharesPick(base, order)
      /\ slots = Len(base.nodes) - 2 /\ Whole(base)
  BY DEF AtTrial, Inserting, Evaluated
<1>3. Whole(try) /\ Housed(try) /\ LegsOf(try) /\ try.veh = v /\ RouteOf(try) = Inserted(u, v)
  BY <1>1, EvaluatedLoad
<1>4. Len(base.nodes) \in Nat /\ Len(RouteOf(base)) = Len(base.nodes)
  BY <1>2, WholePlaces
<1>5. p \in 3 .. Len(base.nodes) /\ p - 2 = Len(base.nodes) - 2 - u
  BY <1>1, <1>2, <1>4
<1>6. FitsAsStop(base, order, p - 2)
  BY <1>5 DEF Hopeless
<1>7. RouteOf(try) = Moved(PutAt(RouteOf(base), order, p), v)
  BY <1>3, <1>4 DEF Inserted, Put
<1> HIDE DEF p
<1>8. Meets(try.nodes, v)
  BY <1>2, <1>3, <1>5, <1>6, <1>7, MoreMeets
<1> QED
  BY <1>1, <1>8, FreshVerdict

LEMMA HopeTrial ==
  ASSUME InstanceAssumption, LoadInv, HopeInv, Trial
  PROVE  HopeInv'
<1> DEFINE put == InsertSegmentAt(ResetProfile(work), order, u)
           try == EvalLoad(put)
<1>1. /\ phase = "trial" /\ u < slots /\ base' = base /\ order' = order /\ u' = u /\ best' = best
      /\ \/ try.feasible /\ work' = try /\ phase' = "judge"
         \/ ~ try.feasible /\ phase' = "select"
  BY DEF Trial, SelectBegin
<1>2. AtTrial /\ Evaluated(base)
  BY <1>1 DEF LoadInv, AtTrial, Inserting
<1>3. try.feasible \/ Hopeless(u)
  BY <1>1, <1>2, TrialVerdict
<1>4. best = Nothing => \A n \in 0 .. u - 1 : Hopeless(n)
  BY <1>1 DEF HopeInv
<1> HIDE DEF try
<1>5. \A n : Hopeless(n)' <=> Hopeless(n)
  BY <1>1 DEF Hopeless, FitsAsStop, DropLocs, Picked
<1> QED
  BY <1>1, <1>3, <1>4, <1>5 DEF HopeInv

LEMMA HopeJudge ==
  ASSUME LoadInv, HopeInv, Judge
  PROVE  HopeInv'
<1>1. /\ phase = "judge" /\ phase' = "trial" /\ base' = base /\ order' = order /\ u' = u + 1
      /\ best' = IF work.feasible /\ (best = Nothing \/ work.obj < best.obj)
                 THEN [veh |-> work.veh, obj |-> work.obj, slot |-> u, route |-> RouteOf(work)]
                 ELSE best
  BY DEF Judge
<1>2. (best = Nothing => \A n \in 0 .. u - 1 : Hopeless(n)) /\ (work.feasible \/ Hopeless(u))
  BY <1>1 DEF HopeInv
<1>3. \A n : Hopeless(n)' <=> Hopeless(n)
  BY <1>1 DEF Hopeless, FitsAsStop, DropLocs, Picked
<1>4. u \in Int
  <2>1. AtJudge
    BY <1>1 DEF LoadInv
  <2>2. u \in 0 .. slots
    BY <2>1 DEF AtJudge, Inserting
  <2> QED
    BY <2>2
<1>5. ASSUME NEW a, NEW b, NEW c, NEW d
      PROVE  [veh |-> a, obj |-> b, slot |-> c, route |-> d] # Nothing
  <2>1. "slot" \in DOMAIN [veh |-> a, obj |-> b, slot |-> c, route |-> d]
        /\ "slot" \notin DOMAIN [veh |-> "none"]
    OBVIOUS
  <2> QED
    BY <2>1 DEF Nothing
<1>6. ASSUME best' = Nothing PROVE best = Nothing /\ ~ work.feasible
  BY <1>1, <1>5, <1>6
<1>7. ASSUME best' = Nothing, NEW n \in 0 .. u PROVE Hopeless(n)
  <2>1. n \in 0 .. u - 1 \/ n = u
    BY <1>4
  <2> QED
    BY <1>2, <1>6, <1>7, <2>1
<1>8. u' - 1 = u
  <2>1. u' = u + 1
    BY <1>1
  <2> QED
    BY <1>4, <2>1
<1>9. best' = Nothing => \A n \in 0 .. u' - 1 : Hopeless(n)'
  BY <1>3, <1>7, <1>8
<1> QED
  BY <1>1, <1>9 DEF HopeInv

LEMMA HopeSelect ==
  ASSUME HopeInv, SelectTry \/ SelectEnd \/ UNCHANGED loadVars
  PROVE  HopeInv'
<1>1. base' = base /\ order' = order /\ u' = u /\ best' = best
  BY DEF SelectTry, SelectEnd, loadVars
<1>2. \A n : Hopeless(n)' <=> Hopeless(n)
  BY <1>1 DEF Hopeless, FitsAsStop, DropLocs, Picked
<1>3. \/ phase' = phase /\ phase # "judge"
      \/ phase = "select" /\ phase' = "judge"
      \/ phase' = phase /\ work' = work
  BY DEF SelectTry, Selecting, SelectEnd, loadVars
<1>4. best = Nothing /\ phase' \in {"trial", "judge", "select"} => \A n \in 0 .. u - 1 : Hopeless(n)
  BY <1>3 DEF HopeInv
<1>5. best' = Nothing /\ phase' \in {"trial", "judge", "select"}
      => \A n \in 0 .. u' - 1 : Hopeless(n)'
  BY <1>1, <1>2, <1>4
<1>6. phase' = "select" => Hopeless(u)
  BY <1>3 DEF HopeInv
<1>7. phase' = "judge" => work'.feasible \/ Hopeless(u)
  BY <1>3 DEF HopeInv
<1>8. Hopeless(u)' <=> Hopeless(u)
  BY <1>1 DEF Hopeless, FitsAsStop, DropLocs, Picked
<1> QED
  BY <1>5, <1>6, <1>7, <1>8 DEF HopeInv

LEMMA HopeBegin ==
  ASSUME LoadInv, NEW o, NEW F, InsertBegin(o, F)
  PROVE  HopeInv'
<1>1. phase = "solution" /\ phase' = "trial" /\ u' = u
  BY DEF InsertBegin
<1>2. u = 0
  BY <1>1 DEF LoadInv
<1>3. \A n \in 0 .. u' - 1 : FALSE
  BY <1>1, <1>2
<1> QED
  BY <1>1, <1>3 DEF HopeInv

LEMMA HopeStep ==
  ASSUME InstanceAssumption, LoadInv, HopeInv, [LoadNext]_loadVars
  PROVE  HopeInv'
<1>1. ASSUME phase' \notin {"trial", "judge", "select"}
      PROVE  HopeInv'
  BY <1>1 DEF HopeInv
<1>2. CASE Trial
  BY <1>2, HopeTrial
<1>3. CASE Judge
  BY <1>3, HopeJudge
<1>4. CASE SelectTry \/ SelectEnd \/ UNCHANGED loadVars
  BY <1>4, HopeSelect
<1>5. ASSUME NEW o \in Orders, NEW F \in SUBSET VehicleTypes, InsertBegin(o, F)
      PROVE  HopeInv'
  BY <1>5, HopeBegin
<1>6. ASSUME NEW o \in Orders, NEW F \in SUBSET VehicleTypes,
             ConstructBegin(o, F) \/ AppendBegin(o, F)
      PROVE  HopeInv'
  BY <1>1, <1>6 DEF ConstructBegin, AppendBegin, SelectBegin
<1>7. CASE ConstructTry \/ ConstructEnd \/ AppendEnd \/ InsertFails \/ UseCell
  BY <1>1, <1>7 DEF ConstructTry, ConstructEnd, AppendEnd, InsertFails, UseCell, Finished
<1>8. CASE InsertBest
  <2>1. phase' \in {"final", "threw"}
    BY <1>8 DEF InsertBest
  <2> QED
    BY <1>1, <2>1
<1>9. ASSUME NEW R \in SUBSET Orders, RuinPart(R)
      PROVE  HopeInv'
  <2>1. phase' \in {"solution", "shed"}
    BY <1>9 DEF RuinPart
  <2> QED
    BY <1>1, <2>1
<1>10. CASE Shed
  <2>1. phase' \in {"solution", "shed"}
    BY <1>10 DEF Shed
  <2> QED
    BY <1>1, <2>1
<1>11. CASE RuinWhole
  BY <1>1, <1>11 DEF RuinWhole
<1> QED
  BY <1>2, <1>3, <1>4, <1>5, <1>6, <1>7, <1>8, <1>9, <1>10, <1>11 DEF LoadNext

\* A call that finds no feasible trial is right: the order fits nowhere in the route, in
\* front of the first delivery and behind the last one included.
THEOREM EmptyCellsAreRight == LoadSpec => []EmptyCellHopeless
<1>1. LoadInit => LoadInv /\ HopeInv
  <2>1. LoadInit => HopeInv
    BY DEF LoadInit, HopeInv
  <2> QED
    BY <2>1, LoadInitially
<1>2. LoadInv /\ HopeInv /\ [LoadNext]_loadVars => (LoadInv /\ HopeInv)'
  BY InstanceAssumption, LoadStep, HopeStep
<1>3. LoadInv /\ HopeInv => EmptyCellHopeless
  <2> SUFFICES ASSUME LoadInv, HopeInv, phase = "trial", u = slots, best = Nothing,
                      NEW i \in 1 .. Len(base.nodes) - 2
               PROVE  ~ FitsAsStop(base, order, i)
    BY DEF EmptyCellHopeless
  <2>1. base # NoLoad /\ slots = Len(base.nodes) - 2
    BY DEF LoadInv, AtTrial, Inserting
  <2>2. Len(base.nodes) \in Nat
    BY <2>1, WholePlaces DEF LoadInv, Evaluated
  <2>3. PICK n \in 0 .. u - 1 : Len(base.nodes) - 2 - n = i
    <3>1. Len(base.nodes) - 2 - i \in 0 .. u - 1
          /\ Len(base.nodes) - 2 - (Len(base.nodes) - 2 - i) = i
      BY <2>1, <2>2
    <3> QED
      BY <3>1
  <2>4. Hopeless(n)
    BY DEF HopeInv
  <2> QED
    BY <2>3, <2>4 DEF Hopeless
<1> QED
  BY <1>1, <1>2, <1>3, PTL DEF LoadSpec

(***************************************************************************)
(* The stamps of a thread's sums: no stamp is ahead of the counter, so a   *)
(* sum that has this evaluation's stamp was written by it.                 *)
(***************************************************************************)

StampsInv == StampsBehind /\ StampsTellThisCall

\* Growing a list of stamps, or clearing it, leaves none above m.
LEMMA GrownStamps ==
  ASSUME NEW s, NEW n, NEW m \in Nat, \A k \in DOMAIN s : s[k] \in 0 .. m
  PROVE  \A k \in DOMAIN Grown(s, n) : Grown(s, n)[k] \in 0 .. m
<1>1. CASE Len(s) < n
  <2>1. Grown(s, n) = [k \in 1 .. n |-> IF k \in DOMAIN s THEN s[k] ELSE 0]
    BY <1>1 DEF Grown, Resized
  <2>2. \A k \in 1 .. n : (IF k \in DOMAIN s THEN s[k] ELSE 0) \in 0 .. m
    OBVIOUS
  <2> QED
    BY <2>1, <2>2
<1>2. CASE ~ (Len(s) < n)
  BY <1>2 DEF Grown
<1> QED
  BY <1>1, <1>2

LEMMA RangeAppend ==
  ASSUME NEW s, NEW x, s \in Seq(Range(s))
  PROVE  /\ Range(Append(s, x)) = Range(s) \cup {x}
         /\ Append(s, x) \in Seq(Range(Append(s, x)))
<1> DEFINE t == Append(s, x)
<1>1. s \in Seq(Range(s) \cup {x})
  BY DEF Range
<1>2. /\ t \in Seq(Range(s) \cup {x}) /\ DOMAIN t = 1 .. Len(s) + 1 /\ DOMAIN s = 1 .. Len(s)
      /\ Len(s) \in Nat /\ t[Len(s) + 1] = x /\ \A k \in 1 .. Len(s) : t[k] = s[k]
  BY <1>1
<1>3. Range(t) = Range(s) \cup {x}
  BY <1>2 DEF Range
<1> QED
  BY <1>2, <1>3

\* Before the first scenario there is no stamp at all.
LEMMA InitStamps == Init => StampsInv
<1> SUFFICES ASSUME Init PROVE StampsInv
  OBVIOUS
<1>1. DOMAIN secondary_epoch = {} /\ DOMAIN charge_code_epoch = {}
  BY DEF Init
<1>2. touched_secondaries \in Seq(Range(touched_secondaries))
  BY DEF Init
<1>3. epoch \in 0 .. MaxEpoch /\ pc = "idle"
  BY EpochAssumption DEF Init
<1> QED
  BY <1>1, <1>2, <1>3 DEF StampsInv, StampsBehind, StampsTellThisCall

\* The new number is one that no stamp has: the counter moved past all of them, or they
\* are 0 and it is 1.
LEMMA PrepareStamps ==
  ASSUME StampsInv, PrepareAggregation
  PROVE  StampsInv'
<1> DEFINE a == Grown(secondary_epoch, SecondaryCount)
           b == Grown(charge_code_epoch, manager.code_count)
<1>1. /\ epoch \in Nat /\ epoch <= MaxEpoch /\ MaxEpoch \in Nat /\ MaxEpoch > 0
      /\ \A k \in DOMAIN a : a[k] \in 0 .. epoch
      /\ \A k \in DOMAIN b : b[k] \in 0 .. epoch
  BY GrownStamps, EpochAssumption DEF StampsInv, StampsBehind
<1>2. StartEpoch(a, b) /\ touched_secondaries' = <<>> /\ pc' = "rules"
  BY DEF PrepareAggregation
<1> HIDE DEF a, b
<1>3. /\ epoch' \in 1 .. MaxEpoch
      /\ \A k \in DOMAIN secondary_epoch' : secondary_epoch'[k] \in 0 .. epoch' - 1
      /\ \A k \in DOMAIN charge_code_epoch' : charge_code_epoch'[k] \in 0 .. epoch' - 1
  <2>1. CASE epoch < MaxEpoch
    BY <1>1, <1>2, <2>1 DEF StartEpoch
  <2>2. CASE ~ (epoch < MaxEpoch)
    BY <1>1, <1>2, <2>2 DEF StartEpoch, Zeroed
  <2> QED
    BY <2>1, <2>2
<1>4. Range(touched_secondaries') = {} /\ touched_secondaries' \in Seq(Range(touched_secondaries'))
  BY <1>2 DEF Range
<1> HIDE DEF StampsInv
<1>5. StampsBehind'
  BY <1>1, <1>3, <1>4 DEF StampsBehind
<1>6. StampsTellThisCall'
  BY <1>1, <1>3, <1>4 DEF StampsTellThisCall, Stamped
<1> QED
  BY <1>5, <1>6 DEF StampsInv

\* A rule stamps the secondary it enters in the list, and no other.
LEMMA RuleStamps ==
  ASSUME StampsInv, EvalRule
  PROVE  StampsInv'
<1>1. /\ epoch \in Nat /\ pc = "rules" /\ pc' = pc
      /\ UNCHANGED <<epoch, charge_code_epoch>>
  BY EpochAssumption DEF EvalRule, codeStamps, StampsInv, StampsBehind
<1>2. CASE UNCHANGED <<secondary_epoch, touched_secondaries>>
  BY <1>1, <1>2 DEF StampsInv, StampsBehind, StampsTellThisCall, Stamped
<1>3. ASSUME NEW s, Touch(s) PROVE StampsInv'
  <2>1. CASE secondary_epoch[s] = epoch
    BY <1>2, <1>3, <2>1 DEF Touch
  <2>2. CASE secondary_epoch[s] # epoch
    <3>1. /\ secondary_epoch' = [secondary_epoch EXCEPT ![s] = epoch]
          /\ touched_secondaries' = Append(touched_secondaries, s)
      BY <1>3, <2>2 DEF Touch
    <3>2. /\ Range(touched_secondaries') = Range(touched_secondaries) \cup {s}
          /\ touched_secondaries' \in Seq(Range(touched_secondaries'))
      BY <3>1, RangeAppend DEF StampsInv, StampsBehind
    <3>3. StampsBehind'
      BY <1>1, <3>1, <3>2 DEF StampsInv, StampsBehind
    <3>4. StampsTellThisCall'
      BY <1>1, <3>1, <3>2 DEF StampsInv, StampsTellThisCall, Stamped
    <3> QED
      BY <3>3, <3>4 DEF StampsInv
  <2> QED
    BY <2>1, <2>2
<1>4. \/ UNCHANGED <<secondary_epoch, touched_secondaries>>
      \/ \E s : Touch(s)
  BY DEF EvalRule, Accumulate, secondaryStamps
<1> QED
  BY <1>2, <1>3, <1>4

\* A clause is stamped with the number of the evaluation that ends.
LEMMA FinalStamps ==
  ASSUME StampsInv, Finalize
  PROVE  StampsInv'
<1>1. /\ pc' = "idle" /\ epoch' = epoch
      /\ UNCHANGED <<secondary_epoch, touched_secondaries>>
  BY DEF Finalize, secondaryStamps
<1>2. \E codes : charge_code_epoch' = [c \in DOMAIN charge_code_epoch |->
                    IF c \in codes THEN epoch ELSE charge_code_epoch[c]]
  BY DEF Finalize
<1>3. epoch \in Nat /\ \A c \in DOMAIN charge_code_epoch : charge_code_epoch[c] \in 0 .. epoch
  BY EpochAssumption DEF StampsInv, StampsBehind
<1>4. \A c \in DOMAIN charge_code_epoch' : charge_code_epoch'[c] \in 0 .. epoch
  BY <1>2, <1>3
<1>5. StampsBehind'
  BY <1>1, <1>4 DEF StampsInv, StampsBehind
<1> QED
  BY <1>1, <1>5 DEF StampsInv, StampsTellThisCall

\* Steps outside the sums leave the stamps alone and do not start the rules.
LEMMA OtherStamps ==
  ASSUME StampsInv, UNCHANGED sums, pc' # "rules" \/ UNCHANGED pc
  PROVE  StampsInv'
<1>1. UNCHANGED <<epoch, secondary_epoch, charge_code_epoch, touched_secondaries>>
  BY DEF sums, secondaryStamps, codeStamps
<1> QED
  BY <1>1 DEF StampsInv, StampsBehind, StampsTellThisCall, Stamped

LEMMA NextStamps == StampsInv /\ [Next]_vars => StampsInv'
<1> SUFFICES ASSUME StampsInv, [Next]_vars PROVE StampsInv'
  OBVIOUS
<1>1. ASSUME NEW t \in Tables, LoadTables(t) PROVE StampsInv'
  BY <1>1, OtherStamps DEF LoadTables
<1>2. ASSUME NEW l \in Loads, EvalFree(l) \/ Eval(l) PROVE StampsInv'
  BY <1>2, OtherStamps DEF EvalFree, Eval
<1>3. CASE BuildOdPairs
  BY <1>3, OtherStamps DEF BuildOdPairs
<1>4. CASE BuildOrderedSeqs
  BY <1>4, OtherStamps DEF BuildOrderedSeqs
<1>5. CASE PrepareAggregation
  BY <1>5, PrepareStamps
<1>6. CASE EvalRule
  BY <1>6, RuleStamps
<1>7. CASE Finalize
  BY <1>7, FinalStamps
<1>8. CASE UNCHANGED vars
  BY <1>8, OtherStamps DEF vars
<1> QED
  BY <1>1, <1>2, <1>3, <1>4, <1>5, <1>6, <1>7, <1>8 DEF Next

\* Whatever tables and loads a thread has priced before, and however often the number of
\* the evaluation has started over: a sum with this evaluation's stamp is one that it made.
THEOREM StampsSafe == Spec => []StampsTellThisCall
<1>1. StampsInv => StampsTellThisCall
  BY DEF StampsInv
<1> QED
  BY InitStamps, NextStamps, <1>1, PTL DEF Spec

THEOREM StampsBehindSafe == Spec => []StampsBehind
<1>1. StampsInv => StampsBehind
  BY DEF StampsInv
<1> QED
  BY InitStamps, NextStamps, <1>1, PTL DEF Spec

(***************************************************************************)
(* The tiers of a rule: sorting them loses none, and neighbours that do    *)
(* not overlap keep all of them apart, as no tier is empty.                *)
(***************************************************************************)

\* As many elements come up to one of s as its place says, so that every place is taken.
LEMMA UpToCounts ==
  ASSUME NEW s, IsFiniteSet(s), s \subseteq Int, NEW of, \A i \in s : of[i] \in Int
  PROVE  \A k \in 1 .. Cardinality(s) : \E i \in s : Cardinality(UpTo(s, of, i)) = k
<1> DEFINE f == [i \in s |-> Cardinality(UpTo(s, of, i))]
           D == 1 .. Cardinality(s)
<1>1. Cardinality(s) \in Nat
  BY FS_CardinalityType
<1>2. ASSUME NEW i \in s
      PROVE  /\ UpTo(s, of, i) \in SUBSET s /\ IsFiniteSet(UpTo(s, of, i)) /\ i \in UpTo(s, of, i)
             /\ Cardinality(UpTo(s, of, i)) \in D
  <2>1. UpTo(s, of, i) \in SUBSET s /\ i \in UpTo(s, of, i)
    BY DEF UpTo
  <2>2. IsFiniteSet(UpTo(s, of, i)) /\ Cardinality(UpTo(s, of, i)) <= Cardinality(s)
    BY <2>1, FS_Subset
  <2>3. Cardinality(UpTo(s, of, i)) \in Nat /\ Cardinality(UpTo(s, of, i)) # 0
    BY <2>1, <2>2, FS_CardinalityType, FS_EmptySet
  <2> QED
    BY <1>1, <2>1, <2>2, <2>3
<1>3. ASSUME NEW i \in s, NEW j \in s, UpTo(s, of, i) \subseteq UpTo(s, of, j),
             Cardinality(UpTo(s, of, i)) = Cardinality(UpTo(s, of, j))
      PROVE  i = j
  <2>1. UpTo(s, of, i) = UpTo(s, of, j)
    BY <1>2, <1>3, FS_Subset
  <2>2. j \in UpTo(s, of, i) /\ i \in UpTo(s, of, j)
    BY <1>2, <2>1
  <2>3. of[i] \in Int /\ of[j] \in Int /\ i \in Int /\ j \in Int
    OBVIOUS
  <2> QED
    BY <2>2, <2>3 DEF UpTo
<1>4. ASSUME NEW i \in s, NEW j \in s
      PROVE  UpTo(s, of, i) \subseteq UpTo(s, of, j) \/ UpTo(s, of, j) \subseteq UpTo(s, of, i)
  <2>1. of[i] \in Int /\ of[j] \in Int /\ i \in Int /\ j \in Int
    OBVIOUS
  <2>2. ASSUME of[i] < of[j] \/ (of[i] = of[j] /\ i <= j), NEW k \in UpTo(s, of, i)
        PROVE  k \in UpTo(s, of, j)
    <3>1. k \in s /\ of[k] \in Int /\ k \in Int /\ (of[k] < of[i] \/ (of[k] = of[i] /\ k <= i))
      BY DEF UpTo
    <3>2. of[k] < of[j] \/ (of[k] = of[j] /\ k <= j)
      BY <2>1, <2>2, <3>1
    <3> QED
      BY <3>1, <3>2 DEF UpTo
  <2>3. ASSUME of[j] < of[i] \/ (of[j] = of[i] /\ j <= i), NEW k \in UpTo(s, of, j)
        PROVE  k \in UpTo(s, of, i)
    <3>1. k \in s /\ of[k] \in Int /\ k \in Int /\ (of[k] < of[j] \/ (of[k] = of[j] /\ k <= j))
      BY DEF UpTo
    <3>2. of[k] < of[i] \/ (of[k] = of[i] /\ k <= i)
      BY <2>1, <2>3, <3>1
    <3> QED
      BY <3>1, <3>2 DEF UpTo
  <2>4. (of[i] < of[j] \/ (of[i] = of[j] /\ i <= j)) \/ (of[j] < of[i] \/ (of[j] = of[i] /\ j <= i))
    BY <2>1
  <2> QED
    BY <2>2, <2>3, <2>4
<1>5. f \in Injection(s, D)
  <2>1. f \in [s -> D]
    BY <1>2
  <2>2. \A i, j \in s : f[i] = f[j] => i = j
    BY <1>3, <1>4
  <2> HIDE DEF f, D
  <2> QED
    BY <2>1, <2>2 DEF Injection, IsInjective
<1>6. IsFiniteSet(D) /\ Cardinality(D) = Cardinality(s)
  BY <1>1, FS_Interval
<1>7. f \in Surjection(s, D)
  <2> HIDE DEF f, D
  <2> QED
    BY <1>5, <1>6, FS_Injection
<1> QED
  BY <1>7 DEF Surjection

\* Some number of a set of numbers is the smallest.
LEMMA LeastNumber ==
  ASSUME NEW n \in Nat, NEW B, B \subseteq 1 .. n, B # {}
  PROVE  \E x \in B : \A y \in B : x <= y
<1> DEFINE S == 1 .. n
           C == {1 .. x : x \in B}
           less == StrictSubsetOrdering(S)
<1>1. IsFiniteSet(S) BY FS_Interval
<1>2. C \subseteq SUBSET S OBVIOUS
<1>3. C \subseteq FiniteSubsetsOf(S)
  <2>1. \A x \in C : x \in SUBSET S /\ IsFiniteSet(x) BY <1>1, <1>2, FS_Subset
  <2> QED BY <2>1 DEF FiniteSubsetsOf
<1>4. IsWellFoundedOn(less, FiniteSubsetsOf(S)) BY <1>1, FS_StrictSubsetOrderingWellFounded
<1>5. PICK r \in C : \A q \in C : << q, r >> \notin less
  <2>1. C # {} OBVIOUS
  <2> HIDE DEF less, C
  <2> QED BY <1>3, <1>4, <2>1, WFMin
<1>6. PICK x \in B : r = 1 .. x OBVIOUS
<1>7. ASSUME NEW y \in B, y < x PROVE FALSE
  <2>1. 1 .. y \in C /\ 1 .. y \subseteq r BY <1>6, <1>7
  <2>2. x \in Nat \ {0} /\ y \in Nat BY DEF S
  <2>3. x \in 1 .. x /\ x \notin 1 .. y BY <1>7, <2>2
  <2>4. 1 .. y # r BY <1>6, <2>3
  <2>5. << 1 .. y, r >> \in less BY <1>2, <2>1, <2>4 DEF StrictSubsetOrdering
  <2> QED BY <1>5, <2>1, <2>5
<1>8. \A y \in B : x <= y BY <1>7
<1> QED BY <1>8

\* Parts that are not empty and do not overlap their neighbours lie in turn.
LEMMA NeighboursInTurn ==
  ASSUME NEW n \in Nat, NEW a, NEW b,
         \A k \in 1 .. n : a[k] \in Int /\ b[k] \in Int /\ a[k] < b[k],
         \A k \in 2 .. n : b[k - 1] <= a[k]
  PROVE  \A i, j \in 1 .. n : i < j => b[i] <= a[j]
<1> DEFINE bad == {j \in 1 .. n : \E i \in 1 .. n : i < j /\ ~ (b[i] <= a[j])}
<1>1. SUFFICES ASSUME bad # {} PROVE FALSE
  OBVIOUS
<1>2. PICK j \in bad : \A k \in bad : j <= k
  <2>1. bad \subseteq 1 .. n
    OBVIOUS
  <2> HIDE DEF bad
  <2> QED
    BY <1>1, <2>1, LeastNumber
<1>3. PICK i \in 1 .. n : i < j /\ ~ (b[i] <= a[j])
  BY <1>2
<1>4. j \in 2 .. n /\ j - 1 \in 1 .. n
  BY <1>2, <1>3
<1>5. b[j - 1] <= a[j] /\ a[j - 1] < b[j - 1]
  BY <1>4
<1>6. i < j - 1
  BY <1>3, <1>4, <1>5
<1>7. j - 1 \notin bad
  BY <1>2, <1>4
<1>8. b[i] <= a[j - 1]
  BY <1>4, <1>6, <1>7
<1>9. b[i] \in Int /\ a[j - 1] \in Int /\ b[j - 1] \in Int /\ a[j] \in Int
  BY <1>2, <1>4
<1> QED
  BY <1>3, <1>5, <1>8, <1>9

\* A bound is a number, in the unit of its condition.
LEMMA BoundType ==
  ASSUME NEW t \in Tables, t.present, Accepted(t), t.rules # <<>>,
         NEW r \in Range(t.rules), NEW cell \in Int, NEW default \in Int
  PROVE  Bound(r, cell, default) \in Int
<1>1. CASE r.condition = NoCode \/ cell = NoBound
  BY <1>1 DEF Bound
<1>2. CASE ~ (r.condition = NoCode \/ cell = NoBound)
  <2>1. BoundScale(r) \in Int
    <3>1. CASE r.condition = "DISTANCE"
      BY <3>1, CellsAssumption DEF BoundScale
    <3>2. CASE r.condition = "DIMENSION"
      <4>1. r.dim \in DOMAIN Dimensions
        BY <3>2 DEF Accepted, RulesAccepted, ConditionAccepted
      <4>2. Dimensions[r.dim] \in Nat
        BY <4>1 DEF Accepted, IndexesAccepted
      <4>3. 10 ^ Dimensions[r.dim] \in Int
        BY <4>2
      <4> QED
        BY <3>2, <4>3 DEF BoundScale, DimScale
    <3>3. CASE r.condition # "DISTANCE" /\ r.condition # "DIMENSION"
      BY <3>3 DEF BoundScale
    <3> QED
      BY <3>1, <3>2, <3>3
  <2>2. \A x \in Int : cell * x + 5 \in Int
    OBVIOUS
  <2>3. \A y \in Int : y \div 10 \in Int
    OBVIOUS
  <2> HIDE DEF BoundScale
  <2>4. Scaled(cell, BoundScale(r)) \in Int
    BY <2>1, <2>2, <2>3 DEF Scaled
  <2> QED
    BY <1>2, <2>4 DEF Bound
<1> QED
  BY <1>1, <1>2

\* The tiers of a rule are its rows.
LEMMA TiersAreRows ==
  ASSUME NEW t \in Tables, t.present, NEW r,
         \A i \in DOMAIN t.tiers : t.tiers[i].rule = r.rule => Bound(r, t.tiers[i].lower, 0) \in Int
  PROVE  /\ DOMAIN TiersOf(t, r) = 1 .. Len(TiersOf(t, r)) /\ Len(TiersOf(t, r)) \in Nat
         /\ \A k \in DOMAIN TiersOf(t, r) :
              \E row \in Range(t.tiers) : row.rule = r.rule /\ TiersOf(t, r)[k] = TierOf(t, r, row)
<1> DEFINE rows == {i \in DOMAIN t.tiers : t.tiers[i].rule = r.rule}
           lower == [i \in rows |-> Bound(r, t.tiers[i].lower, 0)]
           at(k) == CHOOSE i \in rows : Cardinality(UpTo(rows, lower, i)) = k
           n == Cardinality(rows)
<1>1. TiersOf(t, r) = [k \in 1 .. n |-> TierOf(t, r, t.tiers[at(k)])]
  BY DEF TiersOf
<1>2. IsFiniteSet(rows) /\ rows \subseteq Int
  <2>1. DOMAIN t.tiers = 1 .. Len(t.tiers) /\ Len(t.tiers) \in Nat
    BY CellsAssumption
  <2>2. IsFiniteSet(DOMAIN t.tiers)
    BY <2>1, FS_Interval
  <2>3. rows \subseteq DOMAIN t.tiers
    OBVIOUS
  <2> QED
    BY <2>1, <2>2, <2>3, FS_Subset
<1>3. n \in Nat
  BY <1>2, FS_CardinalityType
<1>4. \A i \in rows : lower[i] \in Int
  OBVIOUS
<1>5. ASSUME NEW k \in 1 .. n PROVE at(k) \in rows
  <2> HIDE DEF lower, rows
  <2>1. \E i \in rows : Cardinality(UpTo(rows, lower, i)) = k
    BY <1>2, <1>4, UpToCounts
  <2> QED
    BY <2>1
<1>6. ASSUME NEW k \in 1 .. n
      PROVE  \E row \in Range(t.tiers) : row.rule = r.rule /\ TiersOf(t, r)[k] = TierOf(t, r, row)
  <2>1. at(k) \in DOMAIN t.tiers /\ t.tiers[at(k)].rule = r.rule
    BY <1>5
  <2>2. t.tiers[at(k)] \in Range(t.tiers)
    BY <2>1 DEF Range
  <2>3. TiersOf(t, r)[k] = TierOf(t, r, t.tiers[at(k)])
    BY <1>1
  <2> HIDE DEF at
  <2> QED
    BY <2>1, <2>2, <2>3
<1> HIDE DEF n, at
<1>7. DOMAIN TiersOf(t, r) = 1 .. n /\ Len(TiersOf(t, r)) = n
  BY <1>1, <1>3
<1> QED
  BY <1>3, <1>6, <1>7

\* The reader's checks, of neighbours only, keep all the tiers of a rule apart.
LEMMA AcceptedApart ==
  ASSUME NEW t \in Tables, t.present, Accepted(t), t.rules # <<>>, NEW r \in Range(t.rules)
  PROVE  \A i, j \in DOMAIN TiersOf(t, r) : i < j => TiersOf(t, r)[i].upper <= TiersOf(t, r)[j].lower
<1> DEFINE s == TiersOf(t, r)
           n == Len(s)
<1>1. TiersAccepted(t) /\ RulesAccepted(t)
  BY DEF Accepted
<1>2. ASSUME NEW q \in Range(t.rules), q.rule = r.rule PROVE q = r
  <2>1. PICK k \in DOMAIN t.rules : t.rules[k] = r
    BY DEF Range
  <2>2. PICK l \in DOMAIN t.rules : t.rules[l] = q
    BY DEF Range
  <2> DEFINE codes == [i \in DOMAIN t.rules |-> t.rules[i].rule]
  <2>3. Distinct(codes)
    BY <1>1 DEF RulesAccepted
  <2>4. codes[k] = codes[l]
    BY <1>2, <2>1, <2>2
  <2>5. k = l
    BY <2>3, <2>4 DEF Distinct
  <2> QED
    BY <2>1, <2>2, <2>5
<1>3. ASSUME NEW row \in Range(t.tiers), row.rule = r.rule
      PROVE  /\ Bound(r, row.lower, 0) \in Int /\ Bound(r, row.upper, Infinity) \in Int
             /\ Bound(r, row.lower, 0) < Bound(r, row.upper, Infinity)
  <2>1. row.lower \in Int /\ row.upper \in Int
    BY CellsAssumption DEF Range
  <2>2. PICK q \in Range(t.rules) : q.rule = row.rule /\ Bound(q, row.lower, 0) < Bound(q, row.upper, Infinity)
    BY <1>1 DEF TiersAccepted
  <2>3. q = r
    BY <1>2, <1>3, <2>2
  <2>4. Infinity \in Int
    BY CellsAssumption DEF Infinity
  <2>5. Bound(r, row.lower, 0) \in Int /\ Bound(r, row.upper, Infinity) \in Int
    BY <2>1, <2>4, BoundType
  <2> QED
    BY <2>2, <2>3, <2>5
<1>4. /\ DOMAIN s = 1 .. n /\ n \in Nat
      /\ \A k \in DOMAIN s : \E row \in Range(t.tiers) : row.rule = r.rule /\ s[k] = TierOf(t, r, row)
  <2>1. \A i \in DOMAIN t.tiers : t.tiers[i].rule = r.rule => Bound(r, t.tiers[i].lower, 0) \in Int
    BY <1>3 DEF Range
  <2> QED
    BY <2>1, TiersAreRows
<1>5. ASSUME NEW k \in 1 .. n
      PROVE  s[k].lower \in Int /\ s[k].upper \in Int /\ s[k].lower < s[k].upper
  <2>1. PICK row \in Range(t.tiers) : row.rule = r.rule /\ s[k] = TierOf(t, r, row)
    BY <1>4
  <2>2. TierOf(t, r, row).lower = Bound(r, row.lower, 0) /\ TierOf(t, r, row).upper = Bound(r, row.upper, Infinity)
    BY DEF TierOf
  <2> HIDE DEF s
  <2> QED
    BY <1>3, <2>1, <2>2
<1>6. n = 1 \/ \A k \in 2 .. n : s[k - 1].upper <= s[k].lower
  BY <1>1 DEF TiersAccepted, NeighboursApart
<1> HIDE DEF s, n
<1>7. CASE n = 1
  BY <1>4, <1>7 DEF s
<1>8. CASE \A k \in 2 .. n : s[k - 1].upper <= s[k].lower
  <2> DEFINE a == [k \in 1 .. n |-> s[k].lower]
             b == [k \in 1 .. n |-> s[k].upper]
  <2>1. \A k \in 1 .. n : a[k] \in Int /\ b[k] \in Int /\ a[k] < b[k]
    BY <1>5
  <2>2. \A k \in 2 .. n : b[k - 1] <= a[k]
    <3>1. \A k \in 2 .. n : k - 1 \in 1 .. n /\ k \in 1 .. n
      BY <1>4
    <3> QED
      BY <1>8, <3>1
  <2> HIDE DEF a, b
  <2>3. \A i, j \in 1 .. n : i < j => b[i] <= a[j]
    BY <1>4, <2>1, <2>2, NeighboursInTurn
  <2> QED
    BY <1>4, <2>3 DEF a, b, s
<1> QED
  BY <1>6, <1>7, <1>8

\* A manager is that of tables that were accepted.
ManagerInv ==
  manager = Disabled \/ \E t \in Tables : /\ t.present /\ Accepted(t) /\ t.rules # <<>>
                                          /\ manager = Manager(t)

\* Whatever tables are read, of any number of scenarios: a metric meets one tier of a rule at
\* most (scr_charge_reader_tier.cpp, ChargeCsvReader::load_tiers).
THEOREM TiersApart == Spec => []TiersDisjoint
<1>1. Init => ManagerInv
  BY DEF Init, ManagerInv
<1>2. ManagerInv /\ [Next]_vars => ManagerInv'
  <2> SUFFICES ASSUME ManagerInv, [Next]_vars PROVE ManagerInv'
    OBVIOUS
  <2>1. ASSUME NEW t \in Tables, LoadTables(t) PROVE ManagerInv'
    <3>1. CASE Accepted(t) /\ t.present /\ t.rules # <<>>
      <4>1. manager' = Manager(t)
        BY <2>1, <3>1 DEF LoadTables
      <4> QED
        BY <3>1, <4>1 DEF ManagerInv
    <3>2. CASE ~ (Accepted(t) /\ t.present /\ t.rules # <<>>)
      <4>1. ~ Accepted(t) \/ Manager(t) = Disabled
        BY <3>2 DEF Manager
      <4>2. manager' = Disabled
        BY <2>1, <4>1 DEF LoadTables
      <4>3. Disabled' = Disabled
        BY DEF Disabled
      <4> QED
        BY <4>2, <4>3 DEF ManagerInv
    <3> QED
      BY <3>1, <3>2
  <2>2. ASSUME manager' = manager PROVE ManagerInv'
    BY <2>2 DEF ManagerInv
  <2>3. (\E t \in Tables : LoadTables(t)) \/ manager' = manager
    BY DEF Next, EvalFree, Eval, BuildOdPairs, BuildOrderedSeqs, PrepareAggregation, EvalRule, Finalize,
           vars, given
  <2> QED
    BY <2>1, <2>2, <2>3
<1>3. ManagerInv => TiersDisjoint
  <2> SUFFICES ASSUME ManagerInv, manager.enabled, NEW k \in DOMAIN manager.rules
               PROVE  LET tiers == manager.rules[k].tiers
                      IN  \A i, j \in DOMAIN tiers : i < j => tiers[i].upper <= tiers[j].lower
    BY DEF TiersDisjoint
  <2>1. PICK t \in Tables : t.present /\ Accepted(t) /\ t.rules # <<>> /\ manager = Manager(t)
    BY DEF ManagerInv, Disabled
  <2>2. manager.rules = [i \in DOMAIN t.rules |-> Rule(t, t.rules[i])]
    BY <2>1 DEF Manager
  <2>3. k \in DOMAIN t.rules /\ manager.rules[k].tiers = TiersOf(t, t.rules[k])
    BY <2>2 DEF Rule
  <2>4. t.rules[k] \in Range(t.rules)
    BY <2>3 DEF Range
  <2> QED
    BY <2>1, <2>3, <2>4, AcceptedApart
<1> QED
  BY <1>1, <1>2, <1>3, PTL DEF Spec

=============================================================================

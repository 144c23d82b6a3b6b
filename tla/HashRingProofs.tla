--------------------------- MODULE HashRingProofs ---------------------------
(***************************************************************************)
(* Proofs about HashRing, for every number of servers and replicas, every  *)
(* size of the circle and every hash function.                             *)
(***************************************************************************)
EXTENDS HashRing, FiniteSetTheorems, WellFoundedInduction, TLAPS

\* The replicas of a server with a given hash are finitely many.
LEMMA CopiesFinite ==
  ASSUME NEW s, NEW h
  PROVE  IsFiniteSet(Copies(s, h)) /\ Cardinality(Copies(s, h)) \in Nat
<1>1. 0 \in Int /\ Replicas - 1 \in Int
  BY RingAssumption
<1>2. IsFiniteSet(0..(Replicas - 1))
  BY <1>1, FS_Interval
<1>3. IsFiniteSet(Copies(s, h))
  BY <1>2, FS_Subset DEF Copies
<1> QED
  BY <1>3, FS_CardinalityType

\* The hash of a virtual node is a hash.
LEMMA HashTyped ==
  ASSUME TypeOK, NEW s \in Servers, NEW i \in 0..(Replicas - 1)
  PROVE  hash[<<s, i>>] \in Hashes
BY DEF TypeOK, Identities

\* The first virtual node exists.
LEMMA FirstReplica == 0 \in 0..(Replicas - 1)
BY RingAssumption

\* No step spoils a type: Remove never takes more than there is out of Nodes.
LEMMA TypeStep ==
  ASSUME TypeOK, [Next]_vars
  PROVE  TypeOK'
<1>1. ASSUME NEW s \in Servers, Add(s)
      PROVE  TypeOK'
  <2>1. \A h \in Hashes : Put(s, h) \in Servers \cup {NoServer}
    BY DEF TypeOK, Put
  <2>2. \A h \in Hashes : Nodes[h] + Cardinality(Copies(s, h)) \in Nat
    BY CopiesFinite DEF TypeOK
  <2> QED
    BY <1>1, <2>1, <2>2 DEF Add, TypeOK
<1>2. ASSUME NEW s \in Servers, Remove(s)
      PROVE  TypeOK'
  <2>1. \A h \in Hashes : Cut(s, h) \in Nat
    BY CopiesFinite DEF TypeOK, Cut
  <2>2. \A h \in Hashes :
          (IF Copies(s, h) # {} THEN NoServer ELSE Registry[h]) \in Servers \cup {NoServer}
    BY DEF TypeOK
  <2> QED
    BY <1>2, <2>1, <2>2 DEF Remove, TypeOK
<1>3. CASE UNCHANGED vars
  BY <1>3 DEF TypeOK, vars
<1> QED
  BY <1>1, <1>2, <1>3 DEF Next

\* The initial ring is well typed.
LEMMA TypeInit ==
  ASSUME Init
  PROVE  TypeOK
BY RingAssumption DEF Init, TypeOK

\* Registry, Nodes and the members stay well typed, whatever hashes collide.
THEOREM TypeCorrect == Spec => []TypeOK
<1>1. Init => TypeOK
  BY TypeInit
<1>2. TypeOK /\ [Next]_vars => TypeOK'
  BY TypeStep
<1> QED
  BY <1>1, <1>2, PTL DEF Spec

-----------------------------------------------------------------------------
(***************************************************************************)
(* A server that shares no hash                                            *)
(***************************************************************************)

\* Its virtual nodes have one replica each, and nobody else has any there.
LEMMA AloneCopies ==
  ASSUME TypeOK, NEW s \in Servers, Alone(s), NEW i \in 0..(Replicas - 1)
  PROVE  /\ Copies(s, hash[<<s, i>>]) = {i}
         /\ Cardinality(Copies(s, hash[<<s, i>>])) = 1
         /\ \A v \in Servers \ {s} :
              /\ Copies(v, hash[<<s, i>>]) = {}
              /\ Cardinality(Copies(v, hash[<<s, i>>])) = 0
<1>1. \A v \in Servers, j \in 0..(Replicas - 1) :
        hash[<<s, i>>] = hash[<<v, j>>] => v = s /\ j = i
  <2> SUFFICES ASSUME NEW v \in Servers, NEW j \in 0..(Replicas - 1),
                      hash[<<s, i>>] = hash[<<v, j>>]
               PROVE  v = s /\ j = i
    OBVIOUS
  <2>1. <<s, i>> \in Identities /\ <<v, j>> \in Identities
    BY DEF Identities
  <2>2. <<s, i>>[1] = s
    OBVIOUS
  <2>3. <<s, i>> = <<v, j>>
    BY <2>1, <2>2 DEF Alone
  <2> QED
    BY <2>3
<1>2. Copies(s, hash[<<s, i>>]) = {i}
  BY <1>1 DEF Copies
<1>3. \A v \in Servers \ {s} : Copies(v, hash[<<s, i>>]) = {}
  BY <1>1 DEF Copies
<1>4. Cardinality({i}) = 1
  BY FS_Singleton
<1>5. \A v \in Servers \ {s} : Cardinality(Copies(v, hash[<<s, i>>])) = 0
  BY <1>3, FS_EmptySet
<1> QED
  BY <1>2, <1>3, <1>4, <1>5

\* What BystandersSafe says of one virtual node.
Present(s, i) ==
  IF s \in added THEN Registry[hash[<<s, i>>]] = s /\ Nodes[hash[<<s, i>>]] = 1
                 ELSE Registry[hash[<<s, i>>]] = NoServer /\ Nodes[hash[<<s, i>>]] = 0

\* Adding or removing a server, colliding or not, leaves bystanders as they are.
LEMMA BystandersStep ==
  ASSUME TypeOK, BystandersSafe, [Next]_vars
  PROVE  BystandersSafe'
<1>1. CASE UNCHANGED vars
  BY <1>1 DEF BystandersSafe, Alone, vars
<1>2. ASSUME NEW v \in Servers, Add(v) \/ Remove(v)
      PROVE  BystandersSafe'
  <2>1. hash' = hash
    BY <1>2 DEF Add, Remove
  <2> SUFFICES ASSUME NEW s \in Servers, Alone(s), NEW i \in 0..(Replicas - 1)
               PROVE  Present(s, i)'
    BY <2>1 DEF BystandersSafe, Present, Alone
  <2> DEFINE h == hash[<<s, i>>]
  <2>2. h \in Hashes /\ Nodes[h] \in Nat
    BY HashTyped DEF TypeOK
  <2>3. Present(s, i) /\ Present(s, 0)
    BY FirstReplica DEF BystandersSafe, Present
  <2>4. s # NoServer
    BY RingAssumption
  <2>5. CASE v # s
    <3>1. Copies(v, h) = {} /\ Cardinality(Copies(v, h)) = 0
      BY <2>5, AloneCopies
    <3>2. Registry'[h] = Registry[h] /\ Nodes'[h] = Nodes[h]
      <4>1. CASE Add(v)
        <5>1. Registry'[h] = Put(v, h) /\ Nodes'[h] = Nodes[h] + Cardinality(Copies(v, h))
          BY <2>2, <4>1 DEF Add
        <5> QED
          BY <2>2, <3>1, <5>1 DEF Put
      <4>2. CASE Remove(v)
        <5>1. /\ Registry'[h] = IF Copies(v, h) # {} THEN NoServer ELSE Registry[h]
              /\ Nodes'[h] = Cut(v, h)
          BY <2>2, <4>2 DEF Remove
        <5>2. Cut(v, h) = Nodes[h]
          BY <2>2, <3>1 DEF Cut
        <5> QED
          BY <3>1, <5>1, <5>2
      <4> QED
        BY <1>2, <4>1, <4>2
    <3>3. s \in added' <=> s \in added
      BY <1>2, <2>5 DEF Add, Remove
    <3> QED
      BY <2>1, <2>3, <3>2, <3>3 DEF Present
  <2>6. CASE v = s
    <3>1. Copies(s, h) # {} /\ Cardinality(Copies(s, h)) = 1
      BY AloneCopies
    <3>2. CASE Add(s)
      <4>1. s \notin added
        BY <3>2, <2>3, <2>4 DEF Add, Unknown, Present
      <4>2. Registry'[h] = s /\ Nodes'[h] = 1
        BY <3>1, <3>2, <4>1, <2>2, <2>3 DEF Add, Put, Present
      <4>3. s \in added'
        BY <3>2 DEF Add
      <4> QED
        BY <2>1, <4>2, <4>3 DEF Present
    <3>3. CASE Remove(s)
      <4>1. s \in added
        BY <3>3, <2>3 DEF Remove, Present
      <4>2. Registry'[h] = NoServer /\ Nodes'[h] = 0
        BY <3>1, <3>3, <4>1, <2>2, <2>3 DEF Remove, Cut, Present
      <4>3. s \notin added'
        BY <3>3 DEF Remove
      <4> QED
        BY <2>1, <4>2, <4>3 DEF Present
    <3> QED
      BY <1>2, <2>6, <3>2, <3>3
  <2> QED
    BY <2>5, <2>6
<1> QED
  BY <1>1, <1>2 DEF Next

\* An empty ring has nobody's nodes.
LEMMA BystandersInit ==
  ASSUME Init
  PROVE  BystandersSafe
<1>1. \A s \in Servers, i \in 0..(Replicas - 1) : hash[<<s, i>>] \in Hashes
  BY TypeInit, HashTyped
<1> QED
  BY <1>1 DEF Init, BystandersSafe

\* Colliding servers never harm one that shares no hash with anybody: it is on
\* the ring with all its virtual nodes exactly while it is a member.
THEOREM BystandersSafeHolds == Spec => []BystandersSafe
<1>1. Init => TypeOK /\ BystandersSafe
  BY TypeInit, BystandersInit
<1>2. TypeOK /\ BystandersSafe /\ [Next]_vars => TypeOK' /\ BystandersSafe'
  BY TypeStep, BystandersStep
<1> QED
  BY <1>1, <1>2, PTL DEF Spec

-----------------------------------------------------------------------------
(***************************************************************************)
(* Routing without collisions                                              *)
(***************************************************************************)

\* A hash that no virtual node has is never in the slice.
NoStrays ==
  \A h \in Hashes : (\A s \in Servers : Copies(s, h) = {}) => Nodes[h] = 0

\* Add and Remove touch the hashes of their server only.
LEMMA NoStraysStep ==
  ASSUME TypeOK, NoStrays, [Next]_vars
  PROVE  NoStrays'
<1>1. CASE UNCHANGED vars
  BY <1>1 DEF NoStrays, Copies, vars
<1>2. ASSUME NEW v \in Servers, Add(v) \/ Remove(v)
      PROVE  NoStrays'
  <2>1. hash' = hash
    BY <1>2 DEF Add, Remove
  <2> SUFFICES ASSUME NEW h \in Hashes, \A s \in Servers : Copies(s, h) = {}
               PROVE  Nodes'[h] = 0
    BY <2>1 DEF NoStrays, Copies
  <2>2. Nodes[h] = 0
    BY DEF NoStrays
  <2>3. Cardinality(Copies(v, h)) = 0
    BY FS_EmptySet
  <2>4. CASE Add(v)
    BY <2>2, <2>3, <2>4 DEF Add
  <2>5. CASE Remove(v)
    <3>1. Cut(v, h) = 0
      BY <2>2, <2>3 DEF Cut
    <3> QED
      BY <2>5, <3>1 DEF Remove
  <2> QED
    BY <1>2, <2>4, <2>5
<1> QED
  BY <1>1, <1>2 DEF Next

\* A set of hashes that is not empty has a least one.
LEMMA LeastIsLeast ==
  ASSUME NEW S, S \subseteq Hashes, S # {}
  PROVE  Least(S) \in S /\ \A g \in S : Least(S) <= g
<1> DEFINE Upto(h) == 0..h
           T       == {Upto(h) : h \in S}
<1>1. \A h \in S : h \in Nat
  BY RingAssumption DEF Hashes
<1>2. \A h \in S : Upto(h) \in FiniteSubsetsOf(Nat)
  <2> TAKE h \in S
  <2>1. h \in Int /\ 0 \in Int /\ Upto(h) \in SUBSET Nat
    BY <1>1
  <2>2. IsFiniteSet(Upto(h))
    BY <2>1, FS_Interval
  <2> QED
    BY <2>1, <2>2 DEF FiniteSubsetsOf
<1>3. T \subseteq FiniteSubsetsOf(Nat) /\ T # {}
  BY <1>2
<1>4. PICK x \in T : \A y \in T : ~(<<y, x>> \in StrictSubsetOrdering(Nat))
  <2> HIDE DEF T
  <2>1. IsWellFoundedOn(StrictSubsetOrdering(Nat), FiniteSubsetsOf(Nat))
    BY FS_StrictSubsetOrderingWellFounded
  <2> QED
    BY <1>3, <2>1, WFMin
<1>5. PICK m \in S : x = Upto(m)
  OBVIOUS
<1>6. ASSUME NEW g \in S
      PROVE  m <= g
  <2>1. m \in Nat /\ g \in Nat
    BY <1>1
  <2>2. SUFFICES ASSUME g < m
                 PROVE  FALSE
    BY <2>1
  <2>3. Upto(g) \subseteq Upto(m) /\ m \in Upto(m) \ Upto(g)
    BY <2>1, <2>2
  <2>4. <<Upto(g), Upto(m)>> \in StrictSubsetOrdering(Nat)
    BY <2>1, <2>3 DEF StrictSubsetOrdering
  <2> QED
    BY <1>4, <1>5, <2>4
<1> QED
  BY <1>6 DEF Least

\* Clockwise distance, without the remainder.
LEMMA DistanceValue ==
  ASSUME NEW k \in Hashes, NEW p \in Hashes
  PROVE  Distance(k, p) = IF p >= k THEN p - k ELSE p - k + Space
<1>1. k \in Nat /\ p \in Nat /\ k < Space /\ p < Space /\ Space \in Nat /\ Space > 0
  BY RingAssumption DEF Hashes
<1>2. CASE p >= k
  <2>1. p - k \in 0..(Space - 1)
    BY <1>1, <1>2
  <2> QED
    BY <1>1, <1>2, <2>1 DEF Distance
<1>3. CASE p < k
  <2>1. p - k + Space \in 0..(Space - 1)
    BY <1>1, <1>3
  <2>2. (p - k) % Space = (p - k + Space) % Space
    BY <1>1
  <2> QED
    BY <1>1, <1>3, <2>1, <2>2 DEF Distance
<1> QED
  BY <1>1, <1>2, <1>3

\* sort.Search and the wrap to index 0 find the nearest point clockwise.
LEMMA SearchNearest ==
  ASSUME TypeOK, NEW k \in Hashes, Points # {}
  PROVE  Search(k) \in Points /\ \A q \in Points : Distance(k, Search(k)) <= Distance(k, q)
<1>1. Points \subseteq Hashes /\ Above(k) \subseteq Points
  BY DEF Points, Above
<1>2. \A h \in Hashes : h \in Nat /\ h < Space
  BY RingAssumption DEF Hashes
<1>3. Space \in Nat
  BY RingAssumption
<1>4. CASE Above(k) # {}
  <2> DEFINE p == Least(Above(k))
  <2>1. p \in Above(k) /\ \A g \in Above(k) : p <= g
    BY <1>1, <1>4, LeastIsLeast
  <2>2. Search(k) = p /\ p \in Points /\ p >= k
    BY <1>4, <2>1 DEF Search, Above
  <2> HIDE DEF p
  <2>3. ASSUME NEW q \in Points
        PROVE  Distance(k, p) <= Distance(k, q)
    <3>1. p \in Hashes /\ q \in Hashes
      BY <1>1, <2>2
    <3>2. q >= k => p <= q
      BY <2>1 DEF Above
    <3> QED
      BY <1>2, <1>3, <2>2, <3>1, <3>2, DistanceValue
  <2> QED
    BY <2>2, <2>3
<1>5. CASE Above(k) = {}
  <2> DEFINE p == Least(Points)
  <2>1. p \in Points /\ \A g \in Points : p <= g
    BY <1>1, LeastIsLeast
  <2>2. Search(k) = p
    BY <1>5 DEF Search
  <2> HIDE DEF p
  <2>3. ASSUME NEW q \in Points
        PROVE  Distance(k, p) <= Distance(k, q)
    <3>1. p \in Hashes /\ q \in Hashes
      BY <1>1, <2>1
    <3>2. ~(p >= k) /\ ~(q >= k) /\ p <= q
      BY <1>5, <2>1 DEF Above
    <3> QED
      BY <1>2, <1>3, <3>1, <3>2, DistanceValue
  <2> QED
    BY <2>1, <2>2, <2>3
<1> QED
  BY <1>4, <1>5

\* Without collisions the points are the virtual nodes of the members, and each
\* leads to its server.
LEMMA PointsOfMembers ==
  ASSUME TypeOK, BystandersSafe, NoStrays, Distinct
  PROVE  /\ \A s \in added, i \in 0..(Replicas - 1) : hash[<<s, i>>] \in Points
         /\ \A h \in Points : \E s \in added, i \in 0..(Replicas - 1) :
              h = hash[<<s, i>>] /\ Registry[h] = s
<1>1. \A s \in Servers : Alone(s)
  BY DEF Distinct, Alone
<1>2. added \subseteq Servers
  BY DEF TypeOK
<1>3. ASSUME NEW s \in added, NEW i \in 0..(Replicas - 1)
      PROVE  hash[<<s, i>>] \in Points
  <2>1. hash[<<s, i>>] \in Hashes
    BY <1>2, HashTyped
  <2>2. Nodes[hash[<<s, i>>]] = 1
    BY <1>1, <1>2 DEF BystandersSafe
  <2> QED
    BY <2>1, <2>2 DEF Points
<1>4. ASSUME NEW h \in Points
      PROVE  \E s \in added, i \in 0..(Replicas - 1) : h = hash[<<s, i>>] /\ Registry[h] = s
  <2>1. h \in Hashes /\ Nodes[h] # 0
    BY DEF Points, TypeOK
  <2>2. PICK s \in Servers : Copies(s, h) # {}
    BY <2>1 DEF NoStrays
  <2>3. PICK i \in 0..(Replicas - 1) : h = hash[<<s, i>>]
    BY <2>2 DEF Copies
  <2>4. s \in added /\ Registry[h] = s
    BY <1>1, <2>1, <2>3 DEF BystandersSafe
  <2> QED
    BY <2>3, <2>4
<1> QED
  BY <1>3, <1>4

\* The members alone decide where a key goes.
LEMMA OwnerFromMembers ==
  ASSUME TypeOK, BystandersSafe, NoStrays
  PROVE  RoutesToOwner
<1> SUFFICES ASSUME Distinct, NEW k \in Hashes
             PROVE  IF added = {} THEN Get(k) = NoServer
                    ELSE Get(k) \in added /\ Nearest(k, Get(k))
  BY DEF RoutesToOwner
<1>1. CASE added = {}
  <2>1. Points = {}
    BY <1>1, PointsOfMembers
  <2> QED
    BY <1>1, <2>1 DEF Get
<1>2. CASE added # {}
  <2>1. Points # {}
    BY <1>2, PointsOfMembers, FirstReplica
  <2>2. Search(k) \in Points /\ \A q \in Points : Distance(k, Search(k)) <= Distance(k, q)
    BY <2>1, SearchNearest
  <2>3. PICK s \in added, i \in 0..(Replicas - 1) :
          Search(k) = hash[<<s, i>>] /\ Registry[Search(k)] = s
    BY <2>2, PointsOfMembers
  <2>4. Get(k) = s
    BY <2>1, <2>3 DEF Get
  <2>5. \A v \in added, j \in 0..(Replicas - 1) :
          Distance(k, hash[<<s, i>>]) <= Distance(k, hash[<<v, j>>])
    BY <2>2, <2>3, PointsOfMembers
  <2> QED
    BY <1>2, <2>4, <2>5 DEF Nearest
<1> QED
  BY <1>1, <1>2

\* What the ring is known to be at any time.
RingInv == TypeOK /\ BystandersSafe /\ NoStrays

LEMMA RingInvariant == Spec => []RingInv
<1>1. Init => RingInv
  BY TypeInit, BystandersInit DEF Init, NoStrays, RingInv
<1>2. RingInv /\ [Next]_vars => RingInv'
  BY TypeStep, BystandersStep, NoStraysStep DEF RingInv
<1> QED
  BY <1>1, <1>2, PTL DEF Spec

\* Whatever was added and removed before, a key goes to the member whose virtual
\* node is nearest clockwise: servers whose rings have the same members agree.
THEOREM RoutesToOwnerHolds == Spec => []RoutesToOwner
<1>1. RingInv => RoutesToOwner
  BY OwnerFromMembers DEF RingInv
<1> QED
  BY <1>1, RingInvariant, PTL

-----------------------------------------------------------------------------
(***************************************************************************)
(* What a change of the members moves                                      *)
(***************************************************************************)

\* Where the points are and which of them Search finds, without collisions.
Routed ==
  /\ \A s \in added, i \in 0..(Replicas - 1) : hash[<<s, i>>] \in Points
  /\ \A h \in Points : \E s \in added, i \in 0..(Replicas - 1) :
       h = hash[<<s, i>>] /\ Registry[h] = s
  /\ \A k \in Hashes : Points # {} =>
       Search(k) \in Points /\ \A q \in Points : Distance(k, Search(k)) <= Distance(k, q)

LEMMA RoutedNow == RingInv /\ Distinct => Routed
BY PointsOfMembers, SearchNearest DEF RingInv, Routed

LEMMA RoutedNext == RingInv' /\ Distinct' => Routed'
BY RoutedNow, PTL

LEMMA DistanceInjective ==
  ASSUME NEW k \in Hashes, NEW p \in Hashes, NEW q \in Hashes,
         Distance(k, p) <= Distance(k, q), Distance(k, q) <= Distance(k, p)
  PROVE  p = q
<1>1. \A h \in Hashes : h \in Nat /\ h < Space
  BY RingAssumption DEF Hashes
<1> QED
  BY <1>1, DistanceValue, RingAssumption

\* A point that is there before and after a step, and is found before or after,
\* is found both times if what is found the other time is there both times too.
LEMMA SameOwner ==
  ASSUME Routed, Routed', Distinct, UNCHANGED hash, TypeOK, TypeOK', NEW k \in Hashes,
         Points # {}, Points' # {}, Search(k) \in Points', Search(k)' \in Points
  PROVE  Get(k)' = Get(k)
<1>1. /\ Search(k) \in Points /\ \A q \in Points : Distance(k, Search(k)) <= Distance(k, q)
      /\ Search(k)' \in Points'
      /\ \A q \in Points' : Distance(k, Search(k)') <= Distance(k, q)
  BY DEF Routed, Distance
<1>2. Search(k) \in Hashes /\ Search(k)' \in Hashes
  BY <1>1 DEF Points
<1>3. Search(k)' = Search(k)
  BY <1>1, <1>2, DistanceInjective
<1> DEFINE p == Search(k)
<1>4. PICK s \in added, i \in 0..(Replicas - 1) : p = hash[<<s, i>>] /\ Registry[p] = s
  BY <1>1 DEF Routed
<1>5. PICK v \in added', j \in 0..(Replicas - 1) : p = hash[<<v, j>>] /\ Registry'[p] = v
  BY <1>1, <1>3 DEF Routed
<1>6. Get(k) = s /\ Get(k)' = v
  BY <1>3, <1>4, <1>5 DEF Get
<1> HIDE DEF p
<1>7. s = v
  <2>1. <<s, i>> \in Identities /\ <<v, j>> \in Identities
    BY <1>4, <1>5 DEF Identities, TypeOK
  <2>2. <<s, i>> = <<v, j>>
    BY <1>4, <1>5, <2>1 DEF Distinct
  <2> QED
    BY <2>2
<1> QED
  BY <1>6, <1>7

\* Add moves keys to the server it adds, and no others.
LEMMA AddMoves ==
  ASSUME RingInv, RingInv', Distinct, NEW v \in Servers, Add(v), NEW k \in Hashes,
         Get(k)' # Get(k)
  PROVE  Get(k)' \in added' \ added
<1>1. TypeOK /\ TypeOK' /\ UNCHANGED hash /\ added \subseteq added' /\ added' # {}
  BY DEF RingInv, Add
<1>2. Routed /\ Routed'
  BY <1>1, RoutedNow, RoutedNext DEF Distinct
<1>3. Points \subseteq Points'
  <2> SUFFICES ASSUME NEW h \in Points
               PROVE  h \in Points'
    OBVIOUS
  <2>1. PICK s \in added, i \in 0..(Replicas - 1) : h = hash[<<s, i>>]
    BY <1>2 DEF Routed
  <2>2. s \in added' /\ hash'[<<s, i>>] = h
    BY <1>1, <2>1
  <2> QED
    BY <1>2, <2>2 DEF Routed
<1>4. Points' # {}
  BY <1>1, <1>2, FirstReplica DEF Routed
<1>5. Search(k)' \in Points'
  BY <1>2, <1>4 DEF Routed
<1>6. PICK s \in added', i \in 0..(Replicas - 1) :
        Search(k)' = hash'[<<s, i>>] /\ Registry'[Search(k)'] = s
  BY <1>2, <1>5 DEF Routed
<1>7. Get(k)' = s
  BY <1>4, <1>6 DEF Get
<1>8. ASSUME s \in added
      PROVE  FALSE
  <2>1. Search(k)' \in Points
    BY <1>1, <1>2, <1>6, <1>8 DEF Routed
  <2>2. Search(k) \in Points'
    BY <1>2, <1>3, <2>1 DEF Routed
  <2> QED
    BY <1>1, <1>2, <1>4, <2>1, <2>2, SameOwner
<1> QED
  BY <1>6, <1>7, <1>8

\* Remove moves the keys of the server it removes, and no others.
LEMMA RemoveMoves ==
  ASSUME RingInv, RingInv', Distinct, NEW v \in Servers, Remove(v), NEW k \in Hashes,
         Get(k)' # Get(k)
  PROVE  Get(k) \in added \ added'
<1>1. TypeOK /\ TypeOK' /\ UNCHANGED hash /\ added' \subseteq added
  BY DEF RingInv, Remove
<1>2. Routed /\ Routed'
  BY <1>1, RoutedNow, RoutedNext DEF Distinct
<1>3. Points' \subseteq Points
  <2> SUFFICES ASSUME NEW h \in Points'
               PROVE  h \in Points
    OBVIOUS
  <2>1. PICK s \in added', i \in 0..(Replicas - 1) : h = hash'[<<s, i>>]
    BY <1>2 DEF Routed
  <2>2. s \in added /\ hash[<<s, i>>] = h
    BY <1>1, <2>1
  <2> QED
    BY <1>2, <2>2 DEF Routed
<1>4. Points # {}
  <2>1. ASSUME Points = {}
        PROVE  FALSE
    BY <1>3, <2>1 DEF Get
  <2> QED
    BY <2>1
<1>5. Search(k) \in Points
  BY <1>2, <1>4 DEF Routed
<1>6. PICK s \in added, i \in 0..(Replicas - 1) :
        Search(k) = hash[<<s, i>>] /\ Registry[Search(k)] = s
  BY <1>2, <1>5 DEF Routed
<1>7. Get(k) = s
  BY <1>4, <1>6 DEF Get
<1>8. ASSUME s \in added'
      PROVE  FALSE
  <2>1. Search(k) \in Points'
    BY <1>1, <1>2, <1>6, <1>8 DEF Routed
  <2>2. Search(k)' \in Points
    BY <1>2, <1>3, <2>1 DEF Routed
  <2> QED
    BY <1>1, <1>2, <1>4, <2>1, <2>2, SameOwner
<1> QED
  BY <1>6, <1>7, <1>8

\* Adding a server takes keys to it, removing it takes its keys away, and no
\* other key moves, whatever Add and Remove did before.
THEOREM LittleMovesHolds == Spec => LittleMoves
<1> DEFINE Moves(k) ==
      Get(k)' # Get(k) => Get(k)' \in added' \ added \/ Get(k) \in added \ added'
<1>1. ASSUME RingInv, RingInv', [Next]_vars, Distinct, NEW k \in Hashes
      PROVE  Moves(k)
  <2>1. CASE UNCHANGED vars
    BY <2>1 DEF vars, Get, Search, Above, Points
  <2>2. ASSUME NEW v \in Servers, Add(v)
        PROVE  Moves(k)
    BY <1>1, <2>2, AddMoves
  <2>3. ASSUME NEW v \in Servers, Remove(v)
        PROVE  Moves(k)
    BY <1>1, <2>3, RemoveMoves
  <2> QED
    BY <1>1, <2>1, <2>2, <2>3 DEF Next
<1>2. RingInv /\ RingInv' /\ [Next]_vars => [Distinct => \A k \in Hashes : Moves(k)]_vars
  BY <1>1
<1> QED
  BY <1>2, RingInvariant, PTL DEF Spec, LittleMoves
=============================================================================

------------------------------ MODULE HashRing ------------------------------
(***************************************************************************)
(* The consistent hash ring of internal/hashing/consistent.go.  Add, Get   *)
(* and Remove each hold r.mu from beginning to end, so each is one step.   *)
(* Nodes is a sorted slice: Add sorts it and Remove keeps the order, so it *)
(* is modelled as a bag.  CRC-32 is some function; Init chooses it, and it *)
(* may well give two virtual nodes the same hash.                          *)
(***************************************************************************)
EXTENDS Integers, FiniteSets

CONSTANTS
  Servers,   \* server addresses
  NoServer,  \* the empty string
  Replicas,  \* virtual nodes per server
  Space,     \* bound: how many hashes there are, 2^32 in the code
  Hashings,  \* bound: the hash functions that are considered
  MaxCopies  \* bound: how often a hash is in the slice

Hashes     == 0..(Space - 1)
Identities == Servers \X (0..(Replicas - 1))  \* node + "#" + strconv.Itoa(i)

ASSUME RingAssumption ==
  /\ Replicas \in Nat \ {0} /\ Space \in Nat \ {0} /\ MaxCopies \in Nat
  /\ Hashings \subseteq [Identities -> Hashes]
  /\ NoServer \notin Servers

VARIABLES
  hash,      \* crc32.ChecksumIEEE on the identities
  Nodes,     \* hash -> how often it is in the slice
  Registry,  \* hash -> server, or NoServer where the map has no entry
  added      \* history: the servers that were added and not removed since

vars == <<hash, Nodes, Registry, added>>

TypeOK ==
  /\ hash \in [Identities -> Hashes]
  /\ Nodes \in [Hashes -> Nat]
  /\ Registry \in [Hashes -> Servers \cup {NoServer}]
  /\ added \in SUBSET Servers

Init ==
  /\ hash \in Hashings
  /\ Nodes = [h \in Hashes |-> 0]
  /\ Registry = [h \in Hashes |-> NoServer]
  /\ added = {}

-----------------------------------------------------------------------------
\* Mutant: Add does not look whether the server is known.
UnknownMutant(s) == TRUE

\* Add looks for the first virtual node only, and Remove does.
Unknown(s) == Registry[hash[<<s, 0>>]] = NoServer

\* The replicas of s with hash h.
Copies(s, h) == {i \in 0..(Replicas - 1) : hash[<<s, i>>] = h}

\* Mutant: the last virtual node is not registered.
PutMutant(s, h) == IF Copies(s, h) \ {Replicas - 1} # {} THEN s ELSE Registry[h]

\* The loop of Add, for one hash.
Put(s, h) == IF Copies(s, h) # {} THEN s ELSE Registry[h]

\* A server whose first virtual node is known is not added: Add returns false.
Add(s) ==
  /\ Unknown(s)
  /\ Registry' = [h \in Hashes |-> Put(s, h)]
  /\ Nodes' = [h \in Hashes |-> Nodes[h] + Cardinality(Copies(s, h))]
  /\ \A h \in Hashes : Nodes'[h] <= MaxCopies
  /\ added' = added \cup {s}
  /\ UNCHANGED hash

\* Mutant: an occurrence is cut out whether there is one or not.
CutMutant(s, h) == Nodes[h] - Cardinality(Copies(s, h))

\* Each round of Remove cuts the first occurrence out, if there is one.
Cut(s, h) ==
  LET c == Cardinality(Copies(s, h)) IN IF Nodes[h] > c THEN Nodes[h] - c ELSE 0

Remove(s) ==
  /\ Registry[hash[<<s, 0>>]] # NoServer
  /\ Registry' = [h \in Hashes |-> IF Copies(s, h) # {} THEN NoServer ELSE Registry[h]]
  /\ Nodes' = [h \in Hashes |-> Cut(s, h)]
  /\ added' = added \ {s}
  /\ UNCHANGED hash

Next == \E s \in Servers : Add(s) \/ Remove(s)

Spec == Init /\ [][Next]_vars

-----------------------------------------------------------------------------
Points == {h \in Hashes : Nodes[h] > 0}

Least(S) == CHOOSE h \in S : \A g \in S : h <= g

\* Mutant: > in place of >=.
AboveMutant(k) == {h \in Points : h > k}

Above(k) == {h \in Points : h >= k}

\* sort.Search, and idx = 0 when it finds nothing.
Search(k) == IF Above(k) # {} THEN Least(Above(k)) ELSE Least(Points)

\* The server for a key with hash k.
Get(k) == IF Points = {} THEN NoServer ELSE Registry[Search(k)]

-----------------------------------------------------------------------------
(***************************************************************************)
(* Properties                                                              *)
(***************************************************************************)

Distinct == \A x, y \in Identities : hash[x] = hash[y] => x = y

\* How far clockwise hash p is from hash k.
Distance(k, p) == (p - k) % Space

Nearest(k, s) ==
  \E i \in 0..(Replicas - 1) : \A v \in added, j \in 0..(Replicas - 1) :
    Distance(k, hash[<<s, i>>]) <= Distance(k, hash[<<v, j>>])

\* If no two virtual nodes share a hash, Get returns the one member that is
\* nearest clockwise, whatever has been added and removed before: rings with the
\* same members agree on every key.
RoutesToOwner ==
  Distinct => \A k \in Hashes :
    IF added = {} THEN Get(k) = NoServer
    ELSE Get(k) \in added /\ Nearest(k, Get(k))

\* Adding a server takes keys to it, removing it takes its keys away, and no
\* other key moves.
LittleMoves ==
  [][Distinct => \A k \in Hashes :
       Get(k)' # Get(k) => Get(k)' \in added' \ added \/ Get(k) \in added \ added']_vars

\* Two servers with a common hash overwrite and delete each other's entries, but
\* not those of a third one that shares no hash with anybody: its virtual nodes
\* are there exactly while it is a member.
Alone(s) ==
  \A x, y \in Identities : x[1] = s /\ hash[x] = hash[y] => x = y

BystandersSafe ==
  \A s \in Servers : Alone(s) =>
    \A i \in 0..(Replicas - 1) :
      LET h == hash[<<s, i>>] IN
      IF s \in added THEN Registry[h] = s /\ Nodes[h] = 1
                     ELSE Registry[h] = NoServer /\ Nodes[h] = 0
=============================================================================

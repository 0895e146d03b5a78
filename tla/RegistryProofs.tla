---------------------------- MODULE RegistryProofs ----------------------------
(***************************************************************************)
(* What the registry is worth to any number of requests about any number   *)
(* of servers, with any number of failing statements and restarts.         *)
(*                                                                         *)
(* The argument: on a server where no two operations met there is one      *)
(* operation at most, and its location says how far list, map, stop        *)
(* function and goroutines agree (Agreed), how far the runtime is what is  *)
(* stored (InStep), and whose tasks are kept (Inherits).  Whatever is done *)
(* for a server goes by runtimes of its own id (Owned), so that it leaves  *)
(* the others alone.                                                       *)
(***************************************************************************)
EXTENDS Registry, FiniteSetTheorems, SequenceTheorems, WellFoundedInduction, TLAPS

Building == {"add", "evict", "insert", "cancelThenInsert", "start"}
Stages == Building \cup {"idle", "create", "update", "secret", "save", "readBack",
                         "delete", "clear", "remove", "cancel", "scoped", "task"}

RequestType == [at : Stages, id : Ids \cup {None}, blank : BOOLEAN, row : RowType,
                rt : Nat]

\* TypeOK, and what it leaves out.
Typed ==
  /\ TypeOK
  /\ req \in [Requests -> RequestType]
  /\ saves \in Nat
  /\ crossed \cup failed \subseteq dirty
  /\ ~running => toStart = <<>>
  /\ \A r \in Requests : /\ req[r].at # "idle" => req[r].id \in Ids
                         /\ req[r].at = "create" => ~req[r].blank

\* A runtime is filed, cancelled and started under its own id.
Owned ==
  /\ \A id \in Ids : /\ byID[id] # None => IdOf(byID[id]) = id
                     /\ stop[id] # None => IdOf(stop[id]) = id
  /\ \A r \in Requests :
       /\ req[r].at \in Building \cup {"task"} =>
            req[r].rt \in DOMAIN runtimes /\ IdOf(req[r].rt) = req[r].id
       /\ req[r].at \in {"cancel", "cancelThenInsert"} /\ req[r].row.version # None =>
            /\ req[r].row.version \in DOMAIN runtimes
            /\ IdOf(req[r].row.version) = req[r].id

\* There is one operation on the server at most, and none while Run is to start it.
Awaited(id) == \E i \in DOMAIN toStart : IdOf(toStart[i]) = id

Alone(id) ==
  /\ \A r, s \in Active(id) : r = s
  /\ Awaited(id) => Active(id) = {}

\* The list has what the map has, once, and so has what Run took of it.
Once(list, id) ==
  \A i \in DOMAIN list : IdOf(list[i]) = id =>
    /\ list[i] = byID[id]
    /\ \A j \in DOMAIN list : IdOf(list[j]) = id => i = j

Filed(id) ==
  /\ Once(ordered, id) /\ Once(toStart, id)
  /\ byID[id] # None => \E i \in DOMAIN ordered : ordered[i] = byID[id]

\* What runs, by how far the operation is.
Dormant(id) == Alive(id) = {} /\ stop[id] = None

Alight(id) ==
  /\ \A r \in Active(id) :
       /\ req[r].at \in {"cancel", "cancelThenInsert"} =>
            byID[id] = None /\ stop[id] = None /\ Alive(id) \subseteq {req[r].row.version}
       /\ req[r].at = "insert" => byID[id] = None
       /\ req[r].at = "start" => running /\ byID[id] = req[r].rt /\ Dormant(id)
  /\ (\A r \in Active(id) : req[r].at \notin {"cancel", "cancelThenInsert", "start"}) =>
       IF byID[id] = None \/ ~running \/ Awaited(id) THEN Dormant(id)
       ELSE Alive(id) = {byID[id]} /\ stop[id] = byID[id]

Agreed == \A id \in Ids \ crossed : Alone(id) /\ Filed(id) /\ Alight(id)

\* The runtime is built from the stored row, unless an operation is about it.
AsStored(id) ==
  IF rows[id].secret
  THEN byID[id] # None /\ runtimes[byID[id]].version = rows[id].version
  ELSE byID[id] = None

Follows(id) ==
  /\ (\A r \in Active(id) : req[r].at \in {"create", "update", "secret", "save", "delete",
                                           "scoped", "task"})
       => AsStored(id)
  /\ \A r \in Active(id) :
       /\ req[r].at = "save" /\ req[r].blank => req[r].row.secret = rows[id].secret
       /\ req[r].at = "readBack" => rows[id].secret \/ byID[id] = None
       /\ req[r].at \in Building =>
            rows[id].secret /\ runtimes[req[r].rt].version = rows[id].version
       /\ req[r].at \in {"clear", "remove", "cancel"} => rows[id] = NoRow

InStep == \A id \in Ids \ (crossed \cup failed) : Follows(id)

\* The tasks are of the server the row is of, unless they are being cleared; and
\* so is the runtime in whose name they are saved.
OfRow(id, rt) == rows[id] # NoRow /\ runtimes[rt].since = rows[id].since

Descends(id) ==
  /\ (\A r \in Active(id) : req[r].at # "clear") =>
       kept[id] \subseteq IF rows[id] = NoRow THEN {} ELSE {rows[id].since}
  /\ byID[id] # None /\ (\A r \in Active(id) : req[r].at \notin {"clear", "remove"})
       => OfRow(id, byID[id])
  /\ \A r \in Active(id) : req[r].at \in Building \cup {"task"} => OfRow(id, req[r].rt)

Inherits == \A id \in Ids \ dirty : Descends(id)

Inv == Typed /\ Owned /\ Agreed /\ InStep /\ Inherits
-----------------------------------------------------------------------------
(***************************************************************************)
(* Numbers, lists and the order the servers come up in.                    *)
(***************************************************************************)

\* A set of natural numbers has a smallest one.
LEMMA Smallest ==
  ASSUME NEW S \in SUBSET Nat, S # {}
  PROVE  Min(S) \in S /\ \A y \in S : Min(S) <= y
<1> DEFINE Below == OpToRel(<, Nat)
<1>1. IsWellFoundedOn(Below, Nat)
  BY NatLessThanWellFounded
<1>2. \E x \in S : \A y \in S : <<y, x>> \notin Below
  <2> HIDE DEF Below
  <2>1. QED
    BY <1>1, WFMin
<1>3. ASSUME NEW x \in S, NEW y \in S, y < x
      PROVE  <<y, x>> \in Below
  BY <1>3 DEF OpToRel
<1>4. \E x \in S : \A y \in S : x <= y
  <2> HIDE DEF Below
  <2>1. PICK x \in S : \A y \in S : <<y, x>> \notin Below
    BY <1>2
  <2>2. \A y \in S : ~(y < x)
    BY <2>1, <1>3
  <2>3. QED
    BY <2>2
<1>5. QED
  BY <1>4 DEF Min

LEMMA FunctionIsList ==
  ASSUME NEW S, NEW n \in Nat, NEW f \in [1..n -> S]
  PROVE  f \in Seq(S)
BY SeqDef

\* What is left of a list.
LEMMA Removing ==
  ASSUME NEW S, NEW s \in Seq(S), NEW k \in 1..Len(s)
  PROVE  /\ RemoveAt(s, k) \in Seq(S)
         /\ Len(RemoveAt(s, k)) = Len(s) - 1
         /\ \A i \in 1..(Len(s) - 1) :
              RemoveAt(s, k)[i] = IF i < k THEN s[i] ELSE s[i + 1]
<1> DEFINE a == SubSeq(s, 1, k - 1)
           b == SubSeq(s, k + 1, Len(s))
<1>1. /\ a \in Seq(S) /\ Len(a) = k - 1
      /\ \A i \in 1..(k - 1) : a[i] = s[i]
  BY SubSeqProperties
<1>2. /\ b \in Seq(S) /\ Len(b) = Len(s) - k
      /\ \A i \in 1..(Len(s) - k) : b[i] = s[k + i]
  BY SubSeqProperties
<1>3. /\ a \o b \in Seq(S) /\ Len(a \o b) = Len(a) + Len(b)
      /\ \A i \in 1..(Len(a) + Len(b)) :
           (a \o b)[i] = IF i <= Len(a) THEN a[i] ELSE b[i - Len(a)]
  BY <1>1, <1>2, ConcatProperties
<1> HIDE DEF a, b
<1>4. Len(a \o b) = Len(s) - 1
  BY <1>1, <1>2, <1>3
<1>5. ASSUME NEW i \in 1..(Len(s) - 1)
      PROVE  (a \o b)[i] = IF i < k THEN s[i] ELSE s[i + 1]
  <2>1. CASE i < k
    BY <2>1, <1>1, <1>2, <1>3
  <2>2. CASE i >= k
    <3>1. (a \o b)[i] = b[i - (k - 1)] /\ i - (k - 1) \in 1..(Len(s) - k)
      BY <2>2, <1>1, <1>2, <1>3
    <3>2. b[i - (k - 1)] = s[k + (i - (k - 1))] /\ k + (i - (k - 1)) = i + 1
      BY <3>1, <1>2
    <3>3. QED
      BY <2>2, <3>1, <3>2
  <2>3. i < k \/ i >= k
    BY LenProperties
  <2>4. QED
    BY <2>1, <2>2, <2>3
<1>6. QED
  BY <1>3, <1>4, <1>5 DEF RemoveAt, a, b

\* What comes up has one place each, and every place somebody.
LEMMA Ranking ==
  ASSUME NEW table \in [Ids -> RowType]
  PROVE  /\ Cardinality(Loadable(table)) \in Nat
         /\ \A id \in Loadable(table) : Place(table, id) \in Places(table)
         /\ \A a, b \in Loadable(table) : Place(table, a) = Place(table, b) => a = b
         /\ \A i \in Places(table) : \E id \in Loadable(table) : Place(table, id) = i
<1> DEFINE L == Loadable(table)
           Upto(id) == {x \in L : x = id \/ Precedes(table, x, id)}
           place == [id \in L |-> Place(table, id)]
<1>1. L \subseteq Ids /\ L \subseteq Nat /\ IsFiniteSet(L) /\ Cardinality(L) \in Nat
  BY RegistryAssumption, FS_Subset, FS_CardinalityType DEF Loadable
<1>2. ASSUME NEW id \in L
      PROVE  /\ IsFiniteSet(Upto(id)) /\ Cardinality(Upto(id)) \in Nat \ {0}
             /\ Cardinality(Upto(id)) <= Cardinality(L)
  <2>1. Upto(id) \subseteq L /\ Upto(id) # {}
    BY <1>2
  <2> HIDE DEF Upto, L
  <2>2. QED
    BY <2>1, <1>1, FS_Subset, FS_EmptySet, FS_CardinalityType
<1>3. ASSUME NEW a \in L, NEW b \in L, a # b
      PROVE  Cardinality(Upto(a)) # Cardinality(Upto(b))
  <2>1. ASSUME NEW x \in L, NEW y \in L, Precedes(table, x, y), x # y
        PROVE  Upto(x) \subseteq Upto(y) /\ y \notin Upto(x) /\ y \in Upto(y)
    BY <1>1, <2>1 DEF Precedes, RowType
  <2>2. Precedes(table, a, b) \/ Precedes(table, b, a)
    BY <1>1, <1>3 DEF Precedes, RowType
  <2>3. ASSUME NEW x \in L, NEW y \in L, Precedes(table, x, y), x # y
        PROVE  Cardinality(Upto(x)) # Cardinality(Upto(y))
    <3>1. Upto(x) \subseteq Upto(y) /\ Upto(x) # Upto(y) /\ IsFiniteSet(Upto(y))
      BY <2>1, <2>3, <1>2
    <3> HIDE DEF Upto
    <3>2. QED
      BY <3>1, FS_Subset, FS_CardinalityType
  <2>4. QED
    BY <1>3, <2>2, <2>3
<1>4. \A id \in L : Place(table, id) = Cardinality(Upto(id))
  BY DEF Place
<1>5. \A id \in L : Place(table, id) \in 1..Cardinality(L)
  <2> HIDE DEF L, Upto
  <2>1. QED
    BY <1>1, <1>2, <1>4
<1>6. \A a, b \in L : Place(table, a) = Place(table, b) => a = b
  BY <1>3, <1>4
<1> HIDE DEF L, Upto
<1>7. place \in Injection(L, 1..Cardinality(L))
  BY <1>5, <1>6 DEF Injection, IsInjective
<1>8. IsFiniteSet(1..Cardinality(L)) /\ Cardinality(1..Cardinality(L)) = Cardinality(L)
  BY <1>1, FS_Interval
<1>9. place \in Surjection(L, 1..Cardinality(L))
  <2> HIDE DEF place
  <2>1. QED
    BY <1>7, <1>8, FS_Injection
<1>10. \A i \in 1..Cardinality(L) : \E id \in L : Place(table, id) = i
  BY <1>9 DEF Surjection
<1>11. QED
  BY <1>1, <1>5, <1>6, <1>10 DEF L, Places

\* What list, map and runtimes are after loadServers.
Loaded(table, built, map, list) ==
  /\ built \in Seq([id : Ids, version : Nat, since : Nat])
  /\ list \in Seq(DOMAIN built) /\ DOMAIN list = DOMAIN built
  /\ \A i \in DOMAIN list : list[i] = i
  /\ map \in [Ids -> {None} \cup DOMAIN built]
  /\ \A id \in Ids : map[id] # None <=> table[id].secret
  /\ \A id \in Ids : map[id] # None =>
       /\ built[map[id]].id = id
       /\ built[map[id]].version = table[id].version
       /\ built[map[id]].since = table[id].since
       /\ table[id] # NoRow
  /\ \A i \in DOMAIN built : map[built[i].id] = i

LEMMA Loading ==
  ASSUME NEW table \in [Ids -> RowType]
  PROVE  Loaded(table, RuntimesOf(table), MapOf(table), ListOf(table))
<1> DEFINE who(i) == CHOOSE x \in Loadable(table) : Place(table, x) = i
<1>1. \A i \in Places(table) : who(i) \in Loadable(table) /\ Place(table, who(i)) = i
  BY Ranking
<1>2. \A id \in Loadable(table) : Place(table, id) \in Places(table) /\ who(Place(table, id)) = id
  BY Ranking
<1>3. Loadable(table) \subseteq Ids /\ \A id \in Ids : id \in Loadable(table) <=> table[id].secret
  BY DEF Loadable
<1>4. RuntimesOf(table) = [i \in Places(table) |-> Built(who(i), table[who(i)])]
  BY DEF RuntimesOf
<1> HIDE DEF who
<1>5. \A i \in Places(table) : Built(who(i), table[who(i)]) \in [id : Ids, version : Nat, since : Nat]
  BY <1>1, <1>3 DEF Built, RowType
<1>6. Places(table) = 1..Cardinality(Loadable(table)) /\ Cardinality(Loadable(table)) \in Nat
  BY Ranking DEF Places
<1>7. RuntimesOf(table) \in Seq([id : Ids, version : Nat, since : Nat])
  <2>1. RuntimesOf(table)
          \in [1..Cardinality(Loadable(table)) -> [id : Ids, version : Nat, since : Nat]]
    BY <1>4, <1>5, <1>6
  <2>2. QED
    BY <1>6, <2>1, FunctionIsList
<1>8. DOMAIN RuntimesOf(table) = Places(table)
  BY <1>4
<1>9. ListOf(table) \in Seq(Places(table)) /\ DOMAIN ListOf(table) = Places(table)
  BY <1>6, IsASeq DEF ListOf
<1>10. MapOf(table) \in [Ids -> {None} \cup Places(table)]
  BY <1>2 DEF MapOf
<1>11. \A id \in Ids : MapOf(table)[id] # None <=> table[id].secret
  BY <1>2, <1>3, <1>6 DEF MapOf, None
<1>12. ASSUME NEW id \in Ids, MapOf(table)[id] # None
       PROVE  /\ RuntimesOf(table)[MapOf(table)[id]].id = id
              /\ RuntimesOf(table)[MapOf(table)[id]].version = table[id].version
              /\ RuntimesOf(table)[MapOf(table)[id]].since = table[id].since
              /\ table[id] # NoRow
  <2>1. id \in Loadable(table) /\ MapOf(table)[id] = Place(table, id)
    BY <1>12 DEF MapOf
  <2>2. RuntimesOf(table)[MapOf(table)[id]] = Built(id, table[id])
    BY <2>1, <1>2, <1>4
  <2>3. table[id].secret # NoRow.secret
    BY <2>1, <1>3 DEF NoRow
  <2>4. QED
    BY <2>2, <2>3 DEF Built
<1>13. ASSUME NEW i \in Places(table)
       PROVE  MapOf(table)[RuntimesOf(table)[i].id] = i
  BY <1>1, <1>3, <1>4 DEF MapOf, Built
<1>14. QED
  BY <1>7, <1>8, <1>9, <1>10, <1>11, <1>12, <1>13 DEF ListOf, Loaded
-----------------------------------------------------------------------------
(***************************************************************************)
(* Coming up.                                                              *)
(***************************************************************************)

Fresh ==
  /\ rows \in [Ids -> RowType]
  /\ runtimes = RuntimesOf(rows) /\ byID = MapOf(rows) /\ ordered = ListOf(rows)
  /\ stop = [id \in Ids |-> None] /\ running = FALSE /\ toStart = <<>> /\ live = {}
  /\ req = [r \in Requests |-> Idle]
  /\ kept \in [Ids -> SUBSET Nat] /\ saves \in Nat
  /\ crossed = {} /\ failed = {} /\ dirty \subseteq Ids
  /\ \A id \in Ids \ dirty :
       kept[id] \subseteq IF rows[id] = NoRow THEN {} ELSE {rows[id].since}

LEMMA FreshIsRight == Fresh => Inv
<1> SUFFICES ASSUME Fresh
             PROVE  Inv
  OBVIOUS
<1>1. /\ runtimes \in Seq([id : Ids, version : Nat, since : Nat])
      /\ ordered \in Seq(DOMAIN runtimes) /\ DOMAIN ordered = DOMAIN runtimes
      /\ \A i \in DOMAIN ordered : ordered[i] = i
      /\ byID \in [Ids -> {None} \cup DOMAIN runtimes]
      /\ \A id \in Ids : byID[id] # None <=> rows[id].secret
      /\ \A id \in Ids : byID[id] # None =>
           /\ runtimes[byID[id]].id = id
           /\ runtimes[byID[id]].version = rows[id].version
           /\ runtimes[byID[id]].since = rows[id].since
           /\ rows[id] # NoRow
      /\ \A i \in DOMAIN runtimes : byID[runtimes[i].id] = i
  <2>1. rows \in [Ids -> RowType]
    BY DEF Fresh
  <2>2. runtimes = RuntimesOf(rows) /\ byID = MapOf(rows) /\ ordered = ListOf(rows)
    BY DEF Fresh
  <2>3. Loaded(rows, runtimes, byID, ordered)
    BY <2>1, <2>2, Loading
  <2>4. QED
    BY <2>3 DEF Loaded
<1>2. /\ req \in [Requests -> RequestType]
      /\ \A r \in Requests : req[r].at = "idle"
      /\ \A id \in Ids : Active(id) = {}
  BY DEF Fresh, Idle, RequestType, Stages, RowType, NoRow, None, Active
<1>3. toStart \in Seq(DOMAIN runtimes) /\ DOMAIN toStart = {}
  BY EmptySeq DEF Fresh
<1>4. Typed
  BY <1>1, <1>2, <1>3 DEF Fresh, Typed, TypeOK
<1>5. Owned
  <2>1. ASSUME NEW id \in Ids
        PROVE  byID[id] # None => IdOf(byID[id]) = id
    BY <1>1 DEF IdOf
  <2>2. QED
    BY <1>2, <2>1 DEF Fresh, Owned, Building
<1>6. ASSUME NEW id \in Ids
      PROVE  Alone(id) /\ Filed(id) /\ Alight(id)
  <2>1. Alone(id)
    BY <1>2, <1>3 DEF Alone, Awaited
  <2>2. Filed(id)
    BY <1>1, <1>3 DEF Filed, Once, IdOf
  <2>3. Alight(id)
    BY <1>2 DEF Fresh, Alight, Dormant, Alive
  <2>4. QED
    BY <2>1, <2>2, <2>3
<1>7. ASSUME NEW id \in Ids
      PROVE  Follows(id)
  <2>1. AsStored(id)
    BY <1>1 DEF AsStored
  <2>2. QED
    BY <1>2, <2>1 DEF Follows
<1>8. ASSUME NEW id \in Ids \ dirty
      PROVE  Descends(id)
  <2>1. byID[id] # None => OfRow(id, byID[id])
    BY <1>1 DEF OfRow
  <2>2. QED
    BY <1>2, <2>1 DEF Fresh, Descends
<1>9. QED
  BY <1>4, <1>5, <1>6, <1>7, <1>8 DEF Inv, Agreed, InStep, Inherits

LEMMA Seeding ==
  ASSUME NEW table \in [Ids -> RowType], NEW from \in Nat
  PROVE  /\ Seeded(table, from) \in [Ids -> RowType]
         /\ \A id \in Ids : table[id] # NoRow => Seeded(table, from)[id] = table[id]
<1>1. ASSUME NEW id \in Ids, id \in ToSet(EnvServers)
      PROVE  Min({k \in DOMAIN EnvServers : EnvServers[k] = id}) \in Nat \ {0}
  <2> DEFINE S == {k \in DOMAIN EnvServers : EnvServers[k] = id}
  <2>1. S \in SUBSET Nat /\ S # {} /\ S \subseteq Nat \ {0}
    BY <1>1, RegistryAssumption, LenProperties DEF ToSet
  <2> HIDE DEF S
  <2>2. Min(S) \in S
    BY <2>1, Smallest
  <2>3. QED
    BY <2>1, <2>2 DEF S
<1>2. QED
  BY <1>1 DEF Seeded, RowType

LEMMA InitIsRight == Init => Inv
<1> SUFFICES ASSUME Init
             PROVE  Fresh
  BY FreshIsRight
<1>1. [id \in Ids |-> NoRow] \in [Ids -> RowType]
  BY DEF NoRow, RowType
<1>2. rows \in [Ids -> RowType]
  BY <1>1, Seeding DEF Init
<1>3. saves \in Nat
  BY RegistryAssumption, LenProperties DEF Init
<1>4. QED
  BY <1>2, <1>3 DEF Init, Fresh

LEMMA RestartIsRight ==
  ASSUME Inv, Restart
  PROVE  Inv'
<1>1. /\ rows \in [Ids -> RowType] /\ kept \in [Ids -> SUBSET Nat] /\ saves \in Nat
      /\ dirty \subseteq Ids
  BY DEF Inv, Typed, TypeOK
<1>2. /\ rows' \in [Ids -> RowType]
      /\ \A id \in Ids : rows[id] # NoRow => rows'[id] = rows[id]
  BY <1>1, Seeding DEF Restart
<1>3. saves' \in Nat
  BY <1>1, RegistryAssumption, LenProperties DEF Restart
<1>4. ASSUME NEW id \in Ids \ dirty'
      PROVE  kept'[id] \subseteq IF rows'[id] = NoRow THEN {} ELSE {rows'[id].since}
  <2>1. id \notin dirty /\ Active(id) = {}
    BY <1>4 DEF Restart
  <2>2. kept[id] \subseteq IF rows[id] = NoRow THEN {} ELSE {rows[id].since}
    BY <2>1 DEF Inv, Inherits, Descends
  <2>3. QED
    BY <1>2, <2>2 DEF Restart
<1>5. Fresh'
  BY <1>1, <1>2, <1>3, <1>4
     DEF Restart, Fresh, RuntimesOf, MapOf, ListOf, Places, Place, Loadable, Precedes
<1>6. Fresh' => Inv'
  BY FreshIsRight, PTL
<1>7. QED
  BY <1>5, <1>6
-----------------------------------------------------------------------------
(***************************************************************************)
(* Types and ownership.                                                    *)
(***************************************************************************)

LEMMA Resting == Idle \in RequestType /\ Idle.at = "idle"
BY DEF Idle, RequestType, Stages, RowType, NoRow, None

\* Runtimes are only added, so that a list of them remains one.
LEMMA Longer ==
  ASSUME NEW S, NEW T, S \subseteq T, NEW s \in Seq(S)
  PROVE  s \in Seq(T)
BY SeqDef

\* A runtime has an id, and its number is not None.
LEMMA Named ==
  ASSUME Typed
  PROVE  \A rt \in DOMAIN runtimes :
           runtimes[rt] \in [id : Ids, version : Nat, since : Nat] /\ IdOf(rt) \in Ids
             /\ rt \in Nat \ {0}
<1>1. runtimes \in Seq([id : Ids, version : Nat, since : Nat])
  BY DEF Typed, TypeOK
<1>2. DOMAIN runtimes = 1..Len(runtimes) /\ Len(runtimes) \in Nat
  BY <1>1, LenProperties
<1>3. \A rt \in 1..Len(runtimes) : runtimes[rt] \in [id : Ids, version : Nat, since : Nat]
  BY <1>1, ElementOfSeq
<1>4. QED
  BY <1>2, <1>3 DEF IdOf

LEMMA BeginTyped ==
  ASSUME Typed, Owned, NEW r \in Requests, NEW id \in Ids, NEW blank \in BOOLEAN,
         NEW op \in {"create", "update", "delete", "scoped"}, Begin(r, op, id, blank)
  PROVE  Typed' /\ Owned'
<1> DEFINE new == [Idle EXCEPT !.at = op, !.id = id, !.blank = blank]
<1>1. /\ req' = [req EXCEPT ![r] = new]
      /\ UNCHANGED <<rows, kept, runtimes, byID, ordered, stop, running, toStart, live, saves,
                     failed>>
  BY DEF Begin
<1>2. new \in RequestType /\ new.at = op /\ new.id = id /\ (op = "create" => ~new.blank)
  <2>1. Idle \in RequestType
    BY Resting
  <2>2. op \in Stages
    BY DEF Stages
  <2>3. new \in RequestType /\ new.at = op /\ new.id = id /\ new.blank = blank
    BY <2>1, <2>2 DEF RequestType
  <2>4. op = "create" => ~blank
    BY DEF Begin
  <2>5. QED
    BY <2>3, <2>4
<1> HIDE DEF new
<1>3. /\ crossed \subseteq crossed' /\ crossed' \subseteq crossed \cup {id}
      /\ dirty \subseteq dirty' /\ dirty' \subseteq dirty \cup {id}
      /\ (id \in crossed' => id \in crossed \/ id \in dirty')
  BY DEF Begin
<1>4. Typed'
  BY <1>1, <1>2, <1>3 DEF Typed, TypeOK
<1>5. Owned'
  BY <1>1, <1>2 DEF Owned, Building, Typed, IdOf
<1>6. QED
  BY <1>4, <1>5

LEMMA RunTyped ==
  ASSUME Typed, Owned, RunTakes \/ RunStarts
  PROVE  Typed' /\ Owned'
<1>1. CASE RunTakes
  <2>1. Typed'
    BY <1>1 DEF RunTakes, Typed, TypeOK, Active
  <2>2. Owned'
    BY <1>1 DEF RunTakes, Owned, IdOf
  <2>3. QED
    BY <2>1, <2>2
<1>2. CASE RunStarts
  <2>1. /\ Head(toStart) \in DOMAIN runtimes /\ Tail(toStart) \in Seq(DOMAIN runtimes)
        /\ IdOf(Head(toStart)) \in Ids /\ running
    <3>1. /\ toStart \in Seq(DOMAIN runtimes) /\ toStart # <<>> /\ running
      BY <1>2 DEF RunStarts, Typed, TypeOK
    <3>2. Head(toStart) \in DOMAIN runtimes /\ Tail(toStart) \in Seq(DOMAIN runtimes)
      BY <3>1, HeadTailProperties
    <3>3. QED
      BY <3>1, <3>2, Named
  <2>2. Typed'
    BY <1>2, <2>1 DEF RunStarts, Started, Typed, TypeOK
  <2>3. Owned'
    BY <1>2, <2>1 DEF RunStarts, Started, Owned, IdOf, Typed, TypeOK
  <2>4. QED
    BY <2>2, <2>3
<1>3. QED
  BY <1>1, <1>2

\* What a request does it does for one id, and to itself alone among requests.
Turned(r) ==
  /\ req[r].at # "idle"
  /\ req' \in [Requests -> RequestType]
  /\ \A s \in Requests \ {r} : req'[s] = req[s]
  /\ req'[r].at # "create"
  /\ req'[r].at # "idle" => req'[r].id = req[r].id
  /\ UNCHANGED <<running, toStart, crossed>>

LEMMA Turning ==
  ASSUME Typed, NEW r \in Requests, RequestStep(r)
  PROVE  Turned(r)
<1>1. req \in [Requests -> RequestType] /\ req[r] \in RequestType
  BY DEF Typed
<1>2. Idle \in RequestType /\ Idle.at = "idle"
  BY Resting
<1>3. ASSUME req[r].at # "idle", Answered(r), UNCHANGED <<running, toStart, crossed>>
      PROVE  Turned(r)
  BY <1>1, <1>2, <1>3 DEF Answered, Turned
<1>4. ASSUME NEW at \in Stages, at # "create", req[r].at # "idle", Goes(r, at),
             UNCHANGED <<running, toStart, crossed>>
      PROVE  Turned(r)
  BY <1>1, <1>4 DEF Goes, Turned, RequestType
<1>5. CASE ChecksFree(r)
  <2>1. Len(ordered) \in Nat
    BY LenProperties DEF Typed, TypeOK
  <2>2. CASE byID[req[r].id] # None
    BY <1>3, <1>5, <2>2 DEF ChecksFree, registry, history
  <2>3. CASE byID[req[r].id] = None
    <3>1. req' = [req EXCEPT ![r] = [@ EXCEPT !.at = "save", !.row.position = Len(ordered)]]
      BY <1>5, <2>3 DEF ChecksFree
    <3>2. [req[r] EXCEPT !.at = "save", !.row.position = Len(ordered)] \in RequestType
      BY <1>1, <2>1 DEF RequestType, RowType, Stages
    <3>3. QED
      BY <1>1, <1>5, <3>1, <3>2 DEF ChecksFree, Turned, registry, history
  <2>4. QED
    BY <2>2, <2>3
<1>6. CASE ChecksStored(r)
  <2> DEFINE stored == rows[req[r].id]
             at == IF req[r].blank THEN "secret" ELSE "save"
  <2>1. stored \in RowType /\ at \in {"secret", "save"}
    BY <1>1, <1>6 DEF ChecksStored, Typed, TypeOK
  <2>2. CASE stored = NoRow
    BY <1>3, <1>6, <2>2 DEF ChecksStored, registry, history
  <2>3. CASE stored # NoRow
    <3>1. req' = [req EXCEPT ![r] = [@ EXCEPT !.at = at, !.row.position = stored.position]]
      BY <1>6, <2>3 DEF ChecksStored
    <3> HIDE DEF at, stored
    <3>2. [req[r] EXCEPT !.at = at, !.row.position = stored.position] \in RequestType
      BY <1>1, <2>1 DEF RequestType, RowType, Stages
    <3>3. QED
      BY <1>1, <1>6, <2>1, <3>1, <3>2 DEF ChecksStored, Turned, registry, history
  <2>4. QED
    BY <2>2, <2>3
<1>7. CASE ReadsSecret(r)
  BY <1>1, <1>7
     DEF ReadsSecret, Turned, RequestType, RowType, Stages, registry, history, Typed, TypeOK
<1>8. CASE Saves(r)
  BY <1>1, <1>8
     DEF Saves, Written, Turned, RequestType, RowType, NoRow, Stages, registry, history
<1>9. CASE ReadsBack(r)
  <2>1. Len(runtimes) \in Nat
    BY LenProperties DEF Typed, TypeOK
  <2>2. QED
    BY <1>1, <1>3, <1>9, <2>1
       DEF ReadsBack, Turned, RequestType, Stages, Building, history
<1>10. CASE Adds(r)
  BY <1>3, <1>4, <1>10 DEF Adds, Inserted, Stages, Building, history
<1>11. CASE AddsAgain(r)
  BY <1>3, <1>4, <1>11 DEF AddsAgain, Inserted, Stages, Building, history
<1>12. CASE Starts(r)
  BY <1>3, <1>12 DEF Starts, history
<1>13. CASE Removes(r)
  <2>1. stop[req[r].id] \in Nat
    <3>1. req[r].id \in Ids
      BY <1>13 DEF Removes, Typed
    <3>2. stop[req[r].id] \in {None} \cup DOMAIN runtimes
      BY <3>1 DEF Typed, TypeOK
    <3>3. QED
      BY <3>2, Named DEF None
  <2>2. QED
    BY <1>1, <1>2, <1>13, <2>1
       DEF Removes, Turned, RequestType, RowType, Stages, Building, history
<1>14. CASE Cancels(r)
  BY <1>1, <1>3, <1>14
     DEF Cancels, Turned, RequestType, RowType, NoRow, Stages, Building, history
<1>15. CASE DeletesRow(r)
  BY <1>3, <1>4, <1>15 DEF DeletesRow, Stages, registry, history
<1>16. CASE Clears(r)
  BY <1>4, <1>16 DEF Clears, Stages, registry, history
<1>17. CASE StatementFails(r)
  BY <1>3, <1>17 DEF StatementFails, registry
<1>18. CASE Resolves(r)
  <2>1. byID[req[r].id] \in Nat
    BY <1>18, Named DEF Resolves, Typed, TypeOK, None
  <2>2. QED
    BY <1>1, <1>3, <1>18, <2>1 DEF Resolves, Turned, RequestType, Stages, registry, history
<1>19. CASE SavesTask(r)
  BY <1>3, <1>19 DEF SavesTask, registry, history
<1>20. QED
  BY <1>5, <1>6, <1>7, <1>8, <1>9, <1>10, <1>11, <1>12, <1>13, <1>14, <1>15, <1>16, <1>17,
     <1>18, <1>19 DEF RequestStep

\* The runtimes are added to, one at a time.
Grows ==
  /\ DOMAIN runtimes \subseteq DOMAIN runtimes'
  /\ \A rt \in DOMAIN runtimes : runtimes'[rt] = runtimes[rt]

LEMMA Growing ==
  ASSUME Typed, NEW r \in Requests, RequestStep(r)
  PROVE  /\ Grows
         /\ runtimes' \in Seq([id : Ids, version : Nat, since : Nat])
         /\ runtimes' = runtimes \/ ReadsBack(r)
<1>1. runtimes \in Seq([id : Ids, version : Nat, since : Nat])
  BY DEF Typed, TypeOK
<1>2. CASE ReadsBack(r)
  <2>1. CASE ~rows[req[r].id].secret
    BY <1>1, <1>2, <2>1 DEF ReadsBack, Grows
  <2>2. CASE rows[req[r].id].secret
    <3>1. req[r].id \in Ids /\ rows[req[r].id] \in RowType
      BY <1>2 DEF ReadsBack, Typed, TypeOK
    <3>2. Built(req[r].id, rows[req[r].id]) \in [id : Ids, version : Nat, since : Nat]
      BY <3>1 DEF Built, RowType
    <3>3. runtimes' = Append(runtimes, Built(req[r].id, rows[req[r].id]))
      BY <1>2, <2>2 DEF ReadsBack
    <3>4. QED
      BY <1>1, <1>2, <3>2, <3>3, AppendProperties DEF Grows
  <2>3. QED
    BY <2>1, <2>2
<1>3. CASE ~ReadsBack(r)
  <2>1. runtimes' = runtimes
    BY <1>3 DEF RequestStep, ChecksFree, ChecksStored, ReadsSecret, Saves, Written, Adds,
                AddsAgain, Starts, Removes, Cancels, DeletesRow, Clears, StatementFails,
                Resolves, SavesTask, registry
  <2>2. QED
    BY <1>1, <2>1 DEF Grows
<1>4. QED
  BY <1>2, <1>3

\* The list is added to, or loses the first of the request's id.
LEMMA Listing ==
  ASSUME Typed, Owned, NEW r \in Requests, RequestStep(r)
  PROVE  \/ ordered' = ordered
         \/ /\ req[r].at \in {"add", "insert"}
            /\ ordered' = Append(ordered, req[r].rt)
            /\ req[r].rt \in DOMAIN runtimes /\ IdOf(req[r].rt) = req[r].id
         \/ /\ Removes(r)
            /\ \E k \in 1..Len(ordered) :
                 IdOf(ordered[k]) = req[r].id /\ ordered' = RemoveAt(ordered, k)
<1>1. CASE Adds(r) \/ AddsAgain(r)
  <2>1. req[r].at \in {"add", "insert"}
    BY <1>1 DEF Adds, AddsAgain
  <2>2. req[r].rt \in DOMAIN runtimes /\ IdOf(req[r].rt) = req[r].id
    BY <2>1 DEF Owned, Building
  <2>3. ordered' = ordered \/ ordered' = Append(ordered, req[r].rt)
    BY <1>1 DEF Adds, AddsAgain, Inserted
  <2>4. QED
    BY <2>1, <2>2, <2>3
<1>2. CASE Removes(r)
  <2> DEFINE at == {i \in DOMAIN ordered : IdOf(ordered[i]) = req[r].id}
  <2>1. DOMAIN ordered = 1..Len(ordered) /\ Len(ordered) \in Nat
    BY LenProperties DEF Typed, TypeOK
  <2>2. ordered' = ordered \/ ordered' = WithoutFirst(req[r].id)
    BY <1>2 DEF Removes
  <2>3. WithoutFirst(req[r].id) = IF at = {} THEN ordered ELSE RemoveAt(ordered, Min(at))
    BY DEF WithoutFirst
  <2>4. at \in SUBSET Nat
    BY <2>1
  <2>5. CASE at # {}
    <3>1. Min(at) \in at
      <4> HIDE DEF at
      <4>1. QED
        BY <2>4, <2>5, Smallest
    <3>2. Min(at) \in 1..Len(ordered) /\ IdOf(ordered[Min(at)]) = req[r].id
      BY <2>1, <3>1
    <3> HIDE DEF at
    <3>3. QED
      BY <1>2, <2>2, <2>3, <2>5, <3>2
  <2>6. CASE at = {}
    BY <2>2, <2>3, <2>6
  <2>7. QED
    BY <2>5, <2>6
<1>3. CASE ~(Adds(r) \/ AddsAgain(r) \/ Removes(r))
  BY <1>3 DEF RequestStep, ChecksFree, ChecksStored, ReadsSecret, Saves, Written, ReadsBack,
              Starts, Cancels, DeletesRow, Clears, StatementFails, Resolves, SavesTask, registry
<1>4. QED
  BY <1>1, <1>2, <1>3

LEMMA RequestTyped ==
  ASSUME Typed, Owned, NEW r \in Requests, RequestStep(r)
  PROVE  Typed'
<1> DEFINE id == req[r].id
<1>1. Turned(r) /\ Grows /\ runtimes' \in Seq([id : Ids, version : Nat, since : Nat])
  BY Turning, Growing
<1>2. id \in Ids /\ rows \in [Ids -> RowType] /\ kept \in [Ids -> SUBSET Nat]
      /\ byID \in [Ids -> {None} \cup DOMAIN runtimes]
      /\ stop \in [Ids -> {None} \cup DOMAIN runtimes] /\ live \subseteq DOMAIN runtimes
      /\ saves \in Nat /\ req[r] \in RequestType
  BY <1>1 DEF Turned, Typed, TypeOK
<1>3. rows' \in [Ids -> RowType] /\ saves' \in Nat
  <2>1. CASE Saves(r)
    <3>1. (~req[r].blank \/ req[r].row.secret) \in BOOLEAN
      OBVIOUS
    <3>2. [version |-> saves + 1,
           since |-> IF rows[id] = NoRow THEN saves + 1 ELSE rows[id].since,
           secret |-> ~req[r].blank \/ req[r].row.secret,
           position |-> req[r].row.position] \in RowType
      BY <1>2, <3>1 DEF RowType, RequestType
    <3>3. QED
      BY <1>2, <2>1, <3>2 DEF Saves, Written
  <2>2. CASE ~Saves(r)
    <3>1. NoRow \in RowType
      BY DEF NoRow, RowType
    <3>2. QED
      BY <1>2, <2>2, <3>1
         DEF RequestStep, ChecksFree, ChecksStored, ReadsSecret, ReadsBack, Adds, AddsAgain,
             Starts, Removes, Cancels, DeletesRow, Clears, StatementFails, Resolves, SavesTask,
             tables, counters
  <2>3. QED
    BY <2>1, <2>2
<1>4. kept' \in [Ids -> SUBSET Nat]
  <2>1. CASE SavesTask(r)
    <3>1. req[r].rt \in DOMAIN runtimes
      BY <2>1 DEF SavesTask, Owned
    <3>2. runtimes[req[r].rt].since \in Nat
      BY <3>1, Named
    <3>3. QED
      BY <1>2, <2>1, <3>2 DEF SavesTask
  <2>2. CASE ~SavesTask(r)
    BY <1>2, <2>2
       DEF RequestStep, ChecksFree, ChecksStored, ReadsSecret, Saves, Written, ReadsBack, Adds,
           AddsAgain, Starts, Removes, Cancels, DeletesRow, Clears, StatementFails, Resolves,
           tables
  <2>3. QED
    BY <2>1, <2>2
<1>5. /\ byID' \in [Ids -> {None} \cup DOMAIN runtimes]
      /\ stop' \in [Ids -> {None} \cup DOMAIN runtimes]
      /\ live' \subseteq DOMAIN runtimes
  <2>1. CASE Adds(r) \/ AddsAgain(r) \/ Starts(r)
    <3>1. req[r].rt \in DOMAIN runtimes /\ IdOf(req[r].rt) \in Ids
      BY <1>2, <2>1 DEF Adds, AddsAgain, Starts, Owned, Building
    <3>2. QED
      BY <1>2, <2>1, <3>1 DEF Adds, AddsAgain, Inserted, Starts, Started
  <2>2. CASE ~(Adds(r) \/ AddsAgain(r) \/ Starts(r))
    BY <1>2, <2>2
       DEF RequestStep, ChecksFree, ChecksStored, ReadsSecret, Saves, Written, ReadsBack,
           Removes, Cancels, DeletesRow, Clears, StatementFails, Resolves, SavesTask, registry
  <2>3. QED
    BY <2>1, <2>2
<1>6. ordered' \in Seq(DOMAIN runtimes)
  <2>1. ordered \in Seq(DOMAIN runtimes)
    BY DEF Typed, TypeOK
  <2>2. ASSUME req[r].rt \in DOMAIN runtimes
        PROVE  Append(ordered, req[r].rt) \in Seq(DOMAIN runtimes)
    BY <2>1, <2>2, AppendProperties
  <2>3. \A k \in 1..Len(ordered) : RemoveAt(ordered, k) \in Seq(DOMAIN runtimes)
    BY <2>1, Removing
  <2>4. QED
    BY <2>1, <2>2, <2>3, Listing
<1>7. failed' \subseteq Ids /\ dirty' \subseteq Ids /\ crossed' \cup failed' \subseteq dirty'
  <2>1. CASE StatementFails(r)
    BY <1>2, <2>1 DEF StatementFails, Typed, TypeOK
  <2>2. CASE ~StatementFails(r)
    BY <2>2
       DEF RequestStep, ChecksFree, ChecksStored, ReadsSecret, Saves, Written, ReadsBack, Adds,
           AddsAgain, Starts, Removes, Cancels, DeletesRow, Clears, Resolves, SavesTask,
           history, Typed, TypeOK
  <2>3. QED
    BY <2>1, <2>2
<1>8. /\ byID' \in [Ids -> {None} \cup DOMAIN runtimes']
      /\ stop' \in [Ids -> {None} \cup DOMAIN runtimes']
      /\ live' \subseteq DOMAIN runtimes'
  BY <1>1, <1>5 DEF Grows
<1>9. ordered' \in Seq(DOMAIN runtimes') /\ toStart' \in Seq(DOMAIN runtimes')
  BY <1>1, <1>6, Longer DEF Grows, Turned, Typed, TypeOK
<1>10. \A s \in Requests : /\ req'[s].at # "idle" => req'[s].id \in Ids
                           /\ req'[s].at = "create" => ~req'[s].blank
  BY <1>1, <1>2 DEF Turned, Typed
<1>11. QED
  BY <1>1, <1>3, <1>4, <1>7, <1>8, <1>9, <1>10 DEF Turned, Typed, TypeOK

LEMMA RequestOwned ==
  ASSUME Typed, Owned, NEW r \in Requests, RequestStep(r)
  PROVE  Owned'
<1> DEFINE id == req[r].id
           Theirs(rt, x) == rt \in DOMAIN runtimes' /\ runtimes'[rt].id = x
<1>1. Turned(r) /\ Grows
  BY Turning, Growing
<1>2. /\ id \in Ids /\ byID \in [Ids -> {None} \cup DOMAIN runtimes]
      /\ stop \in [Ids -> {None} \cup DOMAIN runtimes]
      /\ req \in [Requests -> RequestType] /\ req[r] \in RequestType
  BY <1>1 DEF Turned, Typed, TypeOK
<1>3. \A rt \in DOMAIN runtimes, x \in Ids : IdOf(rt) = x => Theirs(rt, x)
  BY <1>1 DEF Grows, IdOf
<1>4. \A x \in Ids : /\ byID[x] # None => Theirs(byID[x], x)
                     /\ stop[x] # None => Theirs(stop[x], x)
  BY <1>2, <1>3 DEF Owned
<1>5. \A s \in Requests :
        /\ req[s].at \in Building \cup {"task"} => Theirs(req[s].rt, req[s].id)
        /\ req[s].at \in {"cancel", "cancelThenInsert"} /\ req[s].row.version # None =>
             Theirs(req[s].row.version, req[s].id)
  <2>1. \A s \in Requests : req[s].at # "idle" => req[s].id \in Ids
    BY DEF Typed
  <2>2. QED
    BY <1>3, <2>1 DEF Owned, Building
<1> HIDE DEF Theirs
<1>6. ASSUME NEW x \in Ids
      PROVE  /\ byID'[x] # None => Theirs(byID'[x], x)
             /\ stop'[x] # None => Theirs(stop'[x], x)
  <2>1. CASE Adds(r) \/ AddsAgain(r) \/ Starts(r)
    <3>1. req[r].at \in Building
      BY <2>1 DEF Adds, AddsAgain, Starts, Building
    <3>2. Theirs(req[r].rt, id) /\ IdOf(req[r].rt) = id
      BY <3>1, <1>5 DEF Owned
    <3>3. QED
      BY <1>2, <1>4, <2>1, <3>2 DEF Adds, AddsAgain, Inserted, Starts, Started
  <2>2. CASE Removes(r)
    BY <1>2, <1>4, <2>2 DEF Removes
  <2>3. CASE ~(Adds(r) \/ AddsAgain(r) \/ Starts(r) \/ Removes(r))
    BY <1>4, <2>3
       DEF RequestStep, ChecksFree, ChecksStored, ReadsSecret, Saves, Written, ReadsBack,
           Cancels, DeletesRow, Clears, StatementFails, Resolves, SavesTask, registry
  <2>4. QED
    BY <2>1, <2>2, <2>3
<1>7. /\ req'[r].at \in Building \cup {"task"} => Theirs(req'[r].rt, id)
      /\ req'[r].at \in {"cancel", "cancelThenInsert"} /\ req'[r].row.version # None =>
           Theirs(req'[r].row.version, id)
  <2>1. CASE ReadsBack(r) /\ rows[id].secret
    <3>1. req'[r].at = "add" /\ req'[r].rt = Len(runtimes) + 1
      BY <1>2, <2>1 DEF ReadsBack, RequestType
    <3>2. runtimes' = Append(runtimes, Built(id, rows[id]))
      BY <2>1 DEF ReadsBack
    <3>3. runtimes \in Seq([id : Ids, version : Nat, since : Nat])
          /\ Built(id, rows[id]) \in [id : Ids, version : Nat, since : Nat]
      BY <1>2 DEF Built, RowType, Typed, TypeOK
    <3>4. Len(runtimes) + 1 \in DOMAIN runtimes'
          /\ runtimes'[Len(runtimes) + 1] = Built(id, rows[id])
      BY <3>2, <3>3, AppendProperties, LenProperties
    <3>5. Theirs(Len(runtimes) + 1, id)
      BY <3>4 DEF Theirs, Built
    <3>6. QED
      BY <3>1, <3>5
  <2>2. CASE Removes(r)
    <3>1. req'[r].at \in {"idle", "insert"}
            \/ (req'[r].at \in {"cancel", "cancelThenInsert"} /\ req'[r].row.version = stop[id])
      <4>1. CASE byID[id] = None
        <5>1. req'[r] = Idle \/ req'[r] = [req[r] EXCEPT !.at = "insert"]
          BY <1>2, <2>2, <4>1 DEF Removes
        <5>2. QED
          BY <1>2, <5>1, Resting DEF RequestType
      <4>2. CASE byID[id] # None
        <5>1. req'[r] = [req[r] EXCEPT !.at = IF req[r].at = "evict" THEN "cancelThenInsert" ELSE "cancel",
                                       !.row.version = stop[id]]
          BY <1>2, <2>2, <4>2 DEF Removes
        <5>2. QED
          BY <1>2, <5>1 DEF RequestType, RowType
      <4>3. QED
        BY <4>1, <4>2
    <3>2. req'[r].at = "insert" => req'[r].rt = req[r].rt /\ req[r].at \in Building
      BY <1>2, <2>2 DEF Removes, Idle, RequestType, Building
    <3>3. req'[r].at = "cancelThenInsert" => req'[r].rt = req[r].rt /\ req[r].at \in Building
      BY <1>2, <2>2 DEF Removes, Idle, RequestType, Building
    <3>4. QED
      BY <1>2, <1>4, <1>5, <3>1, <3>2, <3>3 DEF Building
  <2>3. CASE Resolves(r)
    <3>1. req'[r].at = "idle"
            \/ (req'[r].at = "task" /\ req'[r].rt = byID[id] /\ byID[id] # None)
      <4>1. CASE byID[id] = None
        <5>1. req'[r] = Idle
          BY <1>2, <2>3, <4>1 DEF Resolves, Answered
        <5>2. QED
          BY <5>1, Resting
      <4>2. CASE byID[id] # None
        BY <1>2, <2>3, <4>2 DEF Resolves, RequestType
      <4>3. QED
        BY <4>1, <4>2
    <3>2. QED
      BY <1>2, <1>4, <3>1 DEF Building
  <2>4. CASE Cancels(r) \/ Adds(r) \/ AddsAgain(r) \/ Starts(r)
    <3>1. req'[r].at \in {"idle", "insert", "evict", "start"}
      BY <1>2, <2>4
         DEF Cancels, Adds, AddsAgain, Inserted, Starts, Answered, Goes, Idle, RequestType
    <3>2. req'[r].at # "idle" => req'[r].rt = req[r].rt /\ req[r].at \in Building
      BY <1>2, <2>4
         DEF Cancels, Adds, AddsAgain, Inserted, Starts, Answered, Goes, Idle, RequestType,
             Building
    <3>3. QED
      BY <1>5, <3>1, <3>2 DEF Building
  <2>5. CASE ~((ReadsBack(r) /\ rows[id].secret) \/ Removes(r) \/ Resolves(r) \/ Cancels(r)
               \/ Adds(r) \/ AddsAgain(r) \/ Starts(r))
    <3>1. req'[r].at \in {"idle", "save", "secret", "readBack", "clear", "remove"}
      BY <1>2, <2>5
         DEF RequestStep, ChecksFree, ChecksStored, ReadsSecret, Saves, Written, ReadsBack,
             DeletesRow, Clears, StatementFails, SavesTask, Answered, Goes, Idle, RequestType
    <3>2. QED
      BY <3>1 DEF Building
  <2>6. QED
    BY <2>1, <2>2, <2>3, <2>4, <2>5
<1>8. \A s \in Requests :
        /\ req'[s].at \in Building \cup {"task"} => Theirs(req'[s].rt, req'[s].id)
        /\ req'[s].at \in {"cancel", "cancelThenInsert"} /\ req'[s].row.version # None =>
             Theirs(req'[s].row.version, req'[s].id)
  <2>1. req'[r].at \in Building \cup {"task", "cancel", "cancelThenInsert"} => req'[r].id = id
    BY <1>1 DEF Turned, Building
  <2>2. \A s \in Requests \ {r} : req'[s] = req[s]
    BY <1>1 DEF Turned
  <2>3. QED
    BY <1>5, <1>7, <2>1, <2>2
<1>9. QED
  BY <1>6, <1>8 DEF Owned, IdOf, Theirs
-----------------------------------------------------------------------------
(***************************************************************************)
(* What is done for one server leaves the others alone.                    *)
(***************************************************************************)

Untouched(id) ==
  /\ rows'[id] = rows[id] /\ kept'[id] = kept[id]
  /\ byID'[id] = byID[id] /\ stop'[id] = stop[id] /\ running' = running
  /\ Active(id)' = Active(id) /\ \A r \in Active(id) : req'[r] = req[r]
  /\ Alive(id)' = Alive(id)
  /\ Awaited(id)' <=> Awaited(id)
  /\ Filed(id) => Filed(id)'
  /\ Grows

LEMMA Elsewhere ==
  ASSUME Typed, Owned, NEW id \in Ids, Untouched(id)
  PROVE  /\ Alone(id) /\ Filed(id) /\ Alight(id) => (Alone(id) /\ Filed(id) /\ Alight(id))'
         /\ Follows(id) => Follows(id)'
         /\ Descends(id) => Descends(id)'
<1>1. byID[id] # None => byID[id] \in DOMAIN runtimes
  BY DEF Typed, TypeOK
<1>2. \A r \in Active(id) : req[r].at \in Building \cup {"task"} => req[r].rt \in DOMAIN runtimes
  BY DEF Owned, Active
<1>3. Alone(id) => Alone(id)'
  BY DEF Untouched, Alone
<1>4. Alight(id) => Alight(id)'
  BY DEF Untouched, Alight, Dormant
<1>5. Follows(id) => Follows(id)'
  <2>1. AsStored(id) => AsStored(id)'
    BY <1>1 DEF Untouched, Grows, AsStored
  <2>2. ASSUME NEW r \in Active(id), req[r].at \in Building
        PROVE  runtimes'[req[r].rt] = runtimes[req[r].rt]
    BY <1>2, <2>2 DEF Untouched, Grows
  <2>3. QED
    BY <2>1, <2>2 DEF Untouched, Follows
<1>6. Descends(id) => Descends(id)'
  <2>1. ASSUME NEW rt \in DOMAIN runtimes
        PROVE  OfRow(id, rt) => rows'[id] # NoRow /\ runtimes'[rt].since = rows'[id].since
    BY DEF Untouched, Grows, OfRow
  <2>2. QED
    BY <1>1, <1>2, <2>1 DEF Untouched, Descends, OfRow
<1>7. QED
  BY <1>3, <1>4, <1>5, <1>6 DEF Untouched

LEMMA FiledElsewhere ==
  ASSUME Typed, Owned, NEW r \in Requests, RequestStep(r), NEW id \in Ids, id # req[r].id,
         byID'[id] = byID[id], Filed(id)
  PROVE  Filed(id)'
<1>1. Turned(r) /\ Grows
  BY Turning, Growing
<1>2. /\ ordered \in Seq(DOMAIN runtimes) /\ toStart \in Seq(DOMAIN runtimes)
      /\ toStart' = toStart
  BY <1>1 DEF Turned, Typed, TypeOK
<1>3. /\ DOMAIN ordered = 1..Len(ordered) /\ Len(ordered) \in Nat
      /\ \A i \in DOMAIN ordered : ordered[i] \in DOMAIN runtimes
      /\ \A i \in DOMAIN toStart : toStart[i] \in DOMAIN runtimes
  BY <1>2, LenProperties, ElementOfSeq
<1>4. \A rt \in DOMAIN runtimes : runtimes'[rt].id = IdOf(rt)
  BY <1>1 DEF Grows, IdOf
<1>5. \A i \in DOMAIN toStart : runtimes'[toStart[i]].id = id =>
        /\ toStart[i] = byID[id]
        /\ \A j \in DOMAIN toStart : runtimes'[toStart[j]].id = id => i = j
  BY <1>3, <1>4 DEF Filed, Once
<1>6. /\ \A i \in DOMAIN ordered : IdOf(ordered[i]) = id =>
           /\ ordered[i] = byID[id]
           /\ \A j \in DOMAIN ordered : IdOf(ordered[j]) = id => i = j
      /\ byID[id] # None => \E i \in DOMAIN ordered : ordered[i] = byID[id]
      /\ byID[id] # None => IdOf(byID[id]) = id
  BY DEF Filed, Once, Owned
<1> DEFINE Still ==
      /\ \A i \in DOMAIN ordered' : runtimes'[ordered'[i]].id = id =>
           /\ ordered'[i] = byID[id]
           /\ \A j \in DOMAIN ordered' : runtimes'[ordered'[j]].id = id => i = j
      /\ byID[id] # None => \E i \in DOMAIN ordered' : ordered'[i] = byID[id]
<1>7. Still
  <2>1. CASE ordered' = ordered
    BY <1>3, <1>4, <1>6, <2>1
  <2>2. CASE /\ ordered' = Append(ordered, req[r].rt)
             /\ req[r].rt \in DOMAIN runtimes /\ IdOf(req[r].rt) = req[r].id
    <3>1. /\ DOMAIN ordered' = 1..(Len(ordered) + 1)
          /\ \A i \in 1..Len(ordered) : ordered'[i] = ordered[i]
          /\ ordered'[Len(ordered) + 1] = req[r].rt
      BY <1>2, <2>2, AppendProperties, LenProperties
    <3>2. \A i \in DOMAIN ordered' : runtimes'[ordered'[i]].id = id =>
            i \in DOMAIN ordered /\ IdOf(ordered[i]) = id /\ ordered'[i] = ordered[i]
      BY <1>3, <1>4, <2>2, <3>1
    <3>3. QED
      BY <1>3, <1>6, <3>1, <3>2
  <2>3. ASSUME NEW k \in 1..Len(ordered), IdOf(ordered[k]) = req[r].id,
               ordered' = RemoveAt(ordered, k)
        PROVE  Still
    <3> DEFINE was(i) == IF i < k THEN i ELSE i + 1
    <3>1. /\ DOMAIN ordered' = 1..(Len(ordered) - 1)
          /\ \A i \in DOMAIN ordered' : was(i) \in DOMAIN ordered /\ ordered'[i] = ordered[was(i)]
      <4>1. /\ ordered' \in Seq(DOMAIN runtimes) /\ Len(ordered') = Len(ordered) - 1
            /\ \A i \in 1..(Len(ordered) - 1) : ordered'[i] = ordered[was(i)]
        BY <1>2, <2>3, Removing
      <4>2. DOMAIN ordered' = 1..(Len(ordered) - 1)
        BY <4>1, LenProperties
      <4>3. QED
        BY <1>3, <4>1, <4>2
    <3>2. \A i, j \in DOMAIN ordered' : was(i) = was(j) => i = j
      BY <1>3, <3>1
    <3>3. \A n \in DOMAIN ordered : n # k => \E i \in DOMAIN ordered' : was(i) = n
      <4>1. ASSUME NEW n \in DOMAIN ordered, n # k
            PROVE  \E i \in DOMAIN ordered' : was(i) = n
        <5>1. CASE n < k
          <6>1. n \in DOMAIN ordered' /\ was(n) = n
            BY <1>3, <3>1, <5>1
          <6>2. QED
            BY <6>1
        <5>2. CASE n > k
          <6>1. n - 1 \in DOMAIN ordered' /\ was(n - 1) = n
            BY <1>3, <3>1, <5>2
          <6>2. QED
            BY <6>1
        <5>3. QED
          BY <1>3, <4>1, <5>1, <5>2
      <4>2. QED
        BY <4>1
    <3> HIDE DEF was
    <3>4. \A i \in DOMAIN ordered' : runtimes'[ordered'[i]].id = IdOf(ordered[was(i)])
      BY <1>3, <1>4, <3>1
    <3>5. byID[id] # None => \E i \in DOMAIN ordered' : ordered'[i] = byID[id]
      <4>1. ASSUME byID[id] # None
            PROVE  \E n \in DOMAIN ordered : n # k /\ ordered[n] = byID[id]
        BY <1>6, <2>3, <4>1
      <4>2. QED
        BY <3>1, <3>3, <4>1
    <3>6. QED
      BY <1>6, <3>1, <3>2, <3>4, <3>5
  <2>4. QED
    BY <2>1, <2>2, <2>3, Listing
<1>8. QED
  BY <1>2, <1>5, <1>7 DEF Filed, Once, IdOf

LEMMA Apart ==
  ASSUME Typed, Owned, NEW r \in Requests, RequestStep(r), NEW id \in Ids, id # req[r].id
  PROVE  Untouched(id) /\ (id \notin failed' => id \notin failed) /\ (id \notin dirty' => id \notin dirty)
<1>1. Turned(r) /\ Grows
  BY Turning, Growing
<1>2. Active(id)' = Active(id) /\ \A s \in Active(id) : req'[s] = req[s]
  BY <1>1 DEF Turned, Active
<1>3. Awaited(id)' <=> Awaited(id)
  <2>1. toStart' = toStart /\ \A i \in DOMAIN toStart : toStart[i] \in DOMAIN runtimes
    BY <1>1, ElementOfSeq DEF Turned, Typed, TypeOK
  <2>2. \A i \in DOMAIN toStart : runtimes'[toStart[i]].id = IdOf(toStart[i])
    BY <1>1, <2>1 DEF Grows, IdOf
  <2>3. QED
    BY <2>1, <2>2 DEF Awaited, IdOf
<1>4. /\ rows \in [Ids -> RowType] /\ kept \in [Ids -> SUBSET Nat]
      /\ byID \in [Ids -> {None} \cup DOMAIN runtimes]
      /\ stop \in [Ids -> {None} \cup DOMAIN runtimes] /\ live \subseteq DOMAIN runtimes
  BY DEF Typed, TypeOK
<1>5. /\ rows'[id] = rows[id] /\ kept'[id] = kept[id] /\ byID'[id] = byID[id]
  BY <1>4 DEF RequestStep, ChecksFree, ChecksStored, ReadsSecret, Saves, Written, ReadsBack, Adds,
         AddsAgain, Inserted, Starts, Removes, Cancels, DeletesRow, Clears, StatementFails,
         Resolves, SavesTask, tables, registry
<1>6. /\ stop'[id] = stop[id]
      /\ \A rt \in DOMAIN runtimes : IdOf(rt) = id => (rt \in live' <=> rt \in live)
      /\ live' \subseteq DOMAIN runtimes
  <2>1. CASE Starts(r)
    <3>1. IdOf(req[r].rt) = req[r].id /\ req[r].rt \in DOMAIN runtimes
      BY <2>1 DEF Starts, Owned, Building
    <3>2. QED
      BY <1>4, <2>1, <3>1 DEF Starts, Started
  <2>2. CASE Removes(r)
    BY <1>4, <2>2 DEF Removes
  <2>3. CASE Cancels(r)
    <3>1. \A rt \in DOMAIN runtimes : IdOf(rt) = id => rt # req[r].row.version
      BY <2>3, Named DEF Cancels, Owned, None
    <3>2. QED
      BY <1>4, <2>3, <3>1 DEF Cancels
  <2>4. CASE ~(Starts(r) \/ Removes(r) \/ Cancels(r))
    BY <1>4, <2>4
       DEF RequestStep, ChecksFree, ChecksStored, ReadsSecret, Saves, Written, ReadsBack, Adds,
           AddsAgain, Inserted, DeletesRow, Clears, StatementFails, Resolves, SavesTask, registry
  <2>5. QED
    BY <2>1, <2>2, <2>3, <2>4
<1>7. Alive(id)' = Alive(id)
  <2>1. \A rt \in DOMAIN runtimes : runtimes'[rt].id = IdOf(rt)
    BY <1>1 DEF Grows, IdOf
  <2>2. QED
    BY <1>4, <1>6, <2>1 DEF Alive, IdOf
<1>8. Filed(id) => Filed(id)'
  BY <1>5, FiledElsewhere
<1>9. failed' \subseteq failed \cup {req[r].id} /\ failed \subseteq failed' /\ dirty \subseteq dirty'
  BY DEF RequestStep, ChecksFree, ChecksStored, ReadsSecret, Saves, Written, ReadsBack, Adds,
         AddsAgain, Starts, Removes, Cancels, DeletesRow, Clears, StatementFails,
         Resolves, SavesTask, history
<1>10. QED
  BY <1>1, <1>2, <1>3, <1>5, <1>6, <1>7, <1>8, <1>9 DEF Untouched, Turned
-----------------------------------------------------------------------------
(***************************************************************************)
(* What is done for a server nothing else is done for.                     *)
(***************************************************************************)

LEMMA Only ==
  ASSUME Typed, Owned, NEW r \in Requests, RequestStep(r), NEW id \in Ids, req[r].id = id,
         Alone(id)
  PROVE  /\ Active(id) = {r} /\ ~Awaited(id) /\ Alone(id)'
         /\ \A s \in Requests : req'[s].at # "idle" /\ req'[s].id = id => s = r
         /\ \A i \in DOMAIN toStart : runtimes'[toStart[i]].id # id
<1>1. Turned(r) /\ Grows
  BY Turning, Growing
<1>2. Active(id) = {r} /\ ~Awaited(id)
  BY <1>1 DEF Turned, Alone, Active
<1>3. \A s \in Requests : req'[s].at # "idle" /\ req'[s].id = id => s = r
  BY <1>1, <1>2 DEF Turned, Active
<1>4. \A i \in DOMAIN toStart : runtimes'[toStart[i]].id # id
  <2>1. \A i \in DOMAIN toStart : toStart[i] \in DOMAIN runtimes
    BY ElementOfSeq DEF Typed, TypeOK
  <2>2. QED
    BY <1>1, <1>2, <2>1 DEF Grows, Awaited, IdOf
<1>5. Alone(id)'
  BY <1>1, <1>3, <1>4 DEF Turned, Alone, Active, Awaited, IdOf
<1>6. QED
  BY <1>2, <1>3, <1>4, <1>5

LEMMA OwnFiled ==
  ASSUME Typed, Owned, NEW r \in Requests, RequestStep(r), NEW id \in Ids, req[r].id = id,
         Alone(id), Filed(id), Alight(id)
  PROVE  Filed(id)'
<1>1. Turned(r) /\ Grows
  BY Turning, Growing
<1>2. /\ id \in Ids /\ ordered \in Seq(DOMAIN runtimes) /\ toStart' = toStart
      /\ byID \in [Ids -> {None} \cup DOMAIN runtimes]
  BY <1>1 DEF Turned, Typed, TypeOK
<1>3. /\ DOMAIN ordered = 1..Len(ordered) /\ Len(ordered) \in Nat
      /\ \A i \in DOMAIN ordered : ordered[i] \in DOMAIN runtimes /\ ordered[i] # None
  <2>1. \A rt \in DOMAIN runtimes : rt # None
    BY Named DEF None
  <2>2. QED
    BY <1>2, <2>1, LenProperties, ElementOfSeq
<1>4. \A rt \in DOMAIN runtimes : runtimes'[rt].id = IdOf(rt)
  BY <1>1 DEF Grows, IdOf
<1>5. Once(toStart, id)'
  BY <1>2, Only DEF Once, IdOf
<1>6. /\ \A i \in DOMAIN ordered : IdOf(ordered[i]) = id =>
           /\ ordered[i] = byID[id]
           /\ \A j \in DOMAIN ordered : IdOf(ordered[j]) = id => i = j
      /\ byID[id] # None => \E i \in DOMAIN ordered : ordered[i] = byID[id]
      /\ byID[id] # None => IdOf(byID[id]) = id
  BY <1>2 DEF Filed, Once, Owned
<1> DEFINE Right ==
      /\ \A i \in DOMAIN ordered' : runtimes'[ordered'[i]].id = id =>
           /\ ordered'[i] = byID'[id]
           /\ \A j \in DOMAIN ordered' : runtimes'[ordered'[j]].id = id => i = j
      /\ byID'[id] # None => \E i \in DOMAIN ordered' : ordered'[i] = byID'[id]
<1>7. ASSUME ordered' = ordered, byID'[id] = byID[id]
      PROVE  Right
  BY <1>3, <1>4, <1>6, <1>7
<1>8. ASSUME Inserted(r), byID[id] = None, req[r].at \in {"add", "insert"}
      PROVE  Right
  <2>1. req[r].rt \in DOMAIN runtimes /\ IdOf(req[r].rt) = id
    BY <1>8 DEF Owned, Building
  <2>2. /\ DOMAIN ordered' = 1..(Len(ordered) + 1)
        /\ \A i \in 1..Len(ordered) : ordered'[i] = ordered[i]
        /\ ordered'[Len(ordered) + 1] = req[r].rt
    BY <1>2, <1>8, <2>1, AppendProperties, LenProperties DEF Inserted
  <2>3. byID'[id] = req[r].rt
    BY <1>2, <1>8 DEF Inserted
  <2>4. \A i \in DOMAIN ordered' : runtimes'[ordered'[i]].id = id => i = Len(ordered) + 1
    BY <1>3, <1>4, <1>6, <1>8, <2>2
  <2>5. Len(ordered) + 1 \in DOMAIN ordered'
    BY <1>3, <2>2
  <2>6. QED
    BY <2>2, <2>3, <2>4, <2>5
<1>9. ASSUME Removes(r), byID[id] # None
      PROVE  Right
  <2>1. byID'[id] = None
    BY <1>2, <1>9 DEF Removes
  <2>2. PICK n \in DOMAIN ordered : ordered[n] = byID[id]
    BY <1>6, <1>9
  <2>3. PICK k \in 1..Len(ordered) : IdOf(ordered[k]) = id /\ ordered' = RemoveAt(ordered, k)
    <3>1. ordered' = WithoutFirst(id)
      BY <1>9 DEF Removes
    <3> DEFINE at == {i \in DOMAIN ordered : IdOf(ordered[i]) = id}
    <3>2. n \in at
      BY <1>6, <1>9, <2>2
    <3>3. ordered' = RemoveAt(ordered, Min(at))
      BY <3>1, <3>2 DEF WithoutFirst
    <3>4. at \in SUBSET Nat /\ at \subseteq 1..Len(ordered)
      BY <1>3
    <3>5. Min(at) \in at
      <4> HIDE DEF at
      <4>1. QED
        BY <3>2, <3>4, Smallest
    <3>6. QED
      BY <3>3, <3>4, <3>5
  <2>4. /\ ordered' \in Seq(DOMAIN runtimes) /\ Len(ordered') = Len(ordered) - 1
        /\ \A i \in 1..(Len(ordered) - 1) :
             ordered'[i] = IF i < k THEN ordered[i] ELSE ordered[i + 1]
    BY <1>2, <2>3, Removing
  <2>5. DOMAIN ordered' = 1..(Len(ordered) - 1)
    BY <2>4, LenProperties
  <2>6. \A j \in DOMAIN ordered : j # k => IdOf(ordered[j]) # id
    BY <1>3, <1>6, <2>3
  <2>7. ASSUME NEW i \in DOMAIN ordered'
        PROVE  runtimes'[ordered'[i]].id # id
    <3>1. CASE i < k
      <4>1. i \in DOMAIN ordered /\ i # k /\ ordered'[i] = ordered[i]
        BY <1>3, <2>4, <2>5, <3>1
      <4>2. QED
        BY <1>3, <1>4, <2>6, <4>1
    <3>2. CASE i >= k
      <4>1. i + 1 \in DOMAIN ordered /\ i + 1 # k /\ ordered'[i] = ordered[i + 1]
        BY <1>3, <2>4, <2>5, <3>2
      <4>2. QED
        BY <1>3, <1>4, <2>6, <4>1
    <3>3. QED
      BY <1>3, <2>5, <3>1, <3>2
  <2>8. QED
    BY <2>1, <2>7
<1>10. Right
  <2>1. CASE Adds(r)
    <3>1. CASE byID[id] # None
      BY <1>7, <2>1, <3>1 DEF Adds
    <3>2. CASE byID[id] = None
      BY <1>8, <2>1, <3>2 DEF Adds
    <3>3. QED
      BY <3>1, <3>2
  <2>2. CASE AddsAgain(r)
    <3>1. Active(id) = {r}
      BY Only
    <3>2. byID[id] = None
      BY <2>2, <3>1 DEF AddsAgain, Alight
    <3>3. QED
      BY <1>8, <2>2, <3>2 DEF AddsAgain
  <2>3. CASE Removes(r)
    <3>1. CASE byID[id] = None
      BY <1>7, <2>3, <3>1 DEF Removes
    <3>2. CASE byID[id] # None
      BY <1>9, <2>3, <3>2
    <3>3. QED
      BY <3>1, <3>2
  <2>4. CASE ~(Adds(r) \/ AddsAgain(r) \/ Removes(r))
    <3>1. ordered' = ordered /\ byID' = byID
      BY <2>4 DEF RequestStep, ChecksFree, ChecksStored, ReadsSecret, Saves, Written, ReadsBack,
                  Starts, Cancels, DeletesRow, Clears, StatementFails, Resolves, SavesTask,
                  registry
    <3>2. QED
      BY <1>7, <3>1
  <2>5. QED
    BY <2>1, <2>2, <2>3, <2>4
<1>11. QED
  BY <1>5, <1>10 DEF Filed, Once, IdOf

LEMMA OwnAlight ==
  ASSUME Typed, Owned, NEW r \in Requests, RequestStep(r), NEW id \in Ids, req[r].id = id,
         Alone(id), Alight(id)
  PROVE  Alight(id)'
<1> DEFINE alive == {rt \in live' : runtimes'[rt].id = id}
<1>1. Turned(r) /\ Grows /\ running' = running
  BY Turning, Growing DEF Turned
<1>2. /\ byID \in [Ids -> {None} \cup DOMAIN runtimes]
      /\ stop \in [Ids -> {None} \cup DOMAIN runtimes] /\ live \subseteq DOMAIN runtimes
      /\ req \in [Requests -> RequestType] /\ req[r] \in RequestType
  BY DEF Typed, TypeOK
<1>3. Active(id) = {r} /\ ~Awaited(id)
  BY Only
<1>4. \A rt \in DOMAIN runtimes : runtimes'[rt].id = IdOf(rt)
  BY <1>1 DEF Grows, IdOf
<1>5. /\ req[r].at \in {"cancel", "cancelThenInsert"} =>
           byID[id] = None /\ stop[id] = None /\ Alive(id) \subseteq {req[r].row.version}
      /\ req[r].at = "insert" => byID[id] = None
      /\ req[r].at = "start" => running /\ byID[id] = req[r].rt /\ Dormant(id)
      /\ req[r].at \notin {"cancel", "cancelThenInsert", "start"} =>
           IF byID[id] = None \/ ~running THEN Dormant(id)
           ELSE Alive(id) = {byID[id]} /\ stop[id] = byID[id]
  BY <1>3 DEF Alight
<1> DEFINE Dark == alive = {} /\ stop'[id] = None
           Lit == /\ req'[r].at \in {"cancel", "cancelThenInsert"} =>
                       byID'[id] = None /\ stop'[id] = None /\ alive \subseteq {req'[r].row.version}
                  /\ req'[r].at = "insert" => byID'[id] = None
                  /\ req'[r].at = "start" => running /\ byID'[id] = req'[r].rt /\ Dark
                  /\ req'[r].at \notin {"cancel", "cancelThenInsert", "start"} =>
                       IF byID'[id] = None \/ ~running THEN Dark
                       ELSE alive = {byID'[id]} /\ stop'[id] = byID'[id]
<1>6. live' = live => alive = Alive(id)
  BY <1>2, <1>4 DEF Alive
<1> HIDE DEF alive
<1>7. ASSUME byID'[id] = byID[id], stop'[id] = stop[id], live' = live,
             req[r].at \notin {"cancel", "cancelThenInsert", "start"},
             req'[r].at \notin {"cancel", "cancelThenInsert", "start", "insert"}
      PROVE  Lit
  BY <1>5, <1>6, <1>7 DEF Dormant
<1>8. ASSUME Inserted(r), byID[id] = None, stop'[id] = stop[id], live' = live,
             req[r].at \in {"add", "insert"}
      PROVE  Lit
  <2>1. Dark
    BY <1>5, <1>6, <1>8 DEF Dormant
  <2>2. /\ byID'[id] = req[r].rt
        /\ running => req'[r].at = "start" /\ req'[r].rt = req[r].rt
        /\ ~running => req'[r].at = "idle"
    BY <1>2, <1>8, Resting DEF Inserted, Goes, Answered, RequestType
  <2>3. QED
    BY <2>1, <2>2
<1>9. Lit
  <2>1. CASE Adds(r)
    <3>1. CASE byID[id] # None
      <4>1. req'[r].at = "evict"
        BY <1>2, <2>1, <3>1 DEF Adds, Goes, RequestType
      <4>2. QED
        BY <1>7, <2>1, <3>1, <4>1 DEF Adds
    <3>2. CASE byID[id] = None
      BY <1>8, <2>1, <3>2 DEF Adds
    <3>3. QED
      BY <3>1, <3>2
  <2>2. CASE AddsAgain(r)
    BY <1>5, <1>8, <2>2 DEF AddsAgain
  <2>3. CASE Starts(r)
    <3>1. IdOf(req[r].rt) = id /\ req[r].rt \in DOMAIN runtimes /\ req[r].rt # None
      <4>1. IdOf(req[r].rt) = id /\ req[r].rt \in DOMAIN runtimes
        BY <2>3 DEF Starts, Owned, Building
      <4>2. QED
        BY <4>1, Named DEF None
    <3>2. running /\ byID[id] = req[r].rt /\ Alive(id) = {}
      BY <1>5, <2>3 DEF Starts, Dormant
    <3>3. alive = {req[r].rt}
      BY <1>2, <1>4, <2>3, <3>1, <3>2 DEF Starts, Started, Alive, alive
    <3>4. byID'[id] = req[r].rt /\ stop'[id] = req[r].rt /\ req'[r].at = "idle"
      BY <1>2, <2>3, <3>1, <3>2, Resting DEF Starts, Started, Answered
    <3>5. QED
      BY <3>1, <3>2, <3>3, <3>4
  <2>4. CASE Removes(r)
    <3>1. CASE byID[id] = None
      <4>1. req'[r] = Idle \/ req'[r] = [req[r] EXCEPT !.at = "insert"]
        BY <1>2, <2>4, <3>1 DEF Removes
      <4>2. req'[r].at \in {"idle", "insert"}
        BY <1>2, <4>1, Resting DEF RequestType
      <4>3. byID'[id] = None /\ stop'[id] = stop[id] /\ live' = live
        BY <2>4, <3>1 DEF Removes
      <4>4. Dark
        BY <1>5, <1>6, <2>4, <3>1, <4>3 DEF Removes, Dormant
      <4>5. QED
        BY <4>2, <4>3, <4>4
    <3>2. CASE byID[id] # None
      <4>1. req'[r] = [req[r] EXCEPT !.at = IF req[r].at = "evict" THEN "cancelThenInsert"
                                            ELSE "cancel",
                                     !.row.version = stop[id]]
        BY <1>2, <2>4, <3>2 DEF Removes
      <4>2. req'[r].at \in {"cancel", "cancelThenInsert"} /\ req'[r].row.version = stop[id]
        BY <1>2, <4>1 DEF RequestType, RowType
      <4>3. byID'[id] = None /\ stop'[id] = None /\ live' = live
        BY <1>2, <2>4, <3>2 DEF Removes
      <4>4. alive \subseteq {stop[id]}
        BY <1>5, <1>6, <2>4, <3>2, <4>3 DEF Removes, Dormant
      <4>5. QED
        BY <4>2, <4>3, <4>4
    <3>3. QED
      BY <3>1, <3>2
  <2>5. CASE Cancels(r)
    <3>1. byID[id] = None /\ stop[id] = None /\ Alive(id) \subseteq {req[r].row.version}
      BY <1>5, <2>5 DEF Cancels
    <3>2. Dark /\ byID'[id] = None
      BY <1>2, <1>4, <2>5, <3>1 DEF Cancels, Alive, alive
    <3>3. req'[r].at \in {"idle", "insert"}
      <4>1. req'[r] = Idle \/ req'[r] = [req[r] EXCEPT !.at = "insert", !.row = NoRow]
        BY <1>2, <2>5 DEF Cancels, Answered
      <4>2. QED
        BY <1>2, <4>1, Resting DEF RequestType
    <3>4. QED
      BY <3>2, <3>3
  <2>6. CASE ~(Adds(r) \/ AddsAgain(r) \/ Starts(r) \/ Removes(r) \/ Cancels(r))
    <3>1. byID' = byID /\ stop' = stop /\ live' = live
      BY <2>6 DEF RequestStep, ChecksFree, ChecksStored, ReadsSecret, Saves, Written, ReadsBack,
                  DeletesRow, Clears, StatementFails, Resolves, SavesTask, registry
    <3>2. req[r].at \notin {"cancel", "cancelThenInsert", "start"}
      BY <2>6 DEF RequestStep, ChecksFree, ChecksStored, ReadsSecret, Saves, Written, ReadsBack,
                  DeletesRow, Clears, StatementFails, Resolves, SavesTask
    <3>3. req'[r].at \in {"idle", "save", "secret", "readBack", "add", "clear", "remove", "task"}
      BY <1>2, <2>6, Resting
         DEF RequestStep, ChecksFree, ChecksStored, ReadsSecret, Saves, Written, ReadsBack,
             DeletesRow, Clears, StatementFails, Resolves, SavesTask, Answered, Goes, RequestType
    <3>4. QED
      BY <1>7, <3>1, <3>2, <3>3
  <2>7. QED
    BY <2>1, <2>2, <2>3, <2>4, <2>5, <2>6
<1>10. QED
  <2>1. Active(id)' \subseteq {r} /\ (Active(id)' = {} => req'[r].at = "idle")
    BY <1>1, Only DEF Active, Turned
  <2>2. Alive(id)' = alive /\ (Dormant(id)' <=> Dark)
    BY DEF Alive, Dormant, IdOf, alive
  <2>3. ~Awaited(id)'
    BY <1>1, Only DEF Turned, Awaited, IdOf
  <2>4. QED
    BY <1>1, <1>9, <2>1, <2>2, <2>3 DEF Alight, Active

LEMMA OwnFollows ==
  ASSUME Typed, Owned, NEW r \in Requests, RequestStep(r), NEW id \in Ids, req[r].id = id,
         Alone(id), Alight(id), Follows(id), id \notin failed'
  PROVE  Follows(id)'
<1>1. Turned(r) /\ Grows
  BY Turning, Growing
<1>2. /\ byID \in [Ids -> {None} \cup DOMAIN runtimes] /\ rows \in [Ids -> RowType]
      /\ req \in [Requests -> RequestType] /\ req[r] \in RequestType
      /\ ~NoRow.secret
  BY DEF Typed, TypeOK, NoRow
<1>3. Active(id) = {r}
  BY Only
<1>4. /\ req[r].at \in Building =>
           /\ rows[id].secret /\ runtimes[req[r].rt].version = rows[id].version
           /\ runtimes'[req[r].rt] = runtimes[req[r].rt] /\ req[r].rt # None
  <2>1. req[r].at \in Building =>
          rows[id].secret /\ runtimes[req[r].rt].version = rows[id].version
    BY <1>3 DEF Follows
  <2>2. ASSUME req[r].at \in Building
        PROVE  req[r].rt \in DOMAIN runtimes /\ req[r].rt # None
    <3>1. req[r].rt \in DOMAIN runtimes
      BY <2>2 DEF Owned
    <3>2. QED
      BY <3>1, Named DEF None
  <2>3. QED
    BY <1>1, <2>1, <2>2 DEF Grows
<1>5. /\ req[r].at \in {"create", "update", "secret", "save", "delete", "scoped", "task"} =>
           AsStored(id)
      /\ (req[r].at = "save" /\ req[r].blank) => req[r].row.secret = rows[id].secret
      /\ req[r].at = "readBack" => (rows[id].secret \/ byID[id] = None)
      /\ req[r].at \in {"clear", "remove", "cancel"} => rows[id] = NoRow
      /\ req[r].at \in {"cancel", "insert"} => byID[id] = None
      /\ req[r].at = "start" => byID[id] = req[r].rt
  BY <1>3 DEF Follows, Alight
<1>6. byID[id] # None => runtimes'[byID[id]] = runtimes[byID[id]]
  BY <1>1, <1>2 DEF Grows
<1> DEFINE Fits == IF rows'[id].secret
                   THEN byID'[id] # None /\ runtimes'[byID'[id]].version = rows'[id].version
                   ELSE byID'[id] = None
           InTime ==
             /\ req'[r].at \in {"idle", "create", "update", "secret", "save", "delete", "scoped",
                                "task"} => Fits
             /\ (req'[r].at = "save" /\ req'[r].blank) => req'[r].row.secret = rows'[id].secret
             /\ req'[r].at = "readBack" => (rows'[id].secret \/ byID'[id] = None)
             /\ req'[r].at \in Building =>
                  rows'[id].secret /\ runtimes'[req'[r].rt].version = rows'[id].version
             /\ req'[r].at \in {"clear", "remove", "cancel"} => rows'[id] = NoRow
<1>7. UNCHANGED <<rows, byID>> /\ AsStored(id) => Fits
  BY <1>6 DEF AsStored
<1>8. ASSUME Inserted(r), req[r].at \in {"add", "insert"}, rows' = rows
      PROVE  InTime
  <2>1. byID'[id] = req[r].rt
    BY <1>2, <1>8 DEF Inserted
  <2>2. (req'[r].at = "start" /\ req'[r].rt = req[r].rt) \/ req'[r].at = "idle"
    BY <1>2, <1>8, Resting DEF Inserted, Goes, Answered, RequestType
  <2>3. Fits
    BY <1>4, <1>8, <2>1 DEF Building
  <2>4. QED
    BY <1>4, <1>8, <2>2, <2>3 DEF Building
<1>9. InTime
  <2>1. CASE ChecksFree(r)
    <3>1. Fits
      BY <1>5, <1>7, <2>1 DEF ChecksFree, tables, registry
    <3>2. CASE byID[id] # None
      <4>1. req'[r] = Idle
        BY <1>2, <2>1, <3>2 DEF ChecksFree, Answered
      <4>2. QED
        BY <3>1, <4>1, Resting DEF Building
    <3>3. CASE byID[id] = None
      <4>1. req'[r] = [req[r] EXCEPT !.at = "save", !.row.position = Len(ordered)]
        BY <1>2, <2>1, <3>3 DEF ChecksFree
      <4>2. req'[r].at = "save" /\ req'[r].blank = req[r].blank
        BY <1>2, <4>1 DEF RequestType
      <4>3. ~req[r].blank
        BY <2>1 DEF ChecksFree, Typed
      <4>4. QED
        BY <3>1, <4>2, <4>3 DEF Building
    <3>4. QED
      BY <3>2, <3>3
  <2>2. CASE ChecksStored(r)
    <3>1. Fits
      BY <1>5, <1>7, <2>2 DEF ChecksStored, tables, registry
    <3>2. CASE rows[id] = NoRow
      <4>1. req'[r] = Idle
        BY <1>2, <2>2, <3>2 DEF ChecksStored, Answered
      <4>2. QED
        BY <3>1, <4>1, Resting DEF Building
    <3>3. CASE rows[id] # NoRow
      <4>1. req'[r] = [req[r] EXCEPT !.at = IF req[r].blank THEN "secret" ELSE "save",
                                     !.row.position = rows[id].position]
        BY <1>2, <2>2, <3>3 DEF ChecksStored
      <4>2. /\ req'[r].at = IF req[r].blank THEN "secret" ELSE "save"
            /\ req'[r].blank = req[r].blank
        BY <1>2, <4>1 DEF RequestType
      <4>3. QED
        BY <3>1, <4>2 DEF Building
    <3>4. QED
      BY <3>2, <3>3
  <2>3. CASE ReadsSecret(r)
    <3>1. Fits /\ rows' = rows
      BY <1>5, <1>7, <2>3 DEF ReadsSecret, tables, registry
    <3>2. req'[r] = [req[r] EXCEPT !.at = "save", !.row.secret = rows[id].secret]
      BY <1>2, <2>3 DEF ReadsSecret
    <3>3. req'[r].at = "save" /\ req'[r].row.secret = rows[id].secret
      BY <1>2, <3>2 DEF RequestType, RowType
    <3>4. QED
      BY <3>1, <3>3 DEF Building
  <2>4. CASE Saves(r)
    <3>1. rows'[id].secret = (~req[r].blank \/ req[r].row.secret) /\ byID' = byID
      BY <1>2, <2>4 DEF Saves, Written, registry
    <3>2. req'[r].at = "readBack"
      BY <1>2, <2>4 DEF Saves, Written, RequestType
    <3>3. rows'[id].secret \/ byID'[id] = None
      BY <1>5, <2>4, <3>1 DEF Saves, Written, AsStored
    <3>4. QED
      BY <3>2, <3>3 DEF Building
  <2>5. CASE ReadsBack(r)
    <3>1. CASE rows[id].secret
      <4>1. req'[r].at = "add" /\ req'[r].rt = Len(runtimes) + 1
        BY <1>2, <2>5, <3>1 DEF ReadsBack, RequestType
      <4>2. runtimes' = Append(runtimes, Built(id, rows[id])) /\ rows' = rows
        BY <2>5, <3>1 DEF ReadsBack, tables
      <4>3. runtimes \in Seq([id : Ids, version : Nat, since : Nat])
            /\ Built(id, rows[id]) \in [id : Ids, version : Nat, since : Nat]
        BY <1>2 DEF Built, RowType, Typed, TypeOK
      <4>4. runtimes'[Len(runtimes) + 1] = Built(id, rows[id])
        BY <4>2, <4>3, AppendProperties, LenProperties
      <4>5. QED
        BY <3>1, <4>1, <4>2, <4>4 DEF Building, Built
    <3>2. CASE ~rows[id].secret
      <4>1. req'[r] = Idle /\ rows' = rows /\ byID' = byID
        BY <1>2, <2>5, <3>2 DEF ReadsBack, Answered, tables
      <4>2. byID[id] = None
        BY <1>5, <2>5, <3>2 DEF ReadsBack
      <4>3. Fits
        BY <3>2, <4>1, <4>2
      <4>4. QED
        BY <4>1, <4>3, Resting DEF Building
    <3>3. QED
      BY <3>1, <3>2
  <2>6. CASE Adds(r)
    <3>1. CASE byID[id] # None
      <4>1. req'[r].at = "evict" /\ req'[r].rt = req[r].rt /\ rows' = rows
        BY <1>2, <2>6, <3>1 DEF Adds, Goes, RequestType, tables
      <4>2. QED
        BY <1>4, <2>6, <4>1 DEF Adds, Building
    <3>2. CASE byID[id] = None
      BY <1>8, <2>6, <3>2 DEF Adds, tables
    <3>3. QED
      BY <3>1, <3>2
  <2>7. CASE AddsAgain(r)
    BY <1>8, <2>7 DEF AddsAgain, tables
  <2>8. CASE Starts(r)
    <3>1. req'[r] = Idle /\ rows' = rows /\ byID' = byID
      BY <1>2, <2>8 DEF Starts, Answered, tables
    <3>2. Fits
      BY <1>4, <1>5, <2>8, <3>1 DEF Starts, Building
    <3>3. QED
      BY <3>1, <3>2, Resting DEF Building
  <2>9. CASE Removes(r)
    <3>1. rows' = rows /\ byID'[id] = None
      BY <1>2, <2>9 DEF Removes, tables
    <3>2. CASE req[r].at = "evict"
      <4>1. req'[r] = [req[r] EXCEPT !.at = "insert"]
              \/ req'[r] = [req[r] EXCEPT !.at = "cancelThenInsert", !.row.version = stop[id]]
        BY <1>2, <2>9, <3>2 DEF Removes
      <4>2. req'[r].at \in {"insert", "cancelThenInsert"} /\ req'[r].rt = req[r].rt
        BY <1>2, <4>1 DEF RequestType
      <4>3. QED
        BY <1>4, <3>1, <3>2, <4>2 DEF Building
    <3>3. CASE req[r].at = "remove"
      <4>1. req'[r] = Idle \/ req'[r] = [req[r] EXCEPT !.at = "cancel", !.row.version = stop[id]]
        BY <1>2, <2>9, <3>3 DEF Removes
      <4>2. req'[r].at \in {"idle", "cancel"}
        BY <1>2, <4>1, Resting DEF RequestType
      <4>3. Fits /\ rows'[id] = NoRow
        BY <1>2, <1>5, <3>1, <3>3
      <4>4. QED
        BY <4>2, <4>3 DEF Building
    <3>4. QED
      BY <2>9, <3>2, <3>3 DEF Removes
  <2>10. CASE Cancels(r)
    <3>1. rows' = rows /\ byID' = byID
      BY <2>10 DEF Cancels, tables
    <3>2. CASE req[r].at = "cancel"
      <4>1. req'[r] = Idle
        BY <1>2, <2>10, <3>2 DEF Cancels, Answered
      <4>2. Fits
        BY <1>2, <1>5, <3>1, <3>2
      <4>3. QED
        BY <4>1, <4>2, Resting DEF Building
    <3>3. CASE req[r].at = "cancelThenInsert"
      <4>1. req'[r].at = "insert" /\ req'[r].rt = req[r].rt
        BY <1>2, <2>10, <3>3 DEF Cancels, RequestType
      <4>2. QED
        BY <1>4, <3>1, <3>3, <4>1 DEF Building
    <3>4. QED
      BY <2>10, <3>2, <3>3 DEF Cancels
  <2>11. CASE DeletesRow(r)
    <3>1. CASE rows[id] = NoRow
      <4>1. req'[r] = Idle /\ rows' = rows /\ byID' = byID
        BY <1>2, <2>11, <3>1 DEF DeletesRow, Answered, registry
      <4>2. Fits
        BY <1>5, <1>7, <2>11, <4>1 DEF DeletesRow
      <4>3. QED
        BY <4>1, <4>2, Resting DEF Building
    <3>2. CASE rows[id] # NoRow
      <4>1. req'[r].at = "clear" /\ rows'[id] = NoRow
        BY <1>2, <2>11, <3>2 DEF DeletesRow, Goes, RequestType
      <4>2. QED
        BY <4>1 DEF Building
    <3>3. QED
      BY <3>1, <3>2
  <2>12. CASE Clears(r)
    <3>1. req'[r].at = "remove" /\ rows'[id] = NoRow
      BY <1>2, <1>5, <2>12 DEF Clears, Goes, RequestType
    <3>2. QED
      BY <3>1 DEF Building
  <2>13. CASE StatementFails(r)
    BY <2>13 DEF StatementFails
  <2>14. CASE Resolves(r) \/ SavesTask(r)
    <3>1. Fits
      BY <1>5, <1>7, <2>14 DEF Resolves, SavesTask, tables, registry
    <3>2. req'[r] = Idle \/ req'[r] = [req[r] EXCEPT !.at = "task", !.rt = byID[id]]
      BY <1>2, <2>14 DEF Resolves, SavesTask, Answered
    <3>3. req'[r].at \in {"idle", "task"}
      BY <1>2, <3>2, Resting DEF RequestType
    <3>4. QED
      BY <3>1, <3>3 DEF Building
  <2>15. QED
    BY <2>1, <2>2, <2>3, <2>4, <2>5, <2>6, <2>7, <2>8, <2>9, <2>10, <2>11, <2>12, <2>13, <2>14
       DEF RequestStep
<1>10. QED
  <2>1. Active(id)' \subseteq {r} /\ (Active(id)' = {} => req'[r].at = "idle")
    BY <1>1, Only DEF Active, Turned
  <2>2. AsStored(id)' <=> Fits
    BY DEF AsStored
  <2>3. QED
    BY <1>9, <2>1, <2>2 DEF Follows, Active

LEMMA OwnDescends ==
  ASSUME Typed, Owned, NEW r \in Requests, RequestStep(r), NEW id \in Ids, req[r].id = id,
         Alone(id), Descends(id), id \notin dirty'
  PROVE  Descends(id)'
<1>1. Turned(r) /\ Grows
  BY Turning, Growing
<1>2. /\ byID \in [Ids -> {None} \cup DOMAIN runtimes] /\ rows \in [Ids -> RowType]
      /\ kept \in [Ids -> SUBSET Nat] /\ saves \in Nat
      /\ req \in [Requests -> RequestType] /\ req[r] \in RequestType
  BY DEF Typed, TypeOK
<1>3. Active(id) = {r}
  BY Only
<1> DEFINE Of(rt) == rows'[id] # NoRow /\ runtimes'[rt].since = rows'[id].since
           Right == /\ req'[r].at # "clear" =>
                         kept'[id] \subseteq IF rows'[id] = NoRow THEN {} ELSE {rows'[id].since}
                    /\ (byID'[id] # None /\ req'[r].at \notin {"clear", "remove"}) => Of(byID'[id])
                    /\ req'[r].at \in Building \cup {"task"} => Of(req'[r].rt)
<1>4. /\ req[r].at # "clear" =>
           kept[id] \subseteq IF rows[id] = NoRow THEN {} ELSE {rows[id].since}
      /\ (byID[id] # None /\ req[r].at \notin {"clear", "remove"}) => OfRow(id, byID[id])
      /\ req[r].at \in Building \cup {"task"} => OfRow(id, req[r].rt)
  BY <1>3 DEF Descends
<1>5. \A rt \in DOMAIN runtimes : (OfRow(id, rt) /\ rows'[id] = rows[id]) => Of(rt)
  BY <1>1 DEF Grows, OfRow
<1>6. /\ byID[id] # None => byID[id] \in DOMAIN runtimes
      /\ req[r].at \in Building \cup {"task"} => req[r].rt \in DOMAIN runtimes
  BY <1>2 DEF Owned
<1> HIDE DEF Of
<1>7. ASSUME rows' = rows, kept' = kept, byID' = byID,
             req[r].at \notin {"clear", "remove"},
             req'[r].at \in Building \cup {"task"} =>
               (req'[r].rt = req[r].rt /\ req[r].at \in Building \cup {"task"})
      PROVE  Right
  BY <1>4, <1>5, <1>6, <1>7
<1>8. ASSUME Inserted(r), req[r].at \in {"add", "insert"}, rows' = rows, kept' = kept
      PROVE  Right
  <2>1. byID'[id] = req[r].rt
    BY <1>2, <1>8 DEF Inserted
  <2>2. (req'[r].at = "start" /\ req'[r].rt = req[r].rt) \/ req'[r].at = "idle"
    BY <1>2, <1>8, Resting DEF Inserted, Goes, Answered, RequestType
  <2>3. Of(req[r].rt)
    BY <1>4, <1>5, <1>6, <1>8 DEF Building
  <2>4. QED
    BY <1>4, <1>8, <2>1, <2>2, <2>3 DEF Building
<1>9. Right
  <2>1. CASE ChecksFree(r) \/ ChecksStored(r) \/ ReadsSecret(r)
    <3>1. req'[r].at \in {"idle", "save", "secret"}
      BY <1>2, <2>1, Resting DEF ChecksFree, ChecksStored, ReadsSecret, Answered, RequestType
    <3>2. QED
      BY <1>7, <2>1, <3>1 DEF ChecksFree, ChecksStored, ReadsSecret, Building, tables, registry
  <2>2. CASE Saves(r)
    <3>1. /\ req'[r].at = "readBack" /\ kept' = kept /\ byID' = byID /\ runtimes' = runtimes
          /\ rows'[id].version = saves + 1
          /\ rows'[id].since = IF rows[id] = NoRow THEN saves + 1 ELSE rows[id].since
      BY <1>2, <2>2 DEF Saves, Written, RequestType, registry
    <3>2. rows'[id] # NoRow
      BY <1>2, <3>1 DEF NoRow
    <3>3. kept'[id] \subseteq {rows'[id].since}
      BY <1>4, <2>2, <3>1 DEF Saves, Written
    <3>4. byID[id] # None => (rows[id] # NoRow /\ runtimes[byID[id]].since = rows[id].since)
      BY <1>4, <2>2 DEF Saves, Written, OfRow
    <3>5. QED
      BY <3>1, <3>2, <3>3, <3>4 DEF Building, Of
  <2>3. CASE ReadsBack(r)
    <3>1. CASE rows[id].secret
      <4>1. req'[r].at = "add" /\ req'[r].rt = Len(runtimes) + 1
        BY <1>2, <2>3, <3>1 DEF ReadsBack, RequestType
      <4>2. /\ runtimes' = Append(runtimes, Built(id, rows[id]))
            /\ rows' = rows /\ kept' = kept /\ byID' = byID
        BY <2>3, <3>1 DEF ReadsBack, tables
      <4>3. runtimes \in Seq([id : Ids, version : Nat, since : Nat])
            /\ Built(id, rows[id]) \in [id : Ids, version : Nat, since : Nat]
        BY <1>2 DEF Built, RowType, Typed, TypeOK
      <4>4. runtimes'[Len(runtimes) + 1] = Built(id, rows[id])
        BY <4>2, <4>3, AppendProperties, LenProperties
      <4>5. rows[id] # NoRow
        <5>1. rows[id].secret # NoRow.secret
          BY <3>1 DEF NoRow
        <5>2. QED
          BY <5>1
      <4>6. Of(req'[r].rt)
        BY <4>1, <4>2, <4>4, <4>5 DEF Of, Built
      <4>7. byID[id] # None => Of(byID[id])
        BY <1>4, <1>5, <1>6, <2>3, <4>2 DEF ReadsBack
      <4>8. QED
        BY <1>4, <2>3, <4>1, <4>2, <4>6, <4>7 DEF ReadsBack
    <3>2. CASE ~rows[id].secret
      <4>1. req'[r] = Idle /\ rows' = rows /\ byID' = byID /\ kept' = kept
        BY <1>2, <2>3, <3>2 DEF ReadsBack, Answered, tables
      <4>2. QED
        BY <1>7, <2>3, <4>1, Resting DEF ReadsBack, Building
    <3>3. QED
      BY <3>1, <3>2
  <2>4. CASE Adds(r)
    <3>1. CASE byID[id] # None
      <4>1. req'[r].rt = req[r].rt
        BY <1>2, <2>4, <3>1 DEF Adds, Goes, RequestType
      <4>2. QED
        BY <1>7, <2>4, <3>1, <4>1 DEF Adds, Building, tables
    <3>2. CASE byID[id] = None
      BY <1>8, <2>4, <3>2 DEF Adds, tables
    <3>3. QED
      BY <3>1, <3>2
  <2>5. CASE AddsAgain(r)
    BY <1>8, <2>5 DEF AddsAgain, tables
  <2>6. CASE Starts(r)
    <3>1. req'[r] = Idle
      BY <1>2, <2>6 DEF Starts, Answered
    <3>2. QED
      BY <1>7, <2>6, <3>1, Resting DEF Starts, Building, tables
  <2>7. CASE Removes(r)
    <3>1. rows' = rows /\ kept' = kept /\ byID'[id] = None
      BY <1>2, <2>7 DEF Removes, tables
    <3>2. req'[r].at \in Building => (req'[r].rt = req[r].rt /\ req[r].at \in Building)
      <4>1. \/ req'[r] = Idle
            \/ req[r].at = "evict" /\ req'[r] = [req[r] EXCEPT !.at = "insert"]
            \/ req'[r] = [req[r] EXCEPT !.at = "cancel", !.row.version = stop[id]]
            \/ /\ req[r].at = "evict"
               /\ req'[r] = [req[r] EXCEPT !.at = "cancelThenInsert", !.row.version = stop[id]]
        BY <1>2, <2>7 DEF Removes
      <4>2. \/ req'[r].at \in {"idle", "cancel"}
            \/ req[r].at = "evict" /\ req'[r].rt = req[r].rt
        BY <1>2, <4>1, Resting DEF RequestType
      <4>3. QED
        BY <4>2 DEF Building
    <3>3. req'[r].at \notin {"task", "clear"}
      <4>1. \/ req'[r] = Idle
            \/ req'[r] = [req[r] EXCEPT !.at = "insert"]
            \/ req'[r] = [req[r] EXCEPT !.at = "cancel", !.row.version = stop[id]]
            \/ req'[r] = [req[r] EXCEPT !.at = "cancelThenInsert", !.row.version = stop[id]]
        BY <1>2, <2>7 DEF Removes
      <4>2. QED
        BY <1>2, <4>1, Resting DEF RequestType
    <3>4. QED
      BY <1>4, <1>5, <1>6, <2>7, <3>1, <3>2, <3>3 DEF Removes, Building
  <2>8. CASE Cancels(r)
    <3>1. req'[r] = Idle
            \/ (/\ req[r].at = "cancelThenInsert"
                /\ req'[r] = [req[r] EXCEPT !.at = "insert", !.row = NoRow])
      BY <1>2, <2>8 DEF Cancels, Answered
    <3>2. req'[r].at = "idle" \/ (req[r].at = "cancelThenInsert" /\ req'[r].rt = req[r].rt)
      BY <1>2, <3>1, Resting DEF RequestType
    <3>3. QED
      BY <1>7, <2>8, <3>2 DEF Cancels, Building, tables
  <2>9. CASE DeletesRow(r)
    <3>1. CASE rows[id] = NoRow
      <4>1. req'[r] = Idle
        BY <1>2, <2>9, <3>1 DEF DeletesRow, Answered
      <4>2. QED
        BY <1>7, <2>9, <3>1, <4>1, Resting DEF DeletesRow, Building, registry
    <3>2. CASE rows[id] # NoRow
      <4>1. req'[r].at = "clear"
        BY <1>2, <2>9, <3>2 DEF DeletesRow, Goes, RequestType
      <4>2. QED
        BY <4>1 DEF Building
    <3>3. QED
      BY <3>1, <3>2
  <2>10. CASE Clears(r)
    <3>1. req'[r].at = "remove" /\ kept'[id] = {}
      BY <1>2, <2>10 DEF Clears, Goes, RequestType
    <3>2. QED
      BY <3>1 DEF Building
  <2>11. CASE StatementFails(r)
    BY <2>11 DEF StatementFails
  <2>12. CASE Resolves(r)
    <3>1. CASE byID[id] = None
      <4>1. req'[r] = Idle
        BY <1>2, <2>12, <3>1 DEF Resolves, Answered
      <4>2. QED
        BY <1>7, <2>12, <4>1, Resting DEF Resolves, Building, tables, registry
    <3>2. CASE byID[id] # None
      <4>1. req'[r].at = "task" /\ req'[r].rt = byID[id]
        BY <1>2, <2>12, <3>2 DEF Resolves, RequestType
      <4>2. rows' = rows /\ kept' = kept /\ byID' = byID
        BY <2>12 DEF Resolves, tables, registry
      <4>3. Of(byID[id])
        BY <1>4, <1>5, <1>6, <2>12, <3>2, <4>2 DEF Resolves
      <4>4. QED
        BY <1>4, <2>12, <4>1, <4>2, <4>3 DEF Resolves
    <3>3. QED
      BY <3>1, <3>2
  <2>13. CASE SavesTask(r)
    <3>1. req'[r] = Idle /\ rows' = rows /\ byID' = byID
      BY <1>2, <2>13 DEF SavesTask, Answered, registry
    <3>2. kept'[id] = kept[id] \cup {runtimes[req[r].rt].since}
      BY <1>2, <2>13 DEF SavesTask
    <3>3. rows[id] # NoRow /\ runtimes[req[r].rt].since = rows[id].since
      BY <1>4, <2>13 DEF SavesTask, OfRow
    <3>4. kept'[id] \subseteq {rows'[id].since} /\ rows'[id] # NoRow
      BY <1>4, <2>13, <3>1, <3>2, <3>3 DEF SavesTask
    <3>5. byID[id] # None => Of(byID[id])
      BY <1>4, <1>5, <1>6, <2>13, <3>1 DEF SavesTask
    <3>6. QED
      BY <3>1, <3>4, <3>5, Resting DEF Building
  <2>14. QED
    BY <2>1, <2>2, <2>3, <2>4, <2>5, <2>6, <2>7, <2>8, <2>9, <2>10, <2>11, <2>12, <2>13
       DEF RequestStep
<1>10. QED
  <2>1. Active(id)' \subseteq {r} /\ (Active(id)' = {} => req'[r].at = "idle")
    BY <1>1, Only DEF Active, Turned
  <2>2. QED
    BY <1>9, <2>1 DEF Descends, Active, OfRow, Of
-----------------------------------------------------------------------------
(***************************************************************************)
(* Every step.                                                             *)
(***************************************************************************)

LEMMA RequestIsRight ==
  ASSUME Inv, NEW r \in Requests, RequestStep(r)
  PROVE  Inv'
<1>1. Typed /\ Owned
  BY DEF Inv
<1>2. Turned(r)
  BY <1>1, Turning
<1>3. Typed' /\ Owned'
  BY <1>1, RequestTyped, RequestOwned
<1>4. crossed \subseteq dirty /\ failed \subseteq failed' /\ dirty \subseteq dirty' /\ crossed' = crossed
      /\ crossed' \subseteq dirty'
  <2>1. failed \subseteq failed' /\ dirty \subseteq dirty'
    BY DEF RequestStep, ChecksFree, ChecksStored, ReadsSecret, Saves, Written, ReadsBack, Adds,
           AddsAgain, Starts, Removes, Cancels, DeletesRow, Clears, StatementFails, Resolves,
           SavesTask, history
  <2>2. QED
    BY <1>1, <1>2, <2>1 DEF Turned, Typed
<1>5. req[r].id \in Ids
  BY <1>1, <1>2 DEF Turned, Typed
<1>6. ASSUME NEW id \in Ids \ crossed'
      PROVE  (Alone(id) /\ Filed(id) /\ Alight(id))'
  <2>1. Alone(id) /\ Filed(id) /\ Alight(id)
    BY <1>4 DEF Inv, Agreed
  <2>2. CASE id = req[r].id
    BY <1>1, <2>1, <2>2, Only, OwnFiled, OwnAlight
  <2>3. CASE id # req[r].id
    BY <1>1, <2>1, <2>3, Apart, Elsewhere
  <2>4. QED
    BY <2>2, <2>3
<1>7. ASSUME NEW id \in Ids \ (crossed' \cup failed')
      PROVE  Follows(id)'
  <2>1. Alone(id) /\ Alight(id) /\ Follows(id)
    BY <1>4 DEF Inv, Agreed, InStep
  <2>2. CASE id = req[r].id
    BY <1>1, <2>1, <2>2, OwnFollows
  <2>3. CASE id # req[r].id
    BY <1>1, <2>1, <2>3, Apart, Elsewhere
  <2>4. QED
    BY <2>2, <2>3
<1>8. ASSUME NEW id \in Ids \ dirty'
      PROVE  Descends(id)'
  <2>1. Alone(id) /\ Descends(id)
    BY <1>4 DEF Inv, Agreed, Inherits
  <2>2. CASE id = req[r].id
    BY <1>1, <2>1, <2>2, OwnDescends
  <2>3. CASE id # req[r].id
    BY <1>1, <2>1, <2>3, Apart, Elsewhere
  <2>4. QED
    BY <2>2, <2>3
<1>9. QED
  BY <1>3, <1>6, <1>7, <1>8 DEF Inv, Agreed, InStep, Inherits

LEMMA BeginIsRight ==
  ASSUME Inv, NEW r \in Requests, NEW x \in Ids, NEW blank \in BOOLEAN,
         NEW op \in {"create", "update", "delete", "scoped"}, Begin(r, op, x, blank)
  PROVE  Inv'
<1> DEFINE new == [Idle EXCEPT !.at = op, !.id = x, !.blank = blank]
<1>1. /\ req' = [req EXCEPT ![r] = new] /\ req[r].at = "idle"
      /\ UNCHANGED <<rows, kept, runtimes, byID, ordered, stop, running, toStart, live, saves,
                     failed>>
  BY DEF Begin
<1>2. new.at = op /\ new.id = x
  BY Resting DEF RequestType
<1> HIDE DEF new
<1>3. Typed /\ Owned /\ Typed' /\ Owned' /\ req \in [Requests -> RequestType]
  BY BeginTyped DEF Inv, Typed
<1>4. /\ \A s \in Requests \ {r} : req'[s] = req[s]
      /\ req'[r].at = op /\ req'[r].id = x
  BY <1>1, <1>2, <1>3
<1>5. crossed \subseteq crossed' /\ dirty \subseteq dirty'
  BY DEF Begin
<1>6. ASSUME NEW id \in Ids, id # x
      PROVE  Untouched(id)
  <2>1. Active(id)' = Active(id) /\ \A s \in Active(id) : req'[s] = req[s]
    BY <1>1, <1>4, <1>6 DEF Active
  <2>2. Alive(id)' = Alive(id) /\ (Awaited(id)' <=> Awaited(id)) /\ (Filed(id) => Filed(id)') /\ Grows
    BY <1>1 DEF Alive, Awaited, Filed, Once, IdOf, Grows
  <2>3. QED
    BY <1>1, <2>1, <2>2 DEF Untouched
<1>7. ASSUME x \notin crossed'
      PROVE  /\ Active(x) = {} /\ ~Awaited(x) /\ Active(x)' = {r} /\ ~Awaited(x)'
             /\ Dormant(x)' <=> Dormant(x)
             /\ Alive(x)' = Alive(x)
  <2>1. Active(x) = {} /\ ~Awaited(x)
    BY <1>3, <1>7 DEF Begin, Awaited, Typed, TypeOK
  <2>2. Active(x)' = {r}
    BY <1>4, <2>1 DEF Active
  <2>3. QED
    BY <1>1, <2>1, <2>2 DEF Awaited, Dormant, Alive, IdOf
<1>8. ASSUME NEW id \in Ids \ crossed'
      PROVE  (Alone(id) /\ Filed(id) /\ Alight(id))'
  <2>1. Alone(id) /\ Filed(id) /\ Alight(id)
    BY <1>5 DEF Inv, Agreed
  <2>2. CASE id = x
    <3>1. Alone(id)'
      BY <1>7, <2>2 DEF Alone
    <3>2. Filed(id)'
      BY <1>1, <2>1 DEF Filed, Once, IdOf
    <3>3. Alight(id)'
      BY <1>1, <1>4, <1>7, <2>1, <2>2 DEF Alight
    <3>4. QED
      BY <3>1, <3>2, <3>3
  <2>3. CASE id # x
    BY <1>3, <1>6, <2>1, <2>3, Elsewhere
  <2>4. QED
    BY <2>2, <2>3
<1>9. ASSUME NEW id \in Ids \ (crossed' \cup failed')
      PROVE  Follows(id)'
  <2>1. Follows(id)
    BY <1>1, <1>5 DEF Inv, InStep
  <2>2. CASE id = x
    <3>1. AsStored(id)
      BY <1>7, <1>9, <2>1, <2>2 DEF Follows
    <3>2. AsStored(id)'
      BY <1>1, <3>1 DEF AsStored
    <3>3. QED
      BY <1>4, <1>7, <1>9, <2>2, <3>2 DEF Follows, Building
  <2>3. CASE id # x
    BY <1>3, <1>6, <2>1, <2>3, Elsewhere
  <2>4. QED
    BY <2>2, <2>3
<1>10. ASSUME NEW id \in Ids \ dirty'
       PROVE  Descends(id)'
  <2>1. Descends(id) /\ id \notin crossed'
    BY <1>3, <1>5 DEF Inv, Inherits, Typed
  <2>2. CASE id = x
    BY <1>1, <1>4, <1>7, <2>1, <2>2 DEF Descends, OfRow, Building
  <2>3. CASE id # x
    BY <1>3, <1>6, <2>1, <2>3, Elsewhere
  <2>4. QED
    BY <2>2, <2>3
<1>11. QED
  BY <1>3, <1>8, <1>9, <1>10 DEF Inv, Agreed, InStep, Inherits

LEMMA RunTakesIsRight ==
  ASSUME Inv, RunTakes
  PROVE  Inv'
<1>1. /\ Typed /\ Owned /\ Typed' /\ Owned' /\ toStart = <<>> /\ ~running
      /\ byID \in [Ids -> {None} \cup DOMAIN runtimes]
  BY RunTyped DEF RunTakes, Inv, Typed, TypeOK
<1>2. /\ UNCHANGED <<rows, kept, runtimes, byID, ordered, stop, live, req, failed>>
      /\ toStart' = ordered /\ running' /\ crossed \subseteq crossed' /\ dirty \subseteq dirty'
  BY DEF RunTakes
<1>3. ASSUME NEW id \in Ids \ crossed'
      PROVE  (Alone(id) /\ Filed(id) /\ Alight(id))'
  <2>1. Alone(id) /\ Filed(id) /\ Alight(id) /\ Active(id) = {} /\ Active(id)' = {}
    BY <1>2, <1>3 DEF Inv, Agreed, RunTakes, Active
  <2>2. Dormant(id) /\ Dormant(id)'
    BY <1>1, <1>2, <2>1 DEF Alight, Dormant, Alive, IdOf
  <2>3. byID[id] # None => Awaited(id)'
    BY <1>1, <1>2, <2>1 DEF Filed, Owned, Awaited, IdOf
  <2>4. Filed(id)'
    BY <1>2, <2>1 DEF Filed, Once, IdOf
  <2>5. Alight(id)'
    BY <1>2, <2>1, <2>2, <2>3 DEF Alight
  <2>6. QED
    BY <2>1, <2>4, <2>5 DEF Alone
<1>4. ASSUME NEW id \in Ids
      PROVE  (Follows(id) => Follows(id)') /\ (Descends(id) => Descends(id)')
  BY <1>2 DEF Follows, Descends, AsStored, OfRow, Active
<1>5. QED
  BY <1>1, <1>2, <1>3, <1>4 DEF Inv, Agreed, InStep, Inherits

LEMMA RunStartsIsRight ==
  ASSUME Inv, RunStarts
  PROVE  Inv'
<1> DEFINE rt == Head(toStart)
<1>1. Typed /\ Owned /\ Typed' /\ Owned' /\ running
  BY RunTyped DEF RunStarts, Inv, Typed
<1>2. /\ toStart \in Seq(DOMAIN runtimes) /\ toStart # <<>> /\ toStart' = Tail(toStart)
      /\ stop \in [Ids -> {None} \cup DOMAIN runtimes] /\ live \subseteq DOMAIN runtimes
      /\ UNCHANGED <<rows, kept, runtimes, byID, ordered, running, req, crossed, failed, dirty>>
      /\ stop' = [stop EXCEPT ![IdOf(rt)] = rt] /\ live' = live \cup {rt}
  BY <1>1 DEF RunStarts, Started, Typed, TypeOK
<1>3. /\ 1 \in DOMAIN toStart /\ toStart[1] = rt /\ rt \in DOMAIN runtimes
      /\ DOMAIN toStart' = 1..(Len(toStart) - 1) /\ DOMAIN toStart = 1..Len(toStart)
      /\ \A i \in DOMAIN toStart' : i + 1 \in DOMAIN toStart /\ toStart'[i] = toStart[i + 1]
      /\ Len(toStart) \in Nat \ {0}
  <2>1. Len(toStart) \in Nat \ {0} /\ DOMAIN toStart = 1..Len(toStart)
    BY <1>2, EmptySeq, LenProperties
  <2>2. /\ rt \in DOMAIN runtimes /\ rt = toStart[1] /\ Tail(toStart) \in Seq(DOMAIN runtimes)
        /\ Len(Tail(toStart)) = Len(toStart) - 1
        /\ \A i \in 1..Len(Tail(toStart)) : Tail(toStart)[i] = toStart[i + 1]
    BY <1>2, HeadTailProperties
  <2>3. DOMAIN Tail(toStart) = 1..(Len(toStart) - 1)
    BY <2>2, LenProperties
  <2>4. QED
    BY <1>2, <2>1, <2>2, <2>3
<1>4. IdOf(rt) \in Ids /\ rt # None
  BY <1>1, <1>3, Named DEF None
<1> HIDE DEF rt
<1>5. ASSUME NEW id \in Ids, Once(toStart, id)
      PROVE  Once(toStart, id)'
  <2>1. \A i \in DOMAIN toStart' : IdOf(toStart'[i]) = id =>
          /\ toStart'[i] = byID[id]
          /\ \A j \in DOMAIN toStart' : IdOf(toStart'[j]) = id => i = j
    BY <1>3, <1>5 DEF Once
  <2>2. QED
    BY <1>2, <2>1 DEF Once, IdOf
<1>6. ASSUME NEW id \in Ids, id # IdOf(rt)
      PROVE  Untouched(id)
  <2>1. Alive(id)' = Alive(id) /\ Active(id)' = Active(id)
    BY <1>2, <1>6 DEF Alive, Active, IdOf
  <2>2. Awaited(id)' => Awaited(id)
    BY <1>2, <1>3 DEF Awaited, IdOf
  <2>3. Awaited(id) => Awaited(id)'
    <3>1. ASSUME NEW i \in DOMAIN toStart, IdOf(toStart[i]) = id
          PROVE  i - 1 \in DOMAIN toStart' /\ toStart'[i - 1] = toStart[i]
      <4>1. i # 1
        BY <1>3, <1>6, <3>1
      <4>2. i - 1 \in DOMAIN toStart'
        BY <1>3, <4>1
      <4>3. QED
        BY <1>3, <4>2
    <3>2. QED
      BY <1>2, <3>1 DEF Awaited, IdOf
  <2>4. Filed(id) => Filed(id)'
    BY <1>2, <1>5 DEF Filed, Once, IdOf
  <2>5. stop'[id] = stop[id] /\ Grows
    BY <1>2, <1>6 DEF Grows
  <2>6. QED
    BY <1>2, <2>1, <2>2, <2>3, <2>4, <2>5 DEF Untouched
<1>7. ASSUME NEW id \in Ids \ crossed, id = IdOf(rt)
      PROVE  (Alone(id) /\ Filed(id) /\ Alight(id))'
  <2>1. Alone(id) /\ Filed(id) /\ Alight(id)
    BY <1>7 DEF Inv, Agreed
  <2>2. Awaited(id) /\ Active(id) = {} /\ Active(id)' = {}
    BY <1>2, <1>3, <1>7, <2>1 DEF Awaited, Alone, Active
  <2>3. rt = byID[id] /\ \A i \in DOMAIN toStart' : IdOf(toStart'[i]) # id
    <3>1. \A i \in DOMAIN toStart : IdOf(toStart[i]) = id => toStart[i] = byID[id] /\ i = 1
      BY <1>3, <1>7, <2>1 DEF Filed, Once
    <3>2. QED
      BY <1>3, <1>7, <3>1
  <2>4. ~Awaited(id)'
    BY <1>2, <2>3 DEF Awaited, IdOf
  <2>5. Alive(id) = {}
    BY <2>1, <2>2 DEF Alight, Dormant
  <2>6. Alive(id)' = {byID[id]}
    BY <1>2, <1>7, <2>3, <2>5 DEF Alive, IdOf
  <2>7. stop'[id] = byID[id]
    BY <1>2, <1>4, <1>7, <2>3
  <2>8. Alight(id)'
    BY <1>1, <1>2, <1>4, <2>2, <2>3, <2>4, <2>6, <2>7 DEF Alight
  <2>9. Filed(id)'
    BY <1>2, <1>5, <2>1 DEF Filed, Once, IdOf
  <2>10. QED
    BY <2>2, <2>8, <2>9 DEF Alone
<1>8. Agreed'
  <2>1. ASSUME NEW id \in Ids \ crossed, id # IdOf(rt)
        PROVE  (Alone(id) /\ Filed(id) /\ Alight(id))'
    BY <1>1, <1>6, <2>1, Elsewhere DEF Inv, Agreed
  <2>2. QED
    BY <1>2, <1>7, <2>1 DEF Agreed
<1>9. ASSUME NEW id \in Ids
      PROVE  (Follows(id) => Follows(id)') /\ (Descends(id) => Descends(id)')
  BY <1>2 DEF Follows, Descends, AsStored, OfRow, Active
<1>10. QED
  BY <1>1, <1>2, <1>8, <1>9 DEF Inv, InStep, Inherits

LEMMA StepIsRight == Inv /\ [Next]_vars => Inv'
<1> SUFFICES ASSUME Inv, [Next]_vars
             PROVE  Inv'
  OBVIOUS
<1>1. CASE Restart
  BY <1>1, RestartIsRight
<1>2. CASE RunTakes
  BY <1>2, RunTakesIsRight
<1>3. CASE RunStarts
  BY <1>3, RunStartsIsRight
<1>4. ASSUME NEW r \in Requests, RequestStep(r)
      PROVE  Inv'
  BY <1>4, RequestIsRight
<1>5. ASSUME NEW r \in Requests, NEW op \in {"create", "update", "delete", "scoped"},
             NEW id \in Ids, NEW blank \in BOOLEAN, Begin(r, op, id, blank)
      PROVE  Inv'
  BY <1>5, BeginIsRight
<1>6. CASE UNCHANGED vars
  <2>1. Typed' /\ Owned'
    BY <1>6 DEF vars, Inv, Typed, TypeOK, Owned, IdOf
  <2>2. ASSUME NEW id \in Ids
        PROVE  Untouched(id)
    BY <1>6 DEF vars, Untouched, Active, Alive, Awaited, Filed, Once, IdOf, Grows
  <2>3. crossed' = crossed /\ failed' = failed /\ dirty' = dirty
    BY <1>6 DEF vars
  <2>4. QED
    BY <2>1, <2>2, <2>3, Elsewhere DEF Inv, Agreed, InStep, Inherits
<1>7. QED
  BY <1>1, <1>2, <1>3, <1>4, <1>5, <1>6 DEF Next

LEMMA Always == Spec => []Inv
BY InitIsRight, StepIsRight, PTL DEF Spec
-----------------------------------------------------------------------------
(***************************************************************************)
(* The results.                                                            *)
(***************************************************************************)

\* The registry's variables have their types.
THEOREM TypeCorrect == Spec => []TypeOK
<1>1. Inv => TypeOK
  BY DEF Inv, Typed
<1>2. QED
  BY <1>1, Always, PTL

\* "Removing one stops exactly its goroutines and leaves the rest alone"
\* (dynamic.go): a server on which no two operations met is listed once, runs
\* once and can be stopped, or is neither listed nor running.
THEOREM NoneLeftRunning == Spec => []QuietServersAgree
<1>1. Inv => QuietServersAgree
  <2> SUFFICES ASSUME Inv, NEW id \in Ids, Quiet(id)
               PROVE  IF byID[id] = None
                      THEN Listed(id) = {} /\ Alive(id) = {} /\ stop[id] = None
                      ELSE /\ \E i \in DOMAIN ordered : Listed(id) = {i} /\ ordered[i] = byID[id]
                           /\ Alive(id) = {byID[id]}
                           /\ stop[id] = byID[id]
    BY DEF QuietServersAgree
  <2>1. running /\ id \notin crossed /\ Active(id) = {} /\ ~Awaited(id)
    BY DEF Quiet, Awaited
  <2>2. Filed(id) /\ Alight(id) /\ Typed /\ Owned
    BY <2>1 DEF Inv, Agreed
  <2>3. \A i \in DOMAIN ordered : ordered[i] \in DOMAIN runtimes /\ ordered[i] # None
    <3>1. \A i \in DOMAIN ordered : ordered[i] \in DOMAIN runtimes
      BY <2>2, ElementOfSeq DEF Typed, TypeOK
    <3>2. QED
      BY <2>2, <3>1, Named DEF None
  <2>4. CASE byID[id] = None
    BY <2>1, <2>2, <2>3, <2>4 DEF Filed, Once, Alight, Dormant, Listed
  <2>5. CASE byID[id] # None
    <3>1. PICK i \in DOMAIN ordered : ordered[i] = byID[id]
      BY <2>2, <2>5 DEF Filed
    <3>2. Listed(id) = {i}
      BY <2>2, <2>5, <3>1 DEF Filed, Once, Owned, Listed
    <3>3. Alive(id) = {byID[id]} /\ stop[id] = byID[id]
      BY <2>1, <2>2, <2>5 DEF Alight
    <3>4. QED
      BY <2>5, <3>1, <3>2, <3>3
  <2>6. QED
    BY <2>4, <2>5
<1>2. QED
  BY <1>1, Always, PTL

\* "The database is the source of truth" (servers.go): where no two operations
\* met and none failed, the runtime is the one the stored row describes.
THEOREM StoredIsRunning == Spec => []RunsWhatIsStored
<1>1. Inv => RunsWhatIsStored
  BY DEF Inv, InStep, Follows, AsStored, RunsWhatIsStored, Quiet
<1>2. QED
  BY <1>1, Always, PTL

\* What DeleteGameServer promises: the tasks kept under an id are those of the
\* server that has the id now.
THEOREM TasksAreItsOwn == Spec => []NothingInherited
<1>1. Inv => NothingInherited
  BY DEF Inv, Inherits, Descends, NothingInherited
<1>2. QED
  BY <1>1, Always, PTL
=============================================================================

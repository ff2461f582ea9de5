---------------------- MODULE OrganizationCacheProofs ----------------------
(***************************************************************************)
(* Proofs about OrganizationCache.tla, for any number of organizations,      *)
(* users, names and requests, and any number of writes.                     *)
(***************************************************************************)
EXTENDS OrganizationCache, TLAPS

USE CacheAssumption

IInv == TypeOK /\ StaleEntryHasACause

-----------------------------------------------------------------------------
LEMMA ListsAreLists ==
  ASSUME TypeOK, NEW u
  PROVE  FindAllForMember(u) \in Lists /\ FindAllForMember(u) # Null
<1>1. \A o \in Orgs : u \in members[o] => name[o] \in Names
  BY DEF TypeOK
<1>2. FindAllForMember(u) \in Lists
  BY <1>1 DEF FindAllForMember, Lists
<1> QED BY <1>2

(* A user's list depends on the organizations the user is in, and on their names alone. *)
LEMMA SameList ==
  ASSUME NEW u,
         \A o \in Orgs : u \in members'[o] <=> u \in members[o],
         \A o \in Orgs : u \in members[o] => name'[o] = name[o]
  PROVE  FindAllForMember(u)' = FindAllForMember(u)
BY DEF FindAllForMember

LEMMA OnlyInputsAreServed ==
  ASSUME TypeOK, NEW r \in Requests, pc[r] # "idle"
  PROVE  /\ input[r] \in Inputs
         /\ input[r].org \in Orgs /\ input[r].user \in Users /\ input[r].name \in Names
         /\ input[r].kind \in {"list", "create", "rename", "add", "remove"}
<1>1. input[r] \in Inputs
  BY DEF TypeOK
<1> QED BY <1>1 DEF Inputs

-----------------------------------------------------------------------------
LEMMA TypeIsInvariant ==
  ASSUME TypeOK, [Next]_vars
  PROVE  TypeOK'
<1> USE DEF TypeOK, Steps, database
<1>1. ASSUME NEW r \in Requests, NEW i \in Inputs, Receive(r, i) PROVE TypeOK'
  <2>1. writes' \in 0 .. MaxWrites
    BY <1>1 DEF Receive
  <2> QED BY <1>1, <2>1 DEF Receive
<1>2. ASSUME NEW r \in Requests, ReadCache(r) PROVE TypeOK'
  BY <1>2, OnlyInputsAreServed DEF ReadCache
<1>3. ASSUME NEW r \in Requests, QueryOrganizations(r) PROVE TypeOK'
  BY <1>3, OnlyInputsAreServed, ListsAreLists DEF QueryOrganizations
<1>4. ASSUME NEW r \in Requests, FillCache(r) PROVE TypeOK'
  BY <1>4, OnlyInputsAreServed DEF FillCache
<1>5. ASSUME NEW r \in Requests, Check(r) PROVE TypeOK'
  BY <1>5 DEF Check
<1>6. ASSUME NEW r \in Requests, Refuse(r) \/ Answer(r) PROVE TypeOK'
  BY <1>6 DEF Refuse, Answer, End
<1>7. ASSUME NEW r \in Requests, CreateOrganization(r) PROVE TypeOK'
  BY <1>7, OnlyInputsAreServed DEF CreateOrganization, Committed
<1>8. ASSUME NEW r \in Requests, AddMember(r) PROVE TypeOK'
  BY <1>8, OnlyInputsAreServed DEF AddMember, Committed, Possible
<1>9. ASSUME NEW r \in Requests, RemoveMember(r) PROVE TypeOK'
  BY <1>9, OnlyInputsAreServed DEF RemoveMember, Committed, Possible
<1>10. ASSUME NEW r \in Requests, RenameOrganization(r) PROVE TypeOK'
  BY <1>10, OnlyInputsAreServed DEF RenameOrganization
<1>11. ASSUME NEW r \in Requests, FindMembers(r) PROVE TypeOK'
  BY <1>11, OnlyInputsAreServed DEF FindMembers, Committed
<1>12. ASSUME NEW r \in Requests, NEW u \in Users, DeleteKey(r, u) PROVE TypeOK'
  BY <1>12 DEF DeleteKey
<1>13. ASSUME NEW r \in Requests, Abandon(r) PROVE TypeOK'
  BY <1>13 DEF Abandon, End
<1>14. ASSUME NEW u \in Users, Expire(u) PROVE TypeOK'
  BY <1>14 DEF Expire
<1>15. CASE UNCHANGED vars
  BY <1>15 DEF vars
<1> QED
  BY <1>1, <1>2, <1>3, <1>4, <1>5, <1>6, <1>7, <1>8, <1>9, <1>10, <1>11, <1>12, <1>13,
     <1>14, <1>15 DEF Next, Step

-----------------------------------------------------------------------------
(* Every change of a user's list is owed: the writer will delete the user's key. *)
LEMMA WritesKeepCauses ==
  ASSUME StaleEntryHasACause, NEW r \in Requests,
         entry' = entry, spoiled' = spoiled,
         \A u \in Users : FindAllForMember(u)' = FindAllForMember(u) \/ OwedBy(r, u)',
         \A u \in Users, q \in Requests : OwedBy(q, u) => OwedBy(q, u)' \/ OwedBy(r, u)'
  PROVE  StaleEntryHasACause'
BY DEF StaleEntryHasACause, Current

(* A step that leaves the database alone keeps the lists. *)
LEMMA ListsStay ==
  ASSUME UNCHANGED database, NEW u
  PROVE  FindAllForMember(u)' = FindAllForMember(u)
BY DEF database, FindAllForMember

LEMMA CausesAreInvariant ==
  ASSUME TypeOK, StaleEntryHasACause, [Next]_vars
  PROVE  StaleEntryHasACause'
<1> USE DEF TypeOK
<1>1. ASSUME NEW r \in Requests,
             ReadCache(r) \/ QueryOrganizations(r) \/ Check(r) \/ \E i \in Inputs : Receive(r, i)
      PROVE  StaleEntryHasACause'
  <2>1. \A u \in Users, q \in Requests : OwedBy(q, u) => OwedBy(q, u)'
    BY <1>1 DEF ReadCache, QueryOrganizations, Check, Receive, OwedBy, database
  <2>2. entry' = entry /\ spoiled' = spoiled /\ UNCHANGED database
    BY <1>1 DEF ReadCache, QueryOrganizations, Check, Receive
  <2> QED BY <2>1, <2>2, ListsStay, WritesKeepCauses
<1>2. ASSUME NEW r \in Requests, FillCache(r) PROVE StaleEntryHasACause'
  <2> DEFINE u == input[r].user
  <2>1. \A v \in Users, q \in Requests : OwedBy(q, v) => OwedBy(q, v)'
    BY <1>2 DEF FillCache, OwedBy, database
  <2>2. \A v \in Users : FindAllForMember(v)' = FindAllForMember(v)
    BY <1>2, ListsStay DEF FillCache
  <2>3. u \in Users
    BY <1>2, OnlyInputsAreServed DEF FillCache
  <2>4. \A v \in Users \ {u} : entry'[v] = entry[v] /\ (v \in spoiled => v \in spoiled')
    BY <1>2 DEF FillCache
  <2>5. CASE entry' = entry /\ spoiled' = spoiled
    BY <2>1, <2>2, <2>5 DEF StaleEntryHasACause, Current
  <2>6. CASE entry'[u] = list[r] /\ (list[r] = FindAllForMember(u) \/ u \in spoiled')
    BY <2>1, <2>2, <2>3, <2>4, <2>6 DEF StaleEntryHasACause, Current
  <2> QED BY <1>2, <2>3, <2>5, <2>6 DEF FillCache
<1>3. ASSUME NEW r \in Requests, Refuse(r) \/ Answer(r) PROVE StaleEntryHasACause'
  <2>1. \A u \in Users, q \in Requests : OwedBy(q, u) => OwedBy(q, u)'
    BY <1>3 DEF Refuse, Answer, End, OwedBy, database
  <2>2. entry' = entry /\ spoiled' = spoiled /\ UNCHANGED database
    BY <1>3 DEF Refuse, Answer, End
  <2> QED BY <2>1, <2>2, ListsStay, WritesKeepCauses
<1>4. ASSUME NEW r \in Requests,
             CreateOrganization(r) \/ AddMember(r) \/ RemoveMember(r)
      PROVE  StaleEntryHasACause'
  <2> DEFINE i == input[r]
  <2>1. /\ pc[r] = "write" /\ i.org \in Orgs /\ i.user \in Users
        /\ pc'[r] = "invalidate" /\ todo'[r] = {i.user}
        /\ \A q \in Requests \ {r} : pc'[q] = pc[q] /\ todo'[q] = todo[q]
        /\ input' = input /\ entry' = entry /\ spoiled' = spoiled
    BY <1>4, OnlyInputsAreServed DEF CreateOrganization, AddMember, RemoveMember, Committed
  <2>2. /\ \A o \in Orgs : \A v \in Users \ {i.user} : v \in members'[o] <=> v \in members[o]
        /\ \A o \in Orgs : members[o] # {} => name'[o] = name[o]
    BY <1>4, <2>1 DEF CreateOrganization, AddMember, RemoveMember, Possible
  <2>3. \A v \in Users : FindAllForMember(v)' = FindAllForMember(v) \/ OwedBy(r, v)'
    <3> SUFFICES ASSUME NEW v \in Users, v # i.user
                 PROVE  FindAllForMember(v)' = FindAllForMember(v)
      BY <2>1 DEF OwedBy
    <3> QED BY <2>2, SameList
  <2>4. \A v \in Users, q \in Requests : OwedBy(q, v) => OwedBy(q, v)' \/ OwedBy(r, v)'
    <3> SUFFICES ASSUME NEW v \in Users, NEW q \in Requests, OwedBy(q, v), v # i.user
                 PROVE  OwedBy(q, v)'
      BY <2>1 DEF OwedBy
    <3>1. pc[q] = "members" => input[q].org \in Orgs
      BY OnlyInputsAreServed
    <3> QED BY <2>1, <2>2, <3>1 DEF OwedBy
  <2> QED BY <2>1, <2>3, <2>4, WritesKeepCauses
<1>5. ASSUME NEW r \in Requests, RenameOrganization(r) PROVE StaleEntryHasACause'
  <2> DEFINE o == input[r].org
  <2>1. /\ pc'[r] = "members" /\ members' = members /\ input' = input
        /\ \A p \in Orgs \ {o} : name'[p] = name[p]
        /\ entry' = entry /\ spoiled' = spoiled
    BY <1>5 DEF RenameOrganization
  <2>2. \A v \in Users : FindAllForMember(v)' = FindAllForMember(v) \/ OwedBy(r, v)'
    <3> SUFFICES ASSUME NEW v \in Users, v \notin members[o]
                 PROVE  FindAllForMember(v)' = FindAllForMember(v)
      BY <2>1 DEF OwedBy
    <3> QED BY <2>1, SameList
  <2>3. \A v \in Users, q \in Requests : OwedBy(q, v) => OwedBy(q, v)'
    BY <1>5 DEF RenameOrganization, OwedBy
  <2> QED BY <2>1, <2>2, <2>3, WritesKeepCauses
<1>6. ASSUME NEW r \in Requests, FindMembers(r) PROVE StaleEntryHasACause'
  <2>1. \A v \in Users, q \in Requests : OwedBy(q, v) => OwedBy(q, v)'
    BY <1>6 DEF FindMembers, Committed, OwedBy, database
  <2>2. entry' = entry /\ spoiled' = spoiled /\ UNCHANGED database
    BY <1>6 DEF FindMembers, Committed
  <2> QED BY <2>1, <2>2, ListsStay, WritesKeepCauses
<1>7. ASSUME NEW r \in Requests, NEW u \in Users, DeleteKey(r, u) PROVE StaleEntryHasACause'
  <2>1. \A v \in Users \ {u}, q \in Requests : OwedBy(q, v) => OwedBy(q, v)'
    BY <1>7 DEF DeleteKey, OwedBy, database
  <2>2. \A v \in Users : FindAllForMember(v)' = FindAllForMember(v)
    BY <1>7, ListsStay DEF DeleteKey
  <2>3. \A v \in Users \ {u} : entry'[v] = entry[v] /\ (v \in spoiled => v \in spoiled')
    BY <1>7 DEF DeleteKey
  <2>4. entry'[u] = Null \/ u \in spoiled'
    BY <1>7 DEF DeleteKey
  <2> QED BY <2>1, <2>2, <2>3, <2>4 DEF StaleEntryHasACause, Current
<1>8. ASSUME NEW r \in Requests, Abandon(r) PROVE StaleEntryHasACause'
  <2>1. \A v \in Users, q \in Requests \ {r} : OwedBy(q, v) => OwedBy(q, v)'
    BY <1>8 DEF Abandon, End, OwedBy, database
  <2>2. \A v \in Users : OwedBy(r, v) => v \in spoiled'
    BY <1>8 DEF Abandon
  <2>3. entry' = entry /\ spoiled \subseteq spoiled' /\ UNCHANGED database
    BY <1>8 DEF Abandon, End
  <2> QED BY <2>1, <2>2, <2>3, ListsStay DEF StaleEntryHasACause, Current
<1>9. ASSUME NEW u \in Users, Expire(u) PROVE StaleEntryHasACause'
  <2>1. \A v \in Users, q \in Requests : OwedBy(q, v) => OwedBy(q, v)'
    BY <1>9 DEF Expire, OwedBy, database
  <2>2. \A v \in Users : FindAllForMember(v)' = FindAllForMember(v)
    BY <1>9, ListsStay DEF Expire
  <2> QED BY <1>9, <2>1, <2>2 DEF Expire, StaleEntryHasACause, Current
<1>10. CASE UNCHANGED vars
  BY <1>10 DEF vars, StaleEntryHasACause, Current, FindAllForMember, OwedBy
<1> QED
  BY <1>1, <1>2, <1>3, <1>4, <1>5, <1>6, <1>7, <1>8, <1>9, <1>10 DEF Next, Step

-----------------------------------------------------------------------------
(* The inductive invariant: an entry is out of date for one of the three causes only. *)
THEOREM Invariant == Spec => []IInv
<1>1. Init => IInv
  BY DEF Init, IInv, TypeOK, Steps, StaleEntryHasACause, Current
<1>2. IInv /\ [Next]_vars => IInv'
  BY TypeIsInvariant, CausesAreInvariant DEF IInv
<1> QED BY <1>1, <1>2, PTL DEF Spec

(* Type correctness: what every request holds, and the database and the cache, keep their
   shape. *)
THEOREM TypeCorrect == Spec => []TypeOK
BY Invariant, PTL DEF IInv

(* Without a failure, and with no list request that fills behind a writer's back, a write's
   invalidation reaches every user whose list it changed. *)
THEOREM StaleEntriesHaveACause == Spec => []StaleEntryHasACause
BY Invariant, PTL DEF IInv

-----------------------------------------------------------------------------
(* One request at a time, and nothing fails: no entry is spoiled, since the list a request
   fills in is still the database's. *)
SerialInv ==
    /\ spoiled = {}
    /\ \A r \in Requests : pc[r] = "fill" => list[r] = FindAllForMember(input[r].user)

LEMMA SerialIsInvariant ==
  ASSUME ~Faults, \A r, q \in Requests : r = q, TypeOK, SerialInv, [Next]_vars
  PROVE  SerialInv'
<1> USE DEF TypeOK, SerialInv
<1>1. ASSUME NEW r \in Requests, Step(r) \/ \E i \in Inputs : Receive(r, i)
      PROVE  SerialInv'
  <2>1. CASE QueryOrganizations(r)
    BY <2>1, ListsStay DEF QueryOrganizations
  <2>2. CASE FillCache(r)
    BY <2>2 DEF FillCache
  <2>3. CASE \E u \in Users : DeleteKey(r, u)
    BY <2>3 DEF DeleteKey
  <2>4. CASE ~QueryOrganizations(r) /\ ~FillCache(r) /\ ~ \E u \in Users : DeleteKey(r, u)
    BY <1>1, <2>4 DEF Step, Receive, ReadCache, Check, Refuse, CreateOrganization, AddMember,
       RemoveMember, RenameOrganization, FindMembers, Committed, Answer, End
  <2> QED BY <2>1, <2>2, <2>3, <2>4
<1>2. ASSUME NEW u \in Users, Expire(u) PROVE SerialInv'
  BY <1>2, ListsStay DEF Expire
<1>3. CASE UNCHANGED vars
  BY <1>3, ListsStay DEF vars, database
<1> QED BY <1>1, <1>2, <1>3 DEF Next, Abandon

(* Requests served one at a time, with Redis and MySQL up, keep the promise of the README:
   what is cached at rest is what the database has. *)
THEOREM SerialRequestsAreCurrent ==
  ASSUME ~Faults, \A r, q \in Requests : r = q
  PROVE  Spec => []CurrentAtRest
<1>1. Init => SerialInv
  BY DEF Init, SerialInv
<1>2. TypeOK /\ SerialInv /\ [Next]_vars => SerialInv'
  BY SerialIsInvariant
<1>3. IInv /\ SerialInv => CurrentAtRest
  BY DEF IInv, SerialInv, StaleEntryHasACause, CurrentAtRest, OwedBy
<1> QED BY Invariant, <1>1, <1>2, <1>3, PTL DEF Spec, IInv
=============================================================================

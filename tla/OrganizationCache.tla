------------------------- MODULE OrganizationCache -------------------------
(***************************************************************************)
(* The list of a user's organizations, cached in Redis: ListUserOrganizations *)
(* fills the cache from MySQL on a miss; CreateOrganization,                 *)
(* RenameOrganization, AddMember and RemoveMember write to MySQL and then     *)
(* delete the keys of the users whose list changed.  (A change of role        *)
(* changes no list.)                                                         *)
(*                                                                         *)
(* Each await of a use case is a step, so a fill and a deletion may fall      *)
(* between any two steps of another request.  Whom a write is allowed to is   *)
(* Membership's question; here a request only has to be possible.            *)
(***************************************************************************)
EXTENDS Integers

CONSTANTS
    Orgs,          \* slugs of organizations: a slug never changes, no row is deleted
    Users,
    Names,         \* of organizations
    NoName,        \* the name of an organization that does not exist yet
    Requests,      \* the requests that may be in flight at the same time
    MaxWrites,     \* bound on the requests that change something
    Faults,        \* whether Redis commands, queries and processes may fail
    Null           \* no entry, no list and no input

Lists == SUBSET (Orgs \X Names)
Inputs == [kind : {"list", "create", "rename", "add", "remove"},
           org : Orgs, user : Users, name : Names]

ASSUME CacheAssumption ==
    /\ NoName \notin Names
    /\ Null \notin Inputs /\ \A l \in Lists : l # Null
    /\ MaxWrites \in Nat
    /\ Faults \in BOOLEAN

VARIABLES
    name,       \* of each organization
    members,    \* of each organization
    entry,      \* the cached list of each user
    pc,         \* where each request is
    input,      \* and what it was asked
    list,       \* the organizations a list request has in hand
    todo,       \* the users whose key a write still has to delete
    writes,     \* requests that change something received so far
    spoiled     \* history: users whose key was kept, or filled, against the database

database == <<name, members>>
vars == <<name, members, entry, pc, input, list, todo, writes, spoiled>>

(* OrganizationPrismaRepository.findAllForMember *)
FindAllForMember(u) == {<<o, name[o]>> : o \in {p \in Orgs : u \in members[p]}}

(* What the database accepts, and the use cases look up first: a free slug, a member
   that is not there twice, a member that is there. *)
Possible(i) ==
    CASE i.kind = "create" -> name[i.org] = NoName
      [] i.kind = "add"    -> name[i.org] # NoName /\ i.user \notin members[i.org]
      [] OTHER             -> i.user \in members[i.org]

-----------------------------------------------------------------------------
Init ==
    /\ name = [o \in Orgs |-> NoName]
    /\ members = [o \in Orgs |-> {}]
    /\ entry = [u \in Users |-> Null]
    /\ pc = [r \in Requests |-> "idle"]
    /\ input = [r \in Requests |-> Null]
    /\ list = [r \in Requests |-> Null]
    /\ todo = [r \in Requests |-> {}]
    /\ writes = 0
    /\ spoiled = {}

Receive(r, i) ==
    /\ pc[r] = "idle"
    /\ IF i.kind = "list"
       THEN UNCHANGED writes
       ELSE writes < MaxWrites /\ writes' = writes + 1
    /\ pc' = [pc EXCEPT ![r] = IF i.kind = "list" THEN "read" ELSE "check"]
    /\ input' = [input EXCEPT ![r] = i]
    /\ UNCHANGED <<database, entry, list, todo, spoiled>>

(* The request is over; what it held is forgotten. *)
End(r) ==
    /\ pc' = [pc EXCEPT ![r] = "idle"]
    /\ input' = [input EXCEPT ![r] = Null]
    /\ list' = [list EXCEPT ![r] = Null]
    /\ todo' = [todo EXCEPT ![r] = {}]
    /\ UNCHANGED <<database, writes>>

-----------------------------------------------------------------------------
(* ListUserOrganizations. *)
ReadCacheUnchecked(r) ==
    /\ pc[r] = "read"
    /\ list' = [list EXCEPT ![r] = entry[input[r].user]]
    /\ pc' = [pc EXCEPT ![r] = "answer"]
    /\ UNCHANGED <<database, entry, input, todo, writes, spoiled>>

ReadCacheAndRefresh(r) ==
    /\ pc[r] = "read"
    /\ list' = [list EXCEPT ![r] = entry[input[r].user]]
    /\ pc' = [pc EXCEPT ![r] = IF entry[input[r].user] = Null THEN "query" ELSE "fill"]
    /\ UNCHANGED <<database, entry, input, todo, writes, spoiled>>

(* ResilientCache makes a get that fails a miss. *)
ReadCache(r) ==
    /\ pc[r] = "read"
    /\ \/ /\ entry[input[r].user] # Null
          /\ list' = [list EXCEPT ![r] = entry[input[r].user]]
          /\ pc' = [pc EXCEPT ![r] = "answer"]
       \/ /\ Faults \/ entry[input[r].user] = Null
          /\ pc' = [pc EXCEPT ![r] = "query"]
          /\ UNCHANGED list
    /\ UNCHANGED <<database, entry, input, todo, writes, spoiled>>

QueryOrganizations(r) ==
    /\ pc[r] = "query"
    /\ list' = [list EXCEPT ![r] = FindAllForMember(input[r].user)]
    /\ pc' = [pc EXCEPT ![r] = "fill"]
    /\ UNCHANGED <<database, entry, input, todo, writes, spoiled>>

(* A set that fails is swallowed, too. *)
FillCache(r) ==
    LET u == input[r].user IN
    /\ pc[r] = "fill"
    /\ \/ /\ entry' = [entry EXCEPT ![u] = list[r]]
          /\ spoiled' = IF list[r] = FindAllForMember(u) THEN spoiled \ {u}
                                                         ELSE spoiled \cup {u}
       \/ Faults /\ UNCHANGED <<entry, spoiled>>
    /\ pc' = [pc EXCEPT ![r] = "answer"]
    /\ UNCHANGED <<database, input, list, todo, writes>>

-----------------------------------------------------------------------------
(* The writers.  A request that is not possible ends with CONFLICT or NOT_FOUND. *)
Check(r) ==
    /\ pc[r] = "check"
    /\ Possible(input[r])
    /\ pc' = [pc EXCEPT ![r] = "write"]
    /\ UNCHANGED <<database, entry, input, list, todo, writes, spoiled>>

(* It may become impossible after it was looked up: the database then rejects it.  Only
   the row of a rename is always there. *)
Refuse(r) ==
    /\ \/ pc[r] = "check"
       \/ pc[r] = "write" /\ input[r].kind # "rename"
    /\ ~Possible(input[r])
    /\ End(r)
    /\ UNCHANGED <<entry, spoiled>>

Committed(r, users) ==
    /\ todo' = [todo EXCEPT ![r] = users]
    /\ pc' = [pc EXCEPT ![r] = "invalidate"]
    /\ UNCHANGED <<entry, input, list, writes, spoiled>>

(* createWithOwner: both rows in one transaction. *)
CreateOrganization(r) ==
    LET i == input[r] IN
    /\ pc[r] = "write" /\ i.kind = "create" /\ Possible(i)
    /\ name' = [name EXCEPT ![i.org] = i.name]
    /\ members' = [members EXCEPT ![i.org] = {i.user}]
    /\ Committed(r, {i.user})

AddMember(r) ==
    LET i == input[r] IN
    /\ pc[r] = "write" /\ i.kind = "add" /\ Possible(i)
    /\ members' = [members EXCEPT ![i.org] = @ \cup {i.user}]
    /\ UNCHANGED name
    /\ Committed(r, {i.user})

RemoveMember(r) ==
    LET i == input[r] IN
    /\ pc[r] = "write" /\ i.kind = "remove" /\ Possible(i)
    /\ members' = [members EXCEPT ![i.org] = @ \ {i.user}]
    /\ UNCHANGED name
    /\ Committed(r, {i.user})

RenameOrganization(r) ==
    LET i == input[r] IN
    /\ pc[r] = "write" /\ i.kind = "rename"
    /\ name' = [name EXCEPT ![i.org] = i.name]
    /\ pc' = [pc EXCEPT ![r] = "members"]
    /\ UNCHANGED <<members, entry, input, list, todo, writes, spoiled>>

FindMembersActorOnly(r) ==
    /\ pc[r] = "members"
    /\ Committed(r, {input[r].user})
    /\ UNCHANGED database

(* InvalidateOrganization reads the members after the new name is written. *)
FindMembers(r) ==
    /\ pc[r] = "members"
    /\ Committed(r, members[input[r].org])
    /\ UNCHANGED database

(* InvalidateUser.  A deletion that fails is swallowed. *)
DeleteKey(r, u) ==
    /\ pc[r] = "invalidate"
    /\ u \in todo[r]
    /\ todo' = [todo EXCEPT ![r] = @ \ {u}]
    /\ \/ /\ entry' = [entry EXCEPT ![u] = Null]
          /\ spoiled' = spoiled \ {u}
       \/ /\ Faults
          /\ spoiled' = spoiled \cup {u}
          /\ UNCHANGED entry
    /\ UNCHANGED <<database, pc, input, list, writes>>

-----------------------------------------------------------------------------
Answer(r) ==
    /\ pc[r] = "answer" \/ (pc[r] = "invalidate" /\ todo[r] = {})
    /\ End(r)
    /\ UNCHANGED <<entry, spoiled>>

(* Whether request r has changed u's list and will still delete u's key. *)
OwedBy(r, u) ==
    \/ pc[r] = "invalidate" /\ u \in todo[r]
    \/ pc[r] = "members" /\ u \in members[input[r].org]

(* A query rejects, after the commit it may be, or the process dies. *)
Abandon(r) ==
    /\ Faults
    /\ pc[r] # "idle"
    /\ spoiled' = spoiled \cup {u \in Users : OwedBy(r, u)}
    /\ End(r)
    /\ UNCHANGED entry

(* CACHE_TTL_SECONDS have passed since the entry was set. *)
Expire(u) ==
    /\ entry[u] # Null
    /\ entry' = [entry EXCEPT ![u] = Null]
    /\ spoiled' = spoiled \ {u}
    /\ UNCHANGED <<database, pc, input, list, todo, writes>>

Step(r) ==
    \/ ReadCache(r) \/ QueryOrganizations(r) \/ FillCache(r)
    \/ Check(r) \/ Refuse(r)
    \/ CreateOrganization(r) \/ AddMember(r) \/ RemoveMember(r) \/ RenameOrganization(r)
    \/ FindMembers(r) \/ \E u \in Users : DeleteKey(r, u)
    \/ Answer(r)

Next ==
    \/ \E r \in Requests : Step(r) \/ Abandon(r) \/ \E i \in Inputs : Receive(r, i)
    \/ \E u \in Users : Expire(u)

(* Requests in flight go on, and Redis expires what it holds. *)
Fairness ==
    /\ \A r \in Requests : WF_vars(Step(r))
    /\ \A u \in Users : WF_vars(Expire(u))

Spec == Init /\ [][Next]_vars
FairSpec == Spec /\ Fairness

-----------------------------------------------------------------------------
Steps == {"idle", "read", "query", "fill", "check", "write", "members", "invalidate", "answer"}

(* Types; a request that fills or answers a list has one. *)
TypeOK ==
    /\ name \in [Orgs -> Names \cup {NoName}]
    /\ members \in [Orgs -> SUBSET Users]
    /\ entry \in [Users -> {Null} \cup Lists]
    /\ pc \in [Requests -> Steps]
    /\ input \in [Requests -> Inputs \cup {Null}]
    /\ list \in [Requests -> {Null} \cup Lists]
    /\ todo \in [Requests -> SUBSET Users]
    /\ writes \in 0 .. MaxWrites
    /\ spoiled \subseteq Users
    /\ \A r \in Requests :
         /\ pc[r] # "idle" => input[r] \in Inputs
         /\ pc[r] \in {"fill", "answer"} => list[r] # Null
    /\ \A o \in Orgs : members[o] # {} => name[o] # NoName

Current(u) == entry[u] \in {Null, FindAllForMember(u)}

(* However fills, writes and deletions interleave, members come and go while their
   organization is renamed included, an out-of-date entry has one of three causes: its
   deletion is still to come, it was lost to a failure, or a list request that had read
   the database before the write filled it afterwards. *)
StaleEntryHasACause ==
    \A u \in Users : Current(u) \/ u \in spoiled \/ \E r \in Requests : OwedBy(r, u)

(* README, on the cache: whoever writes invalidates explicitly ("entrou, saiu ou
   renomeou, a chave morre").  So once no request is in flight, what is cached is what the
   database has - which two requests at once, or a deletion that fails, can refute. *)
CurrentAtRest == (\A r \in Requests : pc[r] = "idle") => \A u \in Users : Current(u)

(* Whatever went wrong, the expiry heals it: when the writes are over, out-of-date
   entries die out and do not come back. *)
StaleEntriesDieOut == <>[](\A u \in Users : Current(u))
=============================================================================

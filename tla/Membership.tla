---------------------------- MODULE Membership -----------------------------
(***************************************************************************)
(* The four use cases that write the memberships table - CreateOrganization, *)
(* AddMember, ChangeMemberRole, RemoveMember - as concurrent requests.  Every *)
(* await on MySQL is a step of its own: what a request read stays in its own *)
(* memory (actorRow, target, owners) while other requests write, and its     *)
(* write is decided on those snapshots.  No transaction, lock or version      *)
(* guards the sequence; only the unique indexes on slug and on                *)
(* (organization_id, user_id) do.                                           *)
(*                                                                         *)
(* A slug and its organization never change and are never deleted, so an    *)
(* organization is named by its slug, and finding it is part of receiving   *)
(* the request.  The cache invalidation between write and event is in       *)
(* OrganizationCache.tla, what becomes of an event in EventPipeline.tla.    *)
(***************************************************************************)
EXTENDS Roles, FiniteSets

CONSTANTS
    Orgs,          \* well-formed slugs, of organizations that exist or may be created
    Users,         \* people a request may name
    Registered,    \* those who have a user account
    Requests,      \* requests the API may receive, each once
    Concurrency,   \* how many of them may be in progress together
    Faults,        \* whether MySQL, the event queue and the process may fail
    BadSlug,       \* a slug that is not well formed
    Null           \* the null a lookup returns

(* A row's id is that of the request that created it, or its key if it was there first. *)
Ids == (Orgs \X Registered) \cup Requests
Rows == [id : Ids, org : Orgs, user : Registered, role : Roles]

Kinds == {"create", "add", "change", "remove"}
(* A role, or the name of a new organization, that is refused: by the schemas of the HTTP
   layer already, and by the use cases for whoever else calls them. *)
Malformed == "malformed"
NoRole == "none"

Inputs == {in \in [kind : Kinds, org : Orgs \cup {BadSlug}, actor : Registered,
                   user : Users, role : Roles \cup {Malformed}] :
              /\ in.kind = "remove" => in.role = "member"    \* a removal names no role
              /\ in.kind = "create" =>                       \* its actor will own it
                   in.user = in.actor /\ in.role \in {"owner", Malformed}}

ASSUME MembershipAssumption ==
    /\ IsFiniteSet(Orgs) /\ IsFiniteSet(Users) /\ IsFiniteSet(Requests)
    /\ Registered \subseteq Users
    /\ BadSlug \notin Orgs
    /\ Null \notin Rows \cup Inputs
    /\ (Orgs \X Registered) \cap Requests = {}
    /\ Concurrency \in Nat \ {0}
    /\ Faults \in BOOLEAN

VARIABLES
    orgs,       \* the slugs of the organizations table
    members,    \* the memberships table: a set of rows
    input,      \* [Requests -> Inputs], what a received request asks for
    pc,         \* where each request is in its use case
    actorRow,   \* the actor's membership, as the request read it
    target,     \* the membership to change, as the request read it
    owners,     \* the owner count, as the request read it
    reply,      \* the answer the client got
    changes,    \* history: the changes committed, with the request of each
    events      \* the events published

table == <<orgs, members, changes>>
snapshots == <<actorRow, target, owners>>
vars == <<orgs, members, input, pc, actorRow, target, owners, reply, changes, events>>

-----------------------------------------------------------------------------
Deciding == {"slug", "access", "user", "existing", "target", "count"}   \* before the write
PcValues == Deciding \cup {"idle", "write", "record", "done", "lost"}
ClientErrors == {"NOT_FOUND", "FORBIDDEN", "CONFLICT", "VALIDATION_ERROR"}
Replies == ClientErrors \cup {"none", "OK", "INTERNAL_ERROR"}

InProgress(r) == pc[r] \in Deciding \cup {"write", "record"}
OwnersOf(o) == {m \in members : m.org = o /\ m.role = "owner"}

(* membershipRepository.findByOrganizationAndUser: the row, or null. *)
FindByOrganizationAndUser(o, u) ==
    IF \E m \in members : m.org = o /\ m.user = u
    THEN CHOOSE m \in members : m.org = o /\ m.user = u
    ELSE Null

Changes == [request : Requests, kind : Kinds, org : Orgs, user : Users,
            from : Roles \cup {NoRole}, to : Roles \cup {NoRole}]

(* A committed change, or the event about it: the role it takes, the role it gives. *)
Change(r, from, to) ==
    [request |-> r, kind |-> input[r].kind, org |-> input[r].org,
     user |-> input[r].user, from |-> from, to |-> to]

To(r) == IF input[r].kind = "remove" THEN NoRole ELSE input[r].role

Goto(r, label) == pc' = [pc EXCEPT ![r] = label] /\ UNCHANGED reply

Answer(r, code) ==
    /\ pc' = [pc EXCEPT ![r] = "done"]
    /\ reply' = [reply EXCEPT ![r] = code]

-----------------------------------------------------------------------------
(* Organizations are born with an owner (createWithOwner), and serial requests
   reach every table in which each of them has one. *)
Init ==
    /\ orgs \in SUBSET Orgs
    /\ \E role \in [orgs \X Registered -> Roles \cup {NoRole}] :
         /\ members = {[id |-> p, org |-> p[1], user |-> p[2], role |-> role[p]] :
                          p \in {q \in orgs \X Registered : role[q] # NoRole}}
         /\ \A o \in orgs : \E u \in Registered : role[<<o, u>>] = "owner"
    /\ input = [r \in Requests |-> Null]
    /\ pc = [r \in Requests |-> "idle"]
    /\ actorRow = [r \in Requests |-> Null]
    /\ target = [r \in Requests |-> Null]
    /\ owners = [r \in Requests |-> 0]
    /\ reply = [r \in Requests |-> "none"]
    /\ changes = {}
    /\ events = {}

(* The HTTP layer has authenticated the actor; the slug is read and, but for a new
   organization's, looked up. *)
Receive(r, in) ==
    /\ pc[r] = "idle"
    /\ Cardinality({q \in Requests : InProgress(q)}) < Concurrency
    /\ input' = [input EXCEPT ![r] = in]
    /\ \/ in.org = BadSlug /\ Answer(r, "VALIDATION_ERROR")
       \/ in.kind = "create" /\ in.org # BadSlug /\ Goto(r, "slug")
       \/ /\ in.kind # "create" /\ in.org # BadSlug
          /\ IF in.org \in orgs THEN Goto(r, "access") ELSE Answer(r, "NOT_FOUND")
    /\ UNCHANGED <<table, snapshots, events>>

(* The name is read after the slug has been looked up. *)
EnsureSlugIsAvailable(r) ==
    /\ pc[r] = "slug"
    /\ \/ input[r].org \in orgs /\ Answer(r, "CONFLICT")
       \/ /\ input[r].org \notin orgs
          /\ IF input[r].role = Malformed THEN Answer(r, "VALIDATION_ERROR") ELSE Goto(r, "write")
    /\ UNCHANGED <<table, input, snapshots, events>>

(* The rest of ResolveForManagement, and what follows it before the next await:
   AddMember reads the role asked for and compares it with the actor's. *)
ResolveForManagement(r) ==
    LET in == input[r]
        row == FindByOrganizationAndUser(in.org, in.actor)
    IN  /\ pc[r] = "access"
        /\ actorRow' = [actorRow EXCEPT ![r] = row]
        /\ \/ row = Null /\ Answer(r, "NOT_FOUND")
           \/ /\ row # Null /\ ~CanManageMembers(row.role)
              /\ Answer(r, "FORBIDDEN")
           \/ /\ row # Null /\ CanManageMembers(row.role)
              /\ \/ in.kind # "add" /\ Goto(r, "target")
                 \/ in.kind = "add" /\ in.role = Malformed /\ Answer(r, "VALIDATION_ERROR")
                 \/ /\ in.kind = "add" /\ in.role # Malformed
                    /\ IF OutranksOrEquals(row.role, in.role)
                       THEN Goto(r, "user") ELSE Answer(r, "FORBIDDEN")
        /\ UNCHANGED <<table, input, target, owners, events>>

FindUserOrAnybody(r) ==
    /\ pc[r] = "user"
    /\ Goto(r, "existing")
    /\ UNCHANGED <<table, input, snapshots, events>>

FindUser(r) ==
    /\ pc[r] = "user"
    /\ IF input[r].user \in Registered THEN Goto(r, "existing") ELSE Answer(r, "NOT_FOUND")
    /\ UNCHANGED <<table, input, snapshots, events>>

EnsureIsNotMemberYet(r) ==
    /\ pc[r] = "existing"
    /\ IF FindByOrganizationAndUser(input[r].org, input[r].user) = Null
       THEN Goto(r, "write") ELSE Answer(r, "CONFLICT")
    /\ UNCHANGED <<table, input, snapshots, events>>

(* The ranks a request to change or remove the membership t must not exceed. *)
EnsureActorOutranksOnlyCurrent(r, t) == OutranksOrEquals(actorRow[r].role, t.role)

EnsureActorOutranks(r, t) ==
    /\ OutranksOrEquals(actorRow[r].role, t.role)
    /\ input[r].kind = "change" => OutranksOrEquals(actorRow[r].role, input[r].role)

(* FindMember of ChangeMemberRole and RemoveMember, up to their next await.  A role
   change to the role the member already has answers at once and records nothing. *)
FindMember(r) ==
    LET in == input[r]
        t == FindByOrganizationAndUser(in.org, in.user)
    IN  /\ pc[r] = "target"
        /\ target' = [target EXCEPT ![r] = t]
        /\ \/ t = Null /\ Answer(r, "NOT_FOUND")
           \/ t # Null /\ in.role = Malformed /\ Answer(r, "VALIDATION_ERROR")
           \/ /\ t # Null /\ in.role # Malformed
              /\ \/ ~EnsureActorOutranks(r, t) /\ Answer(r, "FORBIDDEN")
                 \/ /\ EnsureActorOutranks(r, t)
                    /\ in.kind = "change" /\ in.role = t.role
                    /\ Answer(r, "OK")
                 \/ /\ EnsureActorOutranks(r, t)
                    /\ ~(in.kind = "change" /\ in.role = t.role)
                    /\ Goto(r, IF t.role = "owner" THEN "count" ELSE "write")
        /\ UNCHANGED <<table, input, actorRow, owners, events>>

EnoughOwnersAllowsLast(n) == n >= 1

EnoughOwners(n) == n > 1

EnsureAnotherOwnerRemains(r) ==
    LET n == Cardinality(OwnersOf(input[r].org))
    IN  /\ pc[r] = "count"
        /\ owners' = [owners EXCEPT ![r] = n]
        /\ IF EnoughOwners(n) THEN Goto(r, "write") ELSE Answer(r, "CONFLICT")
        /\ UNCHANGED <<table, input, actorRow, target, events>>

-----------------------------------------------------------------------------
(* What MySQL accepts: an insert that keeps the unique indexes; an update or delete
   whose row still exists (Prisma's P2002 and P2025 otherwise). *)
Inserts(r) == input[r].kind \in {"create", "add"}

AcceptsWithoutIndex(r) == ~Inserts(r) => \E m \in members : m.id = target[r].id

AcceptsAnySlug(r) ==
    IF Inserts(r)
    THEN ~ \E m \in members : m.org = input[r].org /\ m.user = input[r].user
    ELSE \E m \in members : m.id = target[r].id

Accepts(r) ==
    /\ input[r].kind = "create" => input[r].org \notin orgs
    /\ IF Inserts(r)
       THEN ~ \E m \in members : m.org = input[r].org /\ m.user = input[r].user
       ELSE \E m \in members : m.id = target[r].id

Create(r) ==
    /\ members' = members \cup {[id |-> r, org |-> input[r].org, user |-> input[r].user,
                                 role |-> input[r].role]}
    /\ changes' = changes \cup {Change(r, NoRole, To(r))}

(* One transaction: the organization and its owner's membership. *)
CreateWithoutOwner(r) == orgs' = orgs \cup {input[r].org} /\ UNCHANGED <<members, changes>>

CreateWithOwner(r) == orgs' = orgs \cup {input[r].org} /\ Create(r)

Update(r) ==
    /\ members' = {IF m.id = target[r].id THEN [m EXCEPT !.role = input[r].role] ELSE m :
                     m \in members}
    /\ changes' = changes \cup
         {Change(r, m.role, To(r)) : m \in {m \in members : m.id = target[r].id}}

Delete(r) ==
    /\ members' = {m \in members : m.id # target[r].id}
    /\ changes' = changes \cup
         {Change(r, m.role, To(r)) : m \in {m \in members : m.id = target[r].id}}

Commit(r) ==
    /\ Accepts(r)
    /\ \/ input[r].kind = "create" /\ CreateWithOwner(r)
       \/ input[r].kind = "add" /\ Create(r) /\ UNCHANGED orgs
       \/ input[r].kind = "change" /\ Update(r) /\ UNCHANGED orgs
       \/ input[r].kind = "remove" /\ Delete(r) /\ UNCHANGED orgs

Write(r) ==
    /\ pc[r] = "write"
    /\ Commit(r)
    /\ Goto(r, "record")
    /\ UNCHANGED <<input, snapshots, events>>

WriteRefusedQuietly(r) ==
    /\ pc[r] = "write"
    /\ ~Accepts(r)
    /\ Answer(r, "OK")
    /\ UNCHANGED <<table, input, snapshots, events>>

(* The repositories translate no Prisma error: the client reads a 500. *)
WriteRefused(r) ==
    /\ pc[r] = "write"
    /\ ~Accepts(r)
    /\ Answer(r, "INTERNAL_ERROR")
    /\ UNCHANGED <<table, input, snapshots, events>>

(* EventRecorder.record: the event tells the role the request read, not the one it
   replaced; a publication that fails is logged and the answer is the same. *)
FromAfterwards(r) == To(r)

From(r) == IF Inserts(r) THEN NoRole ELSE target[r].role

RecordEvent(r) ==
    /\ pc[r] = "record"
    /\ \/ events' = events \cup {Change(r, From(r), To(r))}
       \/ Faults /\ UNCHANGED events
    /\ Answer(r, "OK")
    /\ UNCHANGED <<table, input, snapshots>>

-----------------------------------------------------------------------------
(* MySQL rejects a query, or its connection drops: the await throws. *)
DatabaseFails(r) ==
    /\ Faults
    /\ pc[r] \in Deciding \cup {"write"}
    /\ Answer(r, "INTERNAL_ERROR")
    /\ UNCHANGED <<table, input, snapshots, events>>

(* MySQL commits the write and the answer is lost: a 500 for a change that was made. *)
CommitAnswerLost(r) ==
    /\ Faults
    /\ pc[r] = "write"
    /\ Commit(r)
    /\ Answer(r, "INTERNAL_ERROR")
    /\ UNCHANGED <<input, snapshots, events>>

(* The API process dies and takes the request with it. *)
Crash(r) ==
    /\ Faults
    /\ InProgress(r)
    /\ Goto(r, "lost")
    /\ UNCHANGED <<table, input, snapshots, events>>

AllAnswered == (\A r \in Requests : pc[r] \in {"done", "lost"}) /\ UNCHANGED vars

Step(r) ==
    \/ \E in \in Inputs : Receive(r, in)
    \/ EnsureSlugIsAvailable(r) \/ ResolveForManagement(r) \/ FindUser(r) \/ EnsureIsNotMemberYet(r)
    \/ FindMember(r) \/ EnsureAnotherOwnerRemains(r)
    \/ Write(r) \/ WriteRefused(r) \/ RecordEvent(r)
    \/ DatabaseFails(r) \/ CommitAnswerLost(r) \/ Crash(r)

Next == (\E r \in Requests : Step(r)) \/ AllAnswered

Spec == Init /\ [][Next]_vars

-----------------------------------------------------------------------------
TypeOK ==
    /\ orgs \subseteq Orgs
    /\ members \subseteq Rows
    /\ input \in [Requests -> Inputs \cup {Null}]
    /\ \A r \in Requests : pc[r] # "idle" => input[r] \in Inputs
    /\ pc \in [Requests -> PcValues]
    /\ actorRow \in [Requests -> Rows \cup {Null}]
    /\ target \in [Requests -> Rows \cup {Null}]
    /\ owners \in [Requests -> Nat]
    /\ reply \in [Requests -> Replies]
    /\ changes \subseteq Changes
    /\ events \subseteq Changes

R == INSTANCE MembershipRules WITH Users <- Registered

(* Two requests that add the same user, or add one another request has just added, never
   leave two memberships: EnsureIsNotMemberYet alone cannot promise that. *)
OneMembershipPerUser == R!OneMembershipPerUser

(* Of the requests that create an organization under one slug, one alone does, though all
   have found the slug available. *)
OneOrganizationPerSlug ==
    \A c, d \in changes : c.kind = "create" /\ d.kind = "create" /\ c.org = d.org => c = d

Committed(r) == \E c \in changes : c.request = r

(* A 4xx means that nothing was written; a 2xx, that the change was made or that there was
   none to make.  (A 500 promises neither.) *)
AnswersMatchEffects ==
    \A r \in Requests :
        /\ reply[r] \in ClientErrors => ~Committed(r)
        /\ reply[r] = "OK" =>
             Committed(r) \/ (input[r].kind = "change" /\ target[r].role = input[r].role)

(* An event tells of a change that was committed, and the role it says was replaced is the
   one replaced - or, when another request got in between, one that request replaced. *)
EventsReportCommits ==
    \A e \in events :
        \E c \in changes :
            /\ c = [e EXCEPT !.from = c.from]
            /\ c.from # e.from =>
                 \E d \in changes :
                     /\ d.request # e.request /\ d.from = e.from
                     /\ d.org = e.org /\ d.user = e.user

(* What the request read is still what the table says. *)
SnapshotIsCurrent(r) ==
    /\ input[r].kind # "create" => actorRow[r] \in members
    /\ ~Inserts(r) => target[r] \in members
    /\ ~Inserts(r) /\ target[r].role = "owner" =>
         owners[r] = Cardinality(OwnersOf(input[r].org))

Lawful(r) ==
    \/ UNCHANGED <<orgs, members>>
    \/ input[r].kind = "create" /\ \E new \in Rows : R!Found(new)
    \/ input[r].kind # "create" /\ R!By(actorRow[r])

(* A write decided on current snapshots is one of the promised atomic changes: made by its
   actor, within his rank and leaving an owner, or the creation of an organization with
   one.  Only a write that was overtaken can be anything else. *)
FreshWritesObeyTheRules ==
    [][\A r \in Requests : pc[r] = "write" /\ pc'[r] # "write" /\ SnapshotIsCurrent(r)
                             => Lawful(r)]_vars

(* Some request in progress has read that its actor owns the organization. *)
OwnerAtWork(o) ==
    \E r \in Requests :
        /\ InProgress(r) /\ input[r].org = o
        /\ actorRow[r] # Null /\ actorRow[r].role = "owner"

(* Once nobody owns an organization and no request of a former owner is under way, nothing
   that admins and members do ever gives it an owner again. *)
OwnerlessIsForever ==
    [][\A o \in orgs : OwnersOf(o) = {} /\ ~OwnerAtWork(o)
                          => (OwnersOf(o) = {} /\ ~OwnerAtWork(o))']_vars

(* README: an organization is never left without an owner. *)
AlwaysAnOwner == R!AlwaysAnOwner

(* One request at a time, the use cases are the promised atomic changes. *)
ImplementsRules == R!Spec
=============================================================================

------------------------- MODULE MembershipProofs --------------------------
(***************************************************************************)
(* Proofs about Membership.tla, for any number of organizations, users and  *)
(* requests, any concurrency and with every fault.                          *)
(***************************************************************************)
EXTENDS Membership, FiniteSetTheorems, TLAPS

USE MembershipAssumption DEF Inserts

(* A row's id tells whose membership it is: ids are never used again for another. *)
Anchored(m) ==
    \/ m.id \in Orgs \X Registered /\ m.id = <<m.org, m.user>>
    \/ /\ m.id \in Requests /\ pc[m.id] \in {"record", "done", "lost"}
       /\ m.org = input[m.id].org /\ m.user = input[m.id].user

(* What a request has established about its actor, its argument and its target by the
   time it stands at pc[r]. *)
ActorOK(r) ==
    /\ actorRow[r] \in Rows
    /\ actorRow[r].org = input[r].org
    /\ CanManageMembers(actorRow[r].role)

AddOK(r) == input[r].role \in Roles /\ OutranksOrEquals(actorRow[r].role, input[r].role)

TargetOK(r) ==
    /\ target[r] \in Rows
    /\ target[r].org = input[r].org /\ target[r].user = input[r].user
    /\ Anchored(target[r])
    /\ input[r].role \in Roles
    /\ EnsureActorOutranks(r, target[r])

LocalOK(r) ==
    /\ pc[r] \in {"idle", "slug", "access"} => actorRow[r] = Null
    /\ InProgress(r) => input[r].org \in Orgs
    /\ InProgress(r) /\ input[r].kind = "create" => actorRow[r] = Null
    /\ InProgress(r) /\ input[r].kind # "create" => input[r].org \in orgs
    /\ InProgress(r) /\ input[r].kind # "create" /\ pc[r] # "access" => ActorOK(r)
    /\ pc[r] = "slug" => input[r].kind = "create"
    /\ pc[r] = "access" => input[r].kind # "create"
    /\ pc[r] \in {"user", "existing"} => input[r].kind = "add"
    /\ pc[r] \in {"target", "count"} => ~Inserts(r)
    /\ pc[r] \in {"user", "existing", "write", "record"} /\ input[r].kind = "add" => AddOK(r)
    /\ pc[r] \in {"write", "record"} /\ input[r].kind = "create" => input[r].role = "owner"
    /\ pc[r] \in {"existing", "write", "record"} /\ Inserts(r) => input[r].user \in Registered
    /\ pc[r] \in {"count", "write", "record"} /\ ~Inserts(r) => TargetOK(r)
    /\ pc[r] \in {"write", "record"} /\ ~Inserts(r) /\ target[r].role = "owner" =>
         owners[r] > 1

IInv ==
    /\ TypeOK
    /\ OneMembershipPerUser
    /\ OneOrganizationPerSlug
    /\ \A m \in members : Anchored(m) /\ m.org \in orgs
    /\ \A c \in changes : c.kind = "create" => c.org \in orgs
    /\ \A r \in Requests : LocalOK(r)

-----------------------------------------------------------------------------
LEMMA MembersAreFinite ==
  ASSUME members \subseteq Rows, OneMembershipPerUser
  PROVE  IsFiniteSet(members)
<1> DEFINE key == [m \in members |-> <<m.org, m.user>>]
<1>1. IsFiniteSet(Orgs \X Registered)
  BY FS_Product, FS_Subset
<1>2. key \in Injection(members, Orgs \X Registered)
  BY DEF Injection, IsInjective, OneMembershipPerUser, R!OneMembershipPerUser, Rows
<1> QED BY <1>1, <1>2, FS_Injection

(* findByOrganizationAndUser returns a row that is there, or null when there is none. *)
LEMMA FindsWhatIsThere ==
  ASSUME TypeOK, NEW o, NEW u, NEW row, row = FindByOrganizationAndUser(o, u)
  PROVE  /\ row # Null => row \in members /\ row \in Rows /\ row.org = o /\ row.user = u
         /\ row = Null => ~ \E m \in members : m.org = o /\ m.user = u
<1>1. CASE \E m \in members : m.org = o /\ m.user = u
  BY <1>1 DEF FindByOrganizationAndUser, TypeOK
<1>2. CASE ~ \E m \in members : m.org = o /\ m.user = u
  BY <1>2 DEF FindByOrganizationAndUser
<1> QED BY <1>1, <1>2

(* An owner count above one leaves another owner beside any given one. *)
LEMMA AnotherOwner ==
  ASSUME NEW S, Cardinality(S) > 1, NEW t \in S
  PROVE  \E m \in S : m # t
<1> SUFFICES ASSUME \A m \in S : m = t PROVE FALSE
  OBVIOUS
<1>1. S = {t}
  OBVIOUS
<1>2. Cardinality({t}) = 1
  BY FS_Singleton
<1> QED BY <1>1, <1>2

-----------------------------------------------------------------------------
(* A step of r touches what r knows and nothing another request knows, it never undoes a
   write, and what r asks for stays what it was when received. *)
OnlyMoves(r) ==
    /\ \A q \in Requests \ {r} :
         /\ pc'[q] = pc[q] /\ input'[q] = input[q] /\ actorRow'[q] = actorRow[q]
         /\ target'[q] = target[q] /\ owners'[q] = owners[q]
    /\ pc[r] \in {"record", "done", "lost"} => pc'[r] \in {"record", "done", "lost"}
    /\ orgs \subseteq orgs'
    /\ pc[r] # "idle" => input'[r] = input[r]

LEMMA StepsOnlyMove ==
  ASSUME TypeOK, NEW r \in Requests, Step(r)
  PROVE  OnlyMoves(r)
<1> USE DEF TypeOK, OnlyMoves, Goto, Answer, table, snapshots
<1>1. ASSUME NEW in \in Inputs, Receive(r, in) PROVE OnlyMoves(r)
  BY <1>1 DEF Receive
<1>2. CASE ResolveForManagement(r)
  BY <1>2 DEF ResolveForManagement
<1>3. CASE EnsureSlugIsAvailable(r) \/ FindUser(r) \/ EnsureIsNotMemberYet(r)
  BY <1>3 DEF EnsureSlugIsAvailable, FindUser, EnsureIsNotMemberYet
<1>4. CASE FindMember(r)
  BY <1>4 DEF FindMember
<1>5. CASE EnsureAnotherOwnerRemains(r)
  BY <1>5 DEF EnsureAnotherOwnerRemains
<1>6. CASE Write(r) \/ CommitAnswerLost(r)
  BY <1>6 DEF Write, CommitAnswerLost, Commit, CreateWithOwner
<1>7. CASE WriteRefused(r) \/ RecordEvent(r) \/ DatabaseFails(r)
  BY <1>7 DEF WriteRefused, RecordEvent, DatabaseFails, Deciding
<1>8. CASE Crash(r)
  BY <1>8 DEF Crash
<1> QED BY <1>1, <1>2, <1>3, <1>4, <1>5, <1>6, <1>7, <1>8 DEF Step

LEMMA AnchoredStays ==
  ASSUME NEW r \in Requests, OnlyMoves(r), NEW m, Anchored(m)
  PROVE  Anchored(m)'
BY DEF OnlyMoves, Anchored

LEMMA OthersStay ==
  ASSUME NEW r \in Requests, OnlyMoves(r), NEW q \in Requests \ {r}, LocalOK(q)
  PROVE  LocalOK(q)'
<1>1. Anchored(target[q]) => Anchored(target[q])'
  BY AnchoredStays DEF OnlyMoves, Anchored
<1>2. TargetOK(q) => TargetOK(q)'
  BY <1>1 DEF OnlyMoves, TargetOK, EnsureActorOutranks, Anchored
<1>3. /\ ActorOK(q) => ActorOK(q)'
      /\ AddOK(q) => AddOK(q)'
      /\ InProgress(q)' <=> InProgress(q)
  BY DEF OnlyMoves, ActorOK, AddOK, InProgress
<1> QED BY <1>2, <1>3 DEF OnlyMoves, LocalOK

-----------------------------------------------------------------------------
(* The row a request is about to update or delete is the one it read, with whatever role
   it has by now. *)
LEMMA SameRow ==
  ASSUME IInv, NEW r \in Requests, pc[r] \in {"write", "record"}, ~Inserts(r),
         NEW m \in members, m.id = target[r].id
  PROVE  m \in Rows /\ m.org = input[r].org /\ m.user = input[r].user
<1>1. Anchored(m) /\ Anchored(target[r]) /\ m \in Rows /\ target[r] \in Rows
      /\ target[r].org = input[r].org /\ target[r].user = input[r].user
  BY DEF IInv, LocalOK, TargetOK, TypeOK
<1>2. <<m.org, m.user>> \in Orgs \X Registered
  BY <1>1 DEF Rows
<1> QED BY <1>1, <1>2 DEF Anchored

LEMMA CommitKeepsTable ==
  ASSUME IInv, NEW r \in Requests, pc[r] = "write", Commit(r), OnlyMoves(r),
         pc'[r] \in {"record", "done"}
  PROVE  /\ members' \subseteq Rows
         /\ changes' \subseteq Changes
         /\ orgs' \subseteq Orgs
         /\ OneMembershipPerUser' /\ OneOrganizationPerSlug'
         /\ \A m \in members' : Anchored(m)' /\ m.org \in orgs'
         /\ \A c \in changes' : c.kind = "create" => c.org \in orgs'
<1> DEFINE in == input[r]
<1>0. /\ in \in Inputs /\ in.org \in Orgs /\ in.user \in Users /\ in.kind \in Kinds
      /\ in.role \in Roles
      /\ Inserts(r) => in.user \in Registered
      /\ in.kind # "create" => in.org \in orgs
      /\ ~Inserts(r) => TargetOK(r)
      /\ members \subseteq Rows /\ changes \subseteq Changes /\ orgs \subseteq Orgs
      /\ OneMembershipPerUser /\ OneOrganizationPerSlug
      /\ \A m \in members : Anchored(m) /\ Anchored(m)' /\ m.org \in orgs
      /\ \A c \in changes : c.kind = "create" => c.org \in orgs
      /\ in' = in
  BY AnchoredStays
     DEF IInv, TypeOK, LocalOK, InProgress, Inputs, AddOK, TargetOK, OnlyMoves, Roles
<1> USE DEF OneMembershipPerUser, R!OneMembershipPerUser
<1>1. ASSUME Inserts(r), Create(r), orgs' \in {orgs, orgs \cup {in.org}}, in.org \in orgs',
             in.kind = "create" => in.org \notin orgs
      PROVE  /\ members' \subseteq Rows /\ changes' \subseteq Changes /\ orgs' \subseteq Orgs
             /\ OneMembershipPerUser' /\ OneOrganizationPerSlug'
             /\ \A m \in members' : Anchored(m)' /\ m.org \in orgs'
             /\ \A c \in changes' : c.kind = "create" => c.org \in orgs'
  <2> DEFINE new == [id |-> r, org |-> in.org, user |-> in.user, role |-> in.role]
             done == Change(r, NoRole, To(r))
  <2>1. new \in Rows /\ members' = members \cup {new} /\ new.org = in.org
    BY <1>0, <1>1 DEF Create, Rows, Ids
  <2>2. Anchored(new)'
    BY <1>0 DEF Anchored
  <2>3. ~ \E m \in members : m.org = new.org /\ m.user = new.user
    BY <1>1 DEF Commit, Accepts
  <2>4. /\ done \in Changes /\ changes' = changes \cup {done}
        /\ done.kind = in.kind /\ done.org = in.org
    BY <1>0, <1>1 DEF Create, Changes, Change, To
  <2>5. OneMembershipPerUser'
    BY <1>0, <2>1, <2>3
  <2>6. \A m \in members' : Anchored(m)' /\ m.org \in orgs'
    BY <1>0, <1>1, <2>1, <2>2
  <2> HIDE DEF new, done
  <2>7. \A c \in changes' : c.kind = "create" => c.org \in orgs'
    BY <1>0, <1>1, <2>4
  <2>8. OneOrganizationPerSlug'
    BY <1>0, <1>1, <2>4 DEF OneOrganizationPerSlug
  <2> QED BY <1>0, <1>1, <2>1, <2>4, <2>5, <2>6, <2>7, <2>8
<1>2. CASE in.kind = "create" /\ CreateWithOwner(r)
  BY <1>1, <1>2 DEF CreateWithOwner, Commit, Accepts
<1>3. CASE in.kind = "add" /\ Create(r) /\ UNCHANGED orgs
  BY <1>0, <1>1, <1>3
<1>4. ASSUME in.kind \in {"change", "remove"}, UNCHANGED orgs,
             changes' = changes \cup
               {Change(r, m.role, To(r)) : m \in {m \in members : m.id = target[r].id}}
      PROVE  /\ changes' \subseteq Changes /\ OneOrganizationPerSlug'
             /\ \A c \in changes' : c.kind = "create" => c.org \in orgs'
  <2>1. \A c \in changes' : c \in changes \/ (c \in Changes /\ c.kind = in.kind)
    BY <1>0, <1>4 DEF Changes, Change, To, Rows
  <2> QED BY <1>0, <1>4, <2>1 DEF OneOrganizationPerSlug
<1>5. CASE in.kind = "change" /\ Update(r) /\ UNCHANGED orgs
  <2> DEFINE upd(m) == IF m.id = target[r].id THEN [m EXCEPT !.role = in.role] ELSE m
  <2>1. members' = {upd(m) : m \in members}
    BY <1>5 DEF Update
  <2>2. \A m \in members : /\ upd(m) \in Rows /\ upd(m).id = m.id /\ upd(m).org = m.org
                           /\ upd(m).user = m.user
    BY <1>0 DEF Rows
  <2> HIDE DEF upd
  <2>3. OneMembershipPerUser'
    BY <1>0, <2>1, <2>2
  <2>4. ASSUME NEW n \in members' PROVE Anchored(n)' /\ n.org \in orgs'
    <3>1. PICK m \in members : n.id = m.id /\ n.org = m.org /\ n.user = m.user
      BY <2>1, <2>2
    <3> QED BY <1>0, <1>5, <3>1 DEF Anchored
  <2>5. members' \subseteq Rows
    BY <2>1, <2>2
  <2> QED BY <1>0, <1>4, <1>5, <2>3, <2>4, <2>5 DEF Update
<1>6. CASE in.kind = "remove" /\ Delete(r) /\ UNCHANGED orgs
  BY <1>0, <1>4, <1>6 DEF Delete
<1> QED BY <1>2, <1>3, <1>5, <1>6 DEF Commit

-----------------------------------------------------------------------------
LEMMA InitInvariant == Init => IInv
<1> SUFFICES ASSUME Init PROVE IInv
  OBVIOUS
<1>1. PICK role \in [orgs \X Registered -> Roles \cup {NoRole}] :
        members = {[id |-> p, org |-> p[1], user |-> p[2], role |-> role[p]] :
                     p \in {q \in orgs \X Registered : role[q] # NoRole}}
  BY DEF Init
<1>2. \A m \in members : /\ m \in Rows /\ m.org \in orgs
                         /\ m.id \in Orgs \X Registered /\ m.id = <<m.org, m.user>>
                         /\ m = [id |-> m.id, org |-> m.id[1], user |-> m.id[2],
                                 role |-> role[m.id]]
  BY <1>1 DEF Init, Rows, Ids, Roles
<1>3. OneMembershipPerUser
  BY <1>2 DEF OneMembershipPerUser, R!OneMembershipPerUser
<1>4. TypeOK
  BY <1>2 DEF Init, TypeOK, PcValues, Deciding, Replies, Changes
<1>5. \A r \in Requests : LocalOK(r)
  BY DEF Init, LocalOK, InProgress, Deciding
<1> QED BY <1>2, <1>3, <1>4, <1>5 DEF Init, IInv, Anchored, OneOrganizationPerSlug

(* A step that leaves the table alone keeps the invariant if it keeps the types and what
   the request itself knows. *)
LEMMA QuietStep ==
  ASSUME IInv, NEW r \in Requests, OnlyMoves(r), UNCHANGED table, TypeOK', LocalOK(r)'
  PROVE  IInv'
<1>1. \A m \in members' : Anchored(m)' /\ m.org \in orgs'
  BY AnchoredStays DEF IInv, table
<1>2. \A q \in Requests : LocalOK(q)'
  BY OthersStay DEF IInv
<1> QED BY <1>1, <1>2 DEF IInv, OneMembershipPerUser, R!OneMembershipPerUser,
           OneOrganizationPerSlug, table

LEMMA StepInvariant ==
  ASSUME IInv, NEW r \in Requests, Step(r)
  PROVE  IInv'
<1>0. /\ TypeOK /\ OnlyMoves(r) /\ LocalOK(r)
      /\ pc \in [Requests -> PcValues] /\ reply \in [Requests -> Replies]
  BY StepsOnlyMove DEF IInv, TypeOK
<1> USE DEF Goto, Answer, table, snapshots, PcValues, Deciding, Replies, ClientErrors
<1>1. ASSUME NEW in \in Inputs, Receive(r, in) PROVE IInv'
  <2>1. TypeOK'
    BY <1>0, <1>1 DEF TypeOK, Receive
  <2>2. LocalOK(r)'
    BY <1>0, <1>1 DEF TypeOK, LocalOK, InProgress, Receive, Inputs
  <2> QED BY <1>0, <1>1, <2>1, <2>2, QuietStep DEF Receive
<1>2. CASE ResolveForManagement(r)
  <2> DEFINE row == FindByOrganizationAndUser(input[r].org, input[r].actor)
  <2>1. row # Null => row \in members /\ row \in Rows /\ row.org = input[r].org
    BY <1>0, FindsWhatIsThere
  <2> HIDE DEF row
  <2>2. actorRow' = [actorRow EXCEPT ![r] = row]
    BY <1>2 DEF ResolveForManagement, row
  <2>3. TypeOK'
    BY <1>0, <1>2, <2>1, <2>2 DEF TypeOK, ResolveForManagement
  <2>4. LocalOK(r)'
    BY <1>0, <1>2, <2>1, <2>2
       DEF TypeOK, LocalOK, InProgress, ResolveForManagement, row, ActorOK, AddOK, Inputs
  <2> QED BY <1>0, <1>2, <2>3, <2>4, QuietStep DEF ResolveForManagement
<1>3. CASE EnsureSlugIsAvailable(r) \/ FindUser(r) \/ EnsureIsNotMemberYet(r)
  <2>1. TypeOK'
    BY <1>0, <1>3 DEF TypeOK, EnsureSlugIsAvailable, FindUser, EnsureIsNotMemberYet
  <2>2. LocalOK(r)'
    BY <1>0, <1>3
       DEF TypeOK, LocalOK, InProgress, Inputs, EnsureSlugIsAvailable, FindUser, EnsureIsNotMemberYet, ActorOK, AddOK
  <2> QED BY <1>0, <1>3, <2>1, <2>2, QuietStep DEF EnsureSlugIsAvailable, FindUser, EnsureIsNotMemberYet
<1>4. CASE FindMember(r)
  <2> DEFINE t == FindByOrganizationAndUser(input[r].org, input[r].user)
  <2>1. t # Null => /\ t \in members /\ t \in Rows
                    /\ t.org = input[r].org /\ t.user = input[r].user
    BY <1>0, FindsWhatIsThere
  <2> HIDE DEF t
  <2>2. target' = [target EXCEPT ![r] = t]
    BY <1>4 DEF FindMember, t
  <2>3. t # Null => Anchored(target[r])'
    <3>1. \A m \in members : Anchored(m)'
      BY <1>0, AnchoredStays DEF IInv
    <3>2. target'[r] = t
      BY <1>0, <2>2 DEF TypeOK
    <3> QED BY <2>1, <3>1, <3>2 DEF Anchored
  <2>4. TypeOK'
    BY <1>0, <1>4, <2>1, <2>2 DEF TypeOK, FindMember
  <2>5. pc'[r] \in {"count", "write"} =>
          /\ t # Null /\ input[r].role \in Roles /\ EnsureActorOutranks(r, t)
          /\ pc'[r] = "write" => t.role # "owner"
    BY <1>0, <1>4 DEF TypeOK, FindMember, t, Inputs
  <2>6. pc'[r] \in {"count", "write"} => TargetOK(r)'
    BY <1>0, <1>4, <2>1, <2>2, <2>3, <2>5 DEF TypeOK, FindMember, TargetOK, EnsureActorOutranks
  <2>7. LocalOK(r)'
    BY <1>0, <1>4, <2>2, <2>5, <2>6 DEF TypeOK, LocalOK, InProgress, FindMember, ActorOK
  <2> QED BY <1>0, <1>4, <2>4, <2>7, QuietStep DEF FindMember
<1>5. CASE EnsureAnotherOwnerRemains(r)
  <2> DEFINE n == Cardinality(OwnersOf(input[r].org))
  <2>1. n \in Nat
    BY MembersAreFinite, FS_Subset, FS_CardinalityType DEF IInv, TypeOK, OwnersOf
  <2> HIDE DEF n
  <2>2. owners' = [owners EXCEPT ![r] = n]
    BY <1>5 DEF EnsureAnotherOwnerRemains, n
  <2>3. TypeOK'
    BY <1>0, <1>5, <2>1, <2>2 DEF TypeOK, EnsureAnotherOwnerRemains
  <2>4. pc'[r] = "write" => n > 1
    BY <1>0, <1>5 DEF TypeOK, EnsureAnotherOwnerRemains, EnoughOwners, n
  <2>5. TargetOK(r) => TargetOK(r)'
    BY <1>0, <1>5, AnchoredStays
       DEF EnsureAnotherOwnerRemains, TargetOK, EnsureActorOutranks, Anchored, OnlyMoves
  <2>6. LocalOK(r)'
    BY <1>0, <1>5, <2>2, <2>4, <2>5
       DEF TypeOK, LocalOK, InProgress, EnsureAnotherOwnerRemains, ActorOK
  <2> QED BY <1>0, <1>5, <2>3, <2>6, QuietStep DEF EnsureAnotherOwnerRemains
<1>6. CASE Write(r) \/ CommitAnswerLost(r)
  <2>1. /\ pc[r] = "write" /\ Commit(r)
        /\ pc' = [pc EXCEPT ![r] = "record"] \/ pc' = [pc EXCEPT ![r] = "done"]
        /\ UNCHANGED <<input, snapshots, events>> /\ reply' \in [Requests -> Replies]
    BY <1>0, <1>6 DEF Write, CommitAnswerLost
  <2>2. /\ members' \subseteq Rows /\ changes' \subseteq Changes
        /\ orgs' \subseteq Orgs
        /\ OneMembershipPerUser' /\ OneOrganizationPerSlug'
        /\ \A m \in members' : Anchored(m)' /\ m.org \in orgs'
        /\ \A c \in changes' : c.kind = "create" => c.org \in orgs'
    BY <1>0, <2>1, CommitKeepsTable
  <2>3. TypeOK'
    BY <1>0, <2>1, <2>2 DEF TypeOK
  <2>4. TargetOK(r) => TargetOK(r)'
    BY <1>0, <2>1, AnchoredStays
       DEF TargetOK, EnsureActorOutranks, Anchored, OnlyMoves
  <2>5. LocalOK(r)'
    BY <1>0, <2>1, <2>4 DEF LocalOK, InProgress, ActorOK, AddOK, OnlyMoves
  <2>6. \A q \in Requests : LocalOK(q)'
    BY <1>0, <2>5, OthersStay DEF IInv
  <2> QED BY <2>2, <2>3, <2>6 DEF IInv
<1>7. CASE WriteRefused(r) \/ DatabaseFails(r) \/ Crash(r)
  <2>1. TypeOK'
    BY <1>0, <1>7 DEF TypeOK, InProgress, WriteRefused, DatabaseFails, Crash
  <2>2. LocalOK(r)'
    BY <1>0, <1>7 DEF LocalOK, InProgress, WriteRefused, DatabaseFails, Crash
  <2> QED BY <1>0, <1>7, <2>1, <2>2, QuietStep DEF WriteRefused, DatabaseFails, Crash
<1>8. CASE RecordEvent(r)
  <2>1. Change(r, From(r), To(r)) \in Changes
    BY <1>0, <1>8 DEF TypeOK, LocalOK, InProgress, RecordEvent, Change, Changes, From, To,
                     Inputs, AddOK, TargetOK, Rows, Roles
  <2>2. TypeOK'
    BY <1>0, <1>8, <2>1 DEF TypeOK, RecordEvent
  <2>3. LocalOK(r)'
    BY <1>0, <1>8 DEF LocalOK, InProgress, RecordEvent
  <2> QED BY <1>0, <1>8, <2>2, <2>3, QuietStep DEF RecordEvent
<1> QED BY <1>1, <1>2, <1>3, <1>4, <1>5, <1>6, <1>7, <1>8 DEF Step

(* The invariant behind everything else that is proved of this module. *)
THEOREM Invariant == Spec => []IInv
<1>1. IInv /\ [Next]_vars => IInv'
  <2> SUFFICES ASSUME IInv, [Next]_vars PROVE IInv'
    OBVIOUS
  <2>1. CASE UNCHANGED vars
    BY <2>1 DEF vars, IInv, TypeOK, OneMembershipPerUser, R!OneMembershipPerUser,
                OneOrganizationPerSlug, Anchored,
                LocalOK, InProgress, ActorOK, AddOK, TargetOK, EnsureActorOutranks
  <2> QED BY <2>1, StepInvariant DEF Next, AllAnswered
<1> QED BY InitInvariant, <1>1, PTL DEF Spec

(* The types of every variable, whatever the requests and faults. *)
THEOREM TypeCorrect == Spec => []TypeOK
BY Invariant, PTL DEF IInv

(* The unique index on slug decides between those who found one slug available. *)
THEOREM OneCreatorPerSlug == Spec => []OneOrganizationPerSlug
BY Invariant, PTL DEF IInv

(* No interleaving of additions, and no fault, gives a user two memberships of one
   organization. *)
THEOREM NeverTwoMemberships == Spec => []OneMembershipPerUser
BY Invariant, PTL DEF IInv

-----------------------------------------------------------------------------
(* The table changes only by the commit of a request that stands at its write. *)
LEMMA OnlyCommitsWrite ==
  ASSUME TypeOK, NEW r \in Requests, Step(r)
  PROVE  UNCHANGED <<orgs, members>> \/ (pc[r] = "write" /\ Commit(r))
BY DEF Step, Receive, EnsureSlugIsAvailable, ResolveForManagement, FindUser, EnsureIsNotMemberYet, FindMember,
       EnsureAnotherOwnerRemains, Write, WriteRefused, RecordEvent, DatabaseFails,
       CommitAnswerLost, Crash, table

LEMMA FreshCommit ==
  ASSUME IInv, NEW r \in Requests, pc[r] = "write", Commit(r), SnapshotIsCurrent(r)
  PROVE  Lawful(r) /\ (input[r].kind # "create" => actorRow[r] \in members)
<1> DEFINE in == input[r]
           a == actorRow[r]
           t == target[r]
<1>1. /\ in.kind # "create" => a \in members /\ a.org = in.org /\ CanManageMembers(a.role)
      /\ in.kind = "add" => AddOK(r)
      /\ in.kind = "create" => in.role = "owner"
      /\ Inserts(r) => in.user \in Registered
      /\ ~Inserts(r) => TargetOK(r) /\ t \in members
      /\ ~Inserts(r) /\ t.role = "owner" => Cardinality(OwnersOf(in.org)) > 1
      /\ in.org \in Orgs /\ members \subseteq Rows
  BY DEF IInv, TypeOK, LocalOK, InProgress, ActorOK, SnapshotIsCurrent
<1>2. \A m \in members : m.id = r => FALSE
  <2> SUFFICES ASSUME NEW m \in members, m.id = r PROVE FALSE
    OBVIOUS
  <2>1. Anchored(m)
    BY DEF IInv
  <2> QED BY <2>1 DEF Anchored
<1>3. ASSUME Inserts(r), Create(r)
      PROVE  \E new \in R!Rows : /\ new.org = in.org /\ new.role = in.role /\ R!IsNew(new)
                                 /\ members' = members \cup {new}
  <2> DEFINE new == [id |-> r, org |-> in.org, user |-> in.user, role |-> in.role]
  <2>1. new \in R!Rows /\ members' = members \cup {new}
    BY <1>1, <1>3 DEF Create, AddOK, R!Rows, Ids, R!Roles, Roles
  <2>2. R!IsNew(new)
    BY <1>2, <1>3 DEF Commit, Accepts, R!IsNew
  <2>3. new.org = in.org /\ new.role = in.role
    OBVIOUS
  <2> HIDE DEF new
  <2> QED BY <2>1, <2>2, <2>3
<1>c. CASE in.kind = "create" /\ CreateWithOwner(r)
  <2>1. PICK new \in R!Rows : /\ new.org = in.org /\ new.role = in.role /\ R!IsNew(new)
                              /\ members' = members \cup {new}
    BY <1>3, <1>c DEF CreateWithOwner
  <2>2. R!Found(new)
    BY <1>1, <1>c, <2>1 DEF CreateWithOwner, Commit, Accepts, R!Found
  <2> QED BY <1>c, <2>2 DEF Lawful, Rows, R!Rows, R!Roles, Roles
<1>a. CASE in.kind = "add" /\ Create(r) /\ UNCHANGED orgs
  <2>1. PICK new \in R!Rows : /\ new.org = in.org /\ new.role = in.role /\ R!IsNew(new)
                              /\ members' = members \cup {new}
    BY <1>3, <1>a
  <2>2. R!MayManage(a, new.org, new.role)
    BY <1>1, <1>a, <2>1 DEF AddOK, R!MayManage, CanManageMembers, R!CanManageMembers,
       OutranksOrEquals, R!OutranksOrEquals, Rank, R!Rank
  <2>3. R!Grant(a, new)
    BY <1>a, <2>1, <2>2 DEF R!Grant
  <2>4. R!By(a)
    BY <2>1, <2>3 DEF R!By
  <2> QED BY <1>1, <1>a, <2>4 DEF Lawful
<1>4. ASSUME ~Inserts(r)
      PROVE  /\ R!MayManage(a, t.org, t.role) /\ t \in members
             /\ t.role = "owner" => R!HasOwner(members \ {t}, t.org)
             /\ \A m \in members : m.id = t.id => m = t
             /\ in.role \in R!Roles
             /\ in.kind = "change" => R!MayManage(a, t.org, in.role)
  <2>1. /\ R!MayManage(a, t.org, t.role)
        /\ in.role \in R!Roles
        /\ in.kind = "change" => R!MayManage(a, t.org, in.role)
    BY <1>1, <1>4 DEF TargetOK, EnsureActorOutranks, R!MayManage, CanManageMembers,
       R!CanManageMembers, OutranksOrEquals, R!OutranksOrEquals, Rank, R!Rank, R!Roles, Roles
  <2>2. ASSUME t.role = "owner" PROVE R!HasOwner(members \ {t}, t.org)
    <3>1. t \in OwnersOf(in.org) /\ t.org = in.org
      BY <1>1, <1>4, <2>2 DEF OwnersOf, TargetOK
    <3>2. PICK m \in OwnersOf(in.org) : m # t
      BY <1>1, <1>4, <2>2, <3>1, AnotherOwner
    <3> QED BY <3>1, <3>2 DEF OwnersOf, R!HasOwner
  <2>3. ASSUME NEW m \in members, m.id = t.id PROVE m = t
    <3>1. m.org = t.org /\ m.user = t.user
      BY <1>1, <1>4, <2>3, SameRow DEF TargetOK
    <3> QED BY <1>1, <1>4, <3>1 DEF IInv, OneMembershipPerUser, R!OneMembershipPerUser
  <2> QED BY <1>1, <1>4, <2>1, <2>2, <2>3
<1>5. CASE in.kind = "change" /\ Update(r) /\ UNCHANGED orgs
  <2> DEFINE new == [t EXCEPT !.role = in.role]
  <2>1. members' = {IF m = t THEN new ELSE m : m \in members}
    BY <1>4, <1>5 DEF Update
  <2> HIDE DEF new
  <2>2. members' = (members \ {t}) \cup {new}
    BY <1>4, <1>5, <2>1
  <2>3. R!ChangeRole(a, t, in.role)
    BY <1>4, <1>5, <2>2 DEF R!ChangeRole, new
  <2> QED BY <1>1, <1>4, <1>5, <2>3 DEF R!By, Lawful
<1>6. CASE in.kind = "remove" /\ Delete(r) /\ UNCHANGED orgs
  <2>1. members' = members \ {t}
    BY <1>4, <1>6 DEF Delete
  <2>2. R!Revoke(a, t)
    BY <1>4, <1>6, <2>1 DEF R!Revoke
  <2> QED BY <1>1, <1>4, <1>6, <2>2 DEF R!By, Lawful
<1> QED BY <1>c, <1>a, <1>5, <1>6 DEF Commit

(* A write whose snapshots are still current is one of the changes MembershipRules.tla
   allows, whatever else is under way. *)
THEOREM FreshWritesAreLawful == Spec => FreshWritesObeyTheRules
<1>1. ASSUME IInv, [Next]_vars
      PROVE  [\A r \in Requests : pc[r] = "write" /\ pc'[r] # "write" /\ SnapshotIsCurrent(r)
                                  => Lawful(r)]_vars
  <2> SUFFICES ASSUME ~UNCHANGED vars, NEW r \in Requests, pc[r] = "write",
                      pc'[r] # "write", SnapshotIsCurrent(r)
               PROVE  Lawful(r)
    OBVIOUS
  <2>1. PICK q \in Requests : Step(q)
    BY <1>1 DEF Next, AllAnswered
  <2>2. q = r
    BY <1>1, <2>1, StepsOnlyMove DEF IInv, OnlyMoves
  <2> QED BY <1>1, <2>1, <2>2, OnlyCommitsWrite, FreshCommit DEF IInv, Lawful
<1> QED BY Invariant, <1>1, PTL DEF Spec, FreshWritesObeyTheRules

-----------------------------------------------------------------------------
LEMMA OwnersComeFromOwners ==
  ASSUME IInv, NEW r \in Requests, pc[r] = "write", Commit(r), NEW o \in orgs,
         OwnersOf(o) = {}, ~OwnerAtWork(o)
  PROVE  OwnersOf(o)' = {}
<1> DEFINE in == input[r]
<1>1. /\ InProgress(r)
      /\ in.kind # "create" => actorRow[r] # Null /\ actorRow[r] \in Rows
      /\ in.kind = "add" => AddOK(r)
      /\ ~Inserts(r) => TargetOK(r)
      /\ members \subseteq Rows
  BY DEF IInv, TypeOK, LocalOK, InProgress, ActorOK
<1>2. in.org = o /\ in.kind \in {"add", "change"} => in.role # "owner"
  BY <1>1 DEF OwnerAtWork, AddOK, TargetOK, EnsureActorOutranks, OutranksOrEquals, Rank,
              Rows, Roles
<1>3. \A m \in members : ~(m.org = o /\ m.role = "owner")
  BY DEF OwnersOf
<1>4. CASE in.kind = "add" /\ Create(r)
  BY <1>2, <1>3, <1>4 DEF Create, OwnersOf
<1>c. CASE in.kind = "create" /\ CreateWithOwner(r)
  BY <1>3, <1>c DEF CreateWithOwner, Create, Commit, Accepts, OwnersOf
<1>5. CASE in.kind = "change" /\ Update(r)
  <2> SUFFICES ASSUME NEW n \in members', n.org = o, n.role = "owner" PROVE FALSE
    BY DEF OwnersOf
  <2>1. PICK m \in members :
          n = IF m.id = target[r].id THEN [m EXCEPT !.role = in.role] ELSE m
    BY <1>5 DEF Update
  <2>2. CASE m.id = target[r].id
    <3>1. m \in Rows /\ m.org = in.org
      BY <1>5, <2>2, SameRow
    <3>2. n.org = m.org /\ n.role = in.role
      BY <2>1, <2>2, <3>1 DEF Rows
    <3> QED BY <1>2, <1>5, <3>1, <3>2
  <2>3. CASE m.id # target[r].id
    BY <1>3, <2>1, <2>3
  <2> QED BY <2>2, <2>3
<1>6. CASE in.kind = "remove" /\ Delete(r)
  BY <1>3, <1>6 DEF Delete, OwnersOf
<1> QED BY <1>4, <1>c, <1>5, <1>6 DEF Commit

LEMMA OwnersAtWorkReadAnOwner ==
  ASSUME IInv, NEW r \in Requests, Step(r), NEW o \in orgs,
         OwnersOf(o) = {}, ~OwnerAtWork(o)
  PROVE  ~OwnerAtWork(o)'
<1>0. TypeOK /\ OnlyMoves(r) /\ LocalOK(r)
  BY StepsOnlyMove DEF IInv
<1> SUFFICES ASSUME NEW q \in Requests, InProgress(q)', input'[q].org = o,
                    actorRow'[q] # Null, actorRow'[q].role = "owner"
             PROVE  FALSE
  BY DEF OwnerAtWork
<1>1. CASE q # r
  BY <1>0, <1>1 DEF OnlyMoves, OwnerAtWork, InProgress
<1>2. CASE q = r /\ ResolveForManagement(r)
  <2> DEFINE row == FindByOrganizationAndUser(input[r].org, input[r].actor)
  <2>1. row # Null => row \in members /\ row.org = input[r].org
    BY <1>0, FindsWhatIsThere
  <2>2. actorRow'[r] = row /\ input' = input
    BY <1>0, <1>2 DEF ResolveForManagement, TypeOK
  <2> HIDE DEF row
  <2> QED BY <1>2, <2>1, <2>2 DEF OwnersOf
<1>3. CASE q = r /\ ~ResolveForManagement(r)
  <2>1. actorRow'[r] = actorRow[r]
    BY <1>3 DEF Step, Receive, EnsureSlugIsAvailable, FindUser, EnsureIsNotMemberYet, FindMember,
       EnsureAnotherOwnerRemains, Write, WriteRefused, RecordEvent, DatabaseFails,
       CommitAnswerLost, Crash, snapshots
  <2>2. pc[r] # "idle"
    BY <1>0, <1>3, <2>1 DEF LocalOK
  <2>3. InProgress(r)
    BY <2>2, <1>3 DEF Step, Receive, EnsureSlugIsAvailable, FindUser, EnsureIsNotMemberYet, FindMember,
       EnsureAnotherOwnerRemains, Write, WriteRefused, RecordEvent, DatabaseFails,
       CommitAnswerLost, Crash, InProgress, Deciding
  <2> QED BY <1>0, <1>3, <2>1, <2>2, <2>3 DEF OnlyMoves, OwnerAtWork
<1> QED BY <1>1, <1>2, <1>3

(* An organization that lost its owners, with no former owner's request under way, never
   has one again: no admin can give a rank above his own. *)
THEOREM OwnerlessStaysOwnerless == Spec => OwnerlessIsForever
<1>1. ASSUME IInv, [Next]_vars
      PROVE  [\A o \in orgs : OwnersOf(o) = {} /\ ~OwnerAtWork(o)
                               => (OwnersOf(o) = {} /\ ~OwnerAtWork(o))']_vars
  <2> SUFFICES ASSUME ~UNCHANGED vars, NEW o \in orgs, OwnersOf(o) = {}, ~OwnerAtWork(o)
               PROVE  (OwnersOf(o) = {} /\ ~OwnerAtWork(o))'
    OBVIOUS
  <2>1. PICK r \in Requests : Step(r)
    BY <1>1 DEF Next, AllAnswered
  <2>2. ~OwnerAtWork(o)'
    BY <1>1, <2>1, OwnersAtWorkReadAnOwner
  <2>3. OwnersOf(o)' = {}
    <3>1. CASE UNCHANGED <<orgs, members>>
      BY <3>1 DEF OwnersOf
    <3>2. CASE pc[r] = "write" /\ Commit(r)
      BY <1>1, <3>2, OwnersComeFromOwners
    <3> QED BY <1>1, <2>1, <3>1, <3>2, OnlyCommitsWrite DEF IInv
  <2> QED BY <2>2, <2>3
<1> QED BY Invariant, <1>1, PTL DEF Spec, OwnerlessIsForever

-----------------------------------------------------------------------------
(* With one request at a time, what a request has read is what the table says until it
   writes itself. *)
Fresh(r) ==
    /\ pc[r] \in {"user", "existing", "target", "count"} => actorRow[r] \in members
    /\ pc[r] = "write" /\ input[r].kind # "create" => actorRow[r] \in members
    /\ pc[r] \in {"count", "write"} /\ ~Inserts(r) => target[r] \in members
    /\ pc[r] = "write" /\ ~Inserts(r) /\ target[r].role = "owner" =>
         owners[r] = Cardinality(OwnersOf(input[r].org))

SerialInv ==
    /\ \A q, r \in Requests : InProgress(q) /\ InProgress(r) => q = r
    /\ \A r \in Requests : Fresh(r)

LEMMA AloneWhenReceived ==
  ASSUME Concurrency = 1, NEW r \in Requests, NEW in \in Inputs, Receive(r, in)
  PROVE  \A q \in Requests : ~InProgress(q)
<1> DEFINE S == {q \in Requests : InProgress(q)}
<1>1. IsFiniteSet(S) /\ Cardinality(S) \in Nat
  BY FS_Subset, FS_CardinalityType
<1>2. Cardinality(S) < 1
  BY DEF Receive
<1> HIDE DEF S
<1>3. S = {}
  BY <1>1, <1>2, FS_EmptySet
<1> QED BY <1>3 DEF S

LEMMA SerialStep ==
  ASSUME Concurrency = 1, IInv, SerialInv, NEW r \in Requests, Step(r)
  PROVE  SerialInv'
<1>0. TypeOK /\ OnlyMoves(r) /\ Fresh(r)
  BY StepsOnlyMove DEF IInv, SerialInv
<1>1. \A q \in Requests \ {r} : ~InProgress(q) /\ ~InProgress(q)'
  <2>1. \A q \in Requests \ {r} : ~InProgress(q)
    <3>1. CASE InProgress(r)
      BY <3>1 DEF SerialInv
    <3>2. CASE ~InProgress(r)
      <4>1. PICK in \in Inputs : Receive(r, in)
        BY <3>2 DEF Step, EnsureSlugIsAvailable, ResolveForManagement, FindUser, EnsureIsNotMemberYet, FindMember,
           EnsureAnotherOwnerRemains, Write, WriteRefused, RecordEvent, DatabaseFails,
           CommitAnswerLost, Crash, InProgress, Deciding
      <4> QED BY <4>1, AloneWhenReceived
    <3> QED BY <3>1, <3>2
  <2> QED BY <1>0, <2>1 DEF OnlyMoves, InProgress
<1>2. \A q \in Requests \ {r} : Fresh(q)'
  BY <1>1 DEF Fresh, InProgress, Deciding
<1> SUFFICES Fresh(r)'
  BY <1>1, <1>2 DEF SerialInv
<1> USE DEF Goto, Answer, table, snapshots, Deciding, PcValues
<1>3. ASSUME NEW in \in Inputs, Receive(r, in) PROVE Fresh(r)'
  BY <1>0, <1>3 DEF Receive, Fresh, TypeOK
<1>4. CASE ResolveForManagement(r)
  <2> DEFINE row == FindByOrganizationAndUser(input[r].org, input[r].actor)
  <2>1. row # Null => row \in members
    BY <1>0, FindsWhatIsThere
  <2> HIDE DEF row
  <2>2. actorRow' = [actorRow EXCEPT ![r] = row] /\ members' = members
    BY <1>4 DEF ResolveForManagement, row
  <2>3. pc'[r] \in {"user", "target", "done"} /\ (pc'[r] # "done" => row # Null)
    BY <1>0, <1>4 DEF ResolveForManagement, row, TypeOK
  <2> QED BY <1>0, <2>1, <2>2, <2>3 DEF Fresh, TypeOK
<1>5. CASE EnsureSlugIsAvailable(r) \/ FindUser(r)
  BY <1>0, <1>5 DEF EnsureSlugIsAvailable, FindUser, Fresh, TypeOK, IInv, LocalOK
<1>6. CASE EnsureIsNotMemberYet(r)
  BY <1>0, <1>6 DEF EnsureIsNotMemberYet, Fresh, TypeOK, IInv, LocalOK
<1>7. CASE FindMember(r)
  <2> DEFINE t == FindByOrganizationAndUser(input[r].org, input[r].user)
  <2>1. t # Null => t \in members
    BY <1>0, FindsWhatIsThere
  <2> HIDE DEF t
  <2>2. target' = [target EXCEPT ![r] = t] /\ members' = members /\ actorRow' = actorRow
    BY <1>7 DEF FindMember, t
  <2>3. /\ pc[r] = "target" /\ pc'[r] \in {"count", "write", "done"}
        /\ pc'[r] # "done" => t # Null
        /\ pc'[r] = "write" => t.role # "owner"
    BY <1>0, <1>7 DEF FindMember, t, TypeOK
  <2> QED BY <1>0, <2>1, <2>2, <2>3 DEF Fresh, TypeOK
<1>8. CASE EnsureAnotherOwnerRemains(r)
  BY <1>0, <1>8 DEF EnsureAnotherOwnerRemains, Fresh, TypeOK, OwnersOf
<1>9. CASE Write(r) \/ WriteRefused(r) \/ RecordEvent(r) \/ DatabaseFails(r)
           \/ CommitAnswerLost(r) \/ Crash(r)
  <2>1. pc'[r] \in {"record", "done", "lost"}
    BY <1>0, <1>9 DEF Write, WriteRefused, RecordEvent, DatabaseFails, CommitAnswerLost,
       Crash, TypeOK
  <2> QED BY <2>1 DEF Fresh
<1> QED BY <1>3, <1>4, <1>5, <1>6, <1>7, <1>8, <1>9 DEF Step

LEMMA SerialInvariant == ASSUME Concurrency = 1 PROVE Spec => []SerialInv
<1>1. Init => SerialInv
  BY DEF Init, SerialInv, Fresh, InProgress, Deciding
<1>2. IInv /\ SerialInv /\ [Next]_vars => SerialInv'
  <2> SUFFICES ASSUME IInv, SerialInv, [Next]_vars PROVE SerialInv'
    OBVIOUS
  <2>1. CASE UNCHANGED vars
    BY <2>1 DEF vars, SerialInv, Fresh, InProgress, OwnersOf
  <2> QED BY <2>1, SerialStep DEF Next, AllAnswered
<1> QED BY <1>1, <1>2, Invariant, PTL DEF Spec

LEMMA InitObeysTheRules == Init => R!Init
<1> SUFFICES ASSUME Init PROVE R!Init
  OBVIOUS
<1>1. OneMembershipPerUser /\ members \subseteq Rows /\ orgs \subseteq Orgs
  BY InitInvariant DEF IInv, TypeOK
<1>2. ASSUME NEW o \in orgs PROVE R!HasOwner(members, o)
  <2> DEFINE row(p, role) == [id |-> p, org |-> p[1], user |-> p[2], role |-> role[p]]
  <2>1. PICK role \in [orgs \X Registered -> Roles \cup {NoRole}] :
          /\ members = {row(p, role) : p \in {q \in orgs \X Registered : role[q] # NoRole}}
          /\ \E u \in Registered : role[<<o, u>>] = "owner"
    BY DEF Init
  <2>2. PICK u \in Registered : role[<<o, u>>] = "owner"
    BY <2>1
  <2>3. PICK p \in orgs \X Registered : p = <<o, u>> /\ role[p] = "owner"
    BY <2>2
  <2>4. row(p, role).org = o /\ row(p, role).role = "owner"
    BY <2>3
  <2> HIDE DEF row
  <2>5. row(p, role) \in members
    BY <2>1, <2>3 DEF NoRole
  <2> QED BY <2>4, <2>5 DEF R!HasOwner
<1> QED BY <1>1, <1>2 DEF R!Init, R!AlwaysAnOwner, R!Rows, Rows, R!Roles, Roles,
           OneMembershipPerUser

(* Served one at a time, with every fault and crash, the use cases are the atomic changes of
   MembershipRules.tla: what the program adds to them is only the interleaving. *)
THEOREM SerialRequestsImplementRules == Concurrency = 1 => (Spec => ImplementsRules)
<1> SUFFICES ASSUME Concurrency = 1 PROVE Spec => ImplementsRules
  OBVIOUS
<1>1. IInv /\ SerialInv /\ [Next]_vars => [R!Next]_<<orgs, members>>
  <2> SUFFICES ASSUME IInv, SerialInv, [Next]_vars PROVE [R!Next]_<<orgs, members>>
    OBVIOUS
  <2>1. CASE UNCHANGED vars
    BY <2>1 DEF vars
  <2>2. ASSUME NEW r \in Requests, Step(r) PROVE R!Next \/ UNCHANGED <<orgs, members>>
    <3>1. CASE UNCHANGED <<orgs, members>>
      BY <3>1
    <3>2. CASE pc[r] = "write" /\ Commit(r)
      <4>1. SnapshotIsCurrent(r)
        BY <3>2 DEF SerialInv, Fresh, SnapshotIsCurrent
      <4> QED BY <3>2, <4>1, FreshCommit DEF Lawful, R!Next, Rows, R!Rows, R!Roles, Roles
    <3> QED BY <2>2, <3>1, <3>2, OnlyCommitsWrite DEF IInv
  <2> QED BY <2>1, <2>2 DEF Next, AllAnswered, vars
<1> QED BY InitObeysTheRules, Invariant, SerialInvariant, <1>1, PTL
       DEF Spec, ImplementsRules, R!Spec

(* Followed atomically, the rules leave every organization an owner for ever: what
   ChangeMemberRole and RemoveMember check for an owner is enough by itself. *)
THEOREM RulesKeepAnOwner == R!Spec => []R!AlwaysAnOwner
<1>1. R!Init => R!AlwaysAnOwner
  BY DEF R!Init
<1>2. R!AlwaysAnOwner /\ [R!Next]_<<orgs, members>> => R!AlwaysAnOwner'
  <2> SUFFICES ASSUME R!AlwaysAnOwner, [R!Next]_<<orgs, members>>, NEW o \in orgs'
               PROVE  R!HasOwner(members', o)
    BY DEF R!AlwaysAnOwner
  <2> USE DEF R!AlwaysAnOwner, R!HasOwner
  <2>0. ASSUME NEW new \in R!Rows, R!Found(new)
        PROVE  R!HasOwner(members', o)
    BY <2>0 DEF R!Found
  <2>1. ASSUME NEW a \in members, NEW new \in R!Rows, R!Grant(a, new)
        PROVE  R!HasOwner(members', o)
    BY <2>1 DEF R!Grant
  <2>2. ASSUME NEW a \in members, NEW t \in members, NEW role \in R!Roles,
               R!ChangeRole(a, t, role)
        PROVE  R!HasOwner(members', o)
    <3>1. PICK m \in members : m.org = o /\ m.role = "owner" /\ m # t
      BY <2>2 DEF R!ChangeRole
    <3> QED BY <2>2, <3>1 DEF R!ChangeRole
  <2>3. ASSUME NEW a \in members, NEW t \in members, R!Revoke(a, t)
        PROVE  R!HasOwner(members', o)
    BY <2>3 DEF R!Revoke
  <2> QED BY <2>0, <2>1, <2>2, <2>3 DEF R!Next, R!By
<1> QED BY <1>1, <1>2, PTL DEF R!Spec

(* So that, one request at a time, an organization always has an owner. *)
THEOREM SerialRequestsKeepAnOwner == Concurrency = 1 => (Spec => []AlwaysAnOwner)
  BY RulesKeepAnOwner, SerialRequestsImplementRules, PTL DEF ImplementsRules, AlwaysAnOwner

-----------------------------------------------------------------------------
(* What the client is told and what the event says, against what was committed. *)

(* Another request has replaced the role that r read, or holds a row of r's user. *)
Overtaken(r) ==
    \E d \in changes : /\ d.request # r /\ d.from = From(r)
                       /\ d.org = input[r].org /\ d.user = input[r].user

AnswerOK(r) ==
    /\ Committed(r) => pc[r] \in {"record", "done", "lost"} /\ reply[r] \notin ClientErrors
    /\ pc[r] = "record" => Committed(r)
    /\ pc[r] # "done" => reply[r] = "none"
    /\ reply[r] = "OK" =>
         Committed(r) \/ (input[r].kind = "change" /\ target[r].role = input[r].role)

ReadOK(r) ==
    /\ pc[r] \in {"count", "write"} /\ ~Inserts(r) => target[r] \in members \/ Overtaken(r)
    /\ pc[r] = "record" =>
         \E c \in changes : /\ c = Change(r, c.from, To(r))
                            /\ c.from # From(r) => Overtaken(r)

EffectsInv ==
    /\ \A r \in Requests : AnswerOK(r) /\ ReadOK(r)
    /\ EventsReportCommits

(* Changes are never forgotten, and a step adds only those of the request that takes it. *)
LEMMA ChangesAccumulate ==
  ASSUME TypeOK, NEW r \in Requests, Step(r)
  PROVE  /\ changes \subseteq changes'
         /\ changes' = changes \/ (pc[r] = "write" /\ Commit(r))
         /\ \A c \in changes' : c \in changes \/ c.request = r
         /\ \A q \in Requests \ {r} : reply'[q] = reply[q]
<1>1. changes' = changes \/ (pc[r] = "write" /\ Commit(r))
  BY DEF Step, Receive, EnsureSlugIsAvailable, ResolveForManagement, FindUser,
         EnsureIsNotMemberYet, FindMember, EnsureAnotherOwnerRemains, Write, WriteRefused,
         RecordEvent, DatabaseFails, CommitAnswerLost, Crash, table
<1>2. ASSUME Commit(r)
      PROVE  changes \subseteq changes' /\ \A c \in changes' : c \in changes \/ c.request = r
  BY <1>2 DEF Commit, CreateWithOwner, Create, Update, Delete, Change
<1>3. \A q \in Requests \ {r} : reply'[q] = reply[q]
  BY DEF TypeOK, Step, Receive, EnsureSlugIsAvailable, ResolveForManagement, FindUser,
         EnsureIsNotMemberYet, FindMember, EnsureAnotherOwnerRemains, Write, WriteRefused,
         RecordEvent, DatabaseFails, CommitAnswerLost, Crash, Goto, Answer
<1> QED BY <1>1, <1>2, <1>3

(* The write of r leaves a row as it is, or replaces its role and says so. *)
LEMMA CommitTellsWhatItReplaced ==
  ASSUME IInv, NEW r \in Requests, pc[r] = "write", Commit(r), NEW m \in members
  PROVE  \/ m \in members'
         \/ \E d \in changes' : /\ d.request = r /\ d.from = m.role
                                /\ d.org = m.org /\ d.user = m.user
<1>1. CASE Inserts(r)
  BY <1>1 DEF Commit, CreateWithOwner, Create
<1>2. CASE ~Inserts(r) /\ m.id # target[r].id
  <2>1. CASE Update(r)
    <3>1. m = IF m.id = target[r].id THEN [m EXCEPT !.role = input[r].role] ELSE m
      BY <1>2
    <3> QED BY <2>1, <3>1 DEF Update
  <2>2. CASE Delete(r)
    BY <1>2, <2>2 DEF Delete
  <2> QED BY <1>2, <2>1, <2>2 DEF Commit
<1>3. CASE ~Inserts(r) /\ m.id = target[r].id
  <2>1. m.org = input[r].org /\ m.user = input[r].user
    BY <1>3, SameRow
  <2>2. Change(r, m.role, To(r)) \in changes'
    BY <1>3 DEF Commit, Update, Delete
  <2> QED BY <2>1, <2>2 DEF Change
<1> QED BY <1>1, <1>2, <1>3

LEMMA OvertakenStays ==
  ASSUME NEW r \in Requests, changes \subseteq changes', input'[r] = input[r],
         ~Inserts(r) => target'[r] = target[r], Overtaken(r)
  PROVE  Overtaken(r)'
BY DEF Overtaken, From

LEMMA OthersEffectsStay ==
  ASSUME IInv, NEW r \in Requests, Step(r), NEW q \in Requests \ {r}, AnswerOK(q), ReadOK(q)
  PROVE  AnswerOK(q)' /\ ReadOK(q)'
<1>1. /\ TypeOK
      /\ changes \subseteq changes' /\ reply'[q] = reply[q]
      /\ \A c \in changes' : c \in changes \/ c.request = r
      /\ pc'[q] = pc[q] /\ input'[q] = input[q] /\ target'[q] = target[q]
  BY StepsOnlyMove, ChangesAccumulate DEF IInv, OnlyMoves
<1>2. Committed(q)' <=> Committed(q)
  BY <1>1 DEF Committed
<1>3. AnswerOK(q)'
  BY <1>1, <1>2 DEF AnswerOK
<1>4. Overtaken(q) => Overtaken(q)'
  BY <1>1, OvertakenStays
<1>5. ASSUME pc[q] \in {"count", "write"}, ~Inserts(q), target[q] \in members
      PROVE  target'[q] \in members' \/ Overtaken(q)'
  <2>1. CASE UNCHANGED <<orgs, members>>
    BY <1>1, <1>5, <2>1
  <2>2. CASE pc[r] = "write" /\ Commit(r)
    <3>1. target[q].org = input[q].org /\ target[q].user = input[q].user
      BY <1>5 DEF IInv, LocalOK, TargetOK
    <3> QED BY <1>1, <1>5, <2>2, <3>1, CommitTellsWhatItReplaced DEF Overtaken, From
  <2> QED BY <1>1, <2>1, <2>2, OnlyCommitsWrite
<1>6. ReadOK(q)'
  <2>1. pc'[q] \in {"count", "write"} /\ ~Inserts(q)' =>
          target'[q] \in members' \/ Overtaken(q)'
    BY <1>1, <1>4, <1>5 DEF ReadOK
  <2>2. ASSUME pc'[q] = "record"
        PROVE  \E c \in changes' : /\ c = Change(q, c.from, To(q))'
                                   /\ c.from # From(q)' => Overtaken(q)'
    <3>1. PICK c \in changes : /\ c = Change(q, c.from, To(q))
                               /\ c.from # From(q) => Overtaken(q)
      BY <1>1, <2>2 DEF ReadOK
    <3>2. From(q)' = From(q)
      BY <1>1 DEF From
    <3>3. c = Change(q, c.from, To(q))'
      BY <1>1, <3>1 DEF Change, To
    <3> QED BY <1>1, <1>4, <3>1, <3>2, <3>3
  <2> QED BY <2>1, <2>2 DEF ReadOK
<1> QED BY <1>3, <1>6


-----------------------------------------------------------------------------
(* The write of r: what it replaced is what it read, or it was overtaken. *)
LEMMA CommitEffects ==
  ASSUME IInv, NEW r \in Requests, Step(r), pc[r] = "write", Commit(r), ReadOK(r)
  PROVE  \E c \in changes' : /\ c.request = r
                             /\ c = Change(r, c.from, To(r))
                             /\ c.from # From(r) => Overtaken(r)
<1>1. CASE Inserts(r)
  <2>1. Change(r, NoRole, To(r)) \in changes'
    BY <1>1 DEF Commit, CreateWithOwner, Create
  <2> QED BY <1>1, <2>1 DEF From, Change
<1>2. CASE ~Inserts(r)
  <2>1. PICK m \in members : m.id = target[r].id
    BY <1>2 DEF Commit, Accepts
  <2>2. Change(r, m.role, To(r)) \in changes'
    BY <1>2, <2>1 DEF Commit, Update, Delete
  <2>3. m.role # target[r].role => Overtaken(r)
    <3>1. /\ m.org = input[r].org /\ m.user = input[r].user
          /\ target[r].org = input[r].org /\ target[r].user = input[r].user
      BY <1>2, <2>1, SameRow DEF IInv, LocalOK, TargetOK
    <3>2. target[r] \in members => m = target[r]
      BY <2>1, <3>1 DEF IInv, OneMembershipPerUser, R!OneMembershipPerUser
    <3> QED BY <1>2, <3>2 DEF ReadOK
  <2> QED BY <1>2, <2>2, <2>3 DEF From, Change
<1> QED BY <1>1, <1>2

LEMMA CommitKeepsEffects ==
  ASSUME IInv, NEW r \in Requests, Write(r) \/ CommitAnswerLost(r), AnswerOK(r), ReadOK(r)
  PROVE  AnswerOK(r)' /\ ReadOK(r)'
<1>1. /\ pc[r] = "write" /\ Commit(r) /\ TypeOK /\ Step(r)
      /\ input' = input /\ target' = target /\ reply[r] = "none"
      /\ changes \subseteq changes'
      /\ \/ pc'[r] = "record" /\ reply'[r] = "none"
         \/ pc'[r] = "done" /\ reply'[r] = "INTERNAL_ERROR"
  <2>1. pc[r] = "write" /\ Commit(r) /\ TypeOK /\ Step(r)
    BY DEF Write, CommitAnswerLost, IInv, Step
  <2>2. /\ input' = input /\ target' = target /\ reply[r] = "none"
        /\ \/ pc'[r] = "record" /\ reply'[r] = "none"
           \/ pc'[r] = "done" /\ reply'[r] = "INTERNAL_ERROR"
    BY <2>1 DEF Write, CommitAnswerLost, AnswerOK, TypeOK, Goto, Answer, snapshots
  <2> QED BY <2>1, <2>2, ChangesAccumulate
<1>2. PICK c \in changes' : /\ c.request = r
                            /\ c = Change(r, c.from, To(r))
                            /\ c.from # From(r) => Overtaken(r)
  BY <1>1, CommitEffects
<1>3. Committed(r)'
  BY <1>2 DEF Committed
<1>4. AnswerOK(r)'
  BY <1>1, <1>3 DEF AnswerOK, ClientErrors
<1>5. /\ c = Change(r, c.from, To(r))'
      /\ c.from # From(r)' => Overtaken(r)'
  <2>1. From(r)' = From(r) /\ (Overtaken(r) => Overtaken(r)')
    BY <1>1, OvertakenStays DEF From
  <2> QED BY <1>1, <1>2, <2>1 DEF Change, To
<1>6. ReadOK(r)'
  BY <1>1, <1>5 DEF ReadOK
<1> QED BY <1>4, <1>6

(* Every other step of r but the record of its event stands before the write or answers. *)
LEMMA QuietStepKeepsEffects ==
  ASSUME IInv, NEW r \in Requests, Step(r), ~Write(r), ~CommitAnswerLost(r), ~RecordEvent(r),
         AnswerOK(r), ReadOK(r)
  PROVE  AnswerOK(r)' /\ ReadOK(r)' /\ UNCHANGED <<members, changes, events>>
<1>0. TypeOK /\ LocalOK(r) /\ pc \in [Requests -> PcValues] /\ reply \in [Requests -> Replies]
  BY DEF IInv, TypeOK
<1>1. UNCHANGED <<members, changes, events>>
  BY DEF Step, Receive, EnsureSlugIsAvailable, ResolveForManagement, FindUser,
         EnsureIsNotMemberYet, FindMember, EnsureAnotherOwnerRemains, WriteRefused,
         DatabaseFails, Crash, table
<1>2. Committed(r)' <=> Committed(r)
  BY <1>1 DEF Committed
<1> USE DEF Goto, Answer, snapshots, Deciding, ClientErrors
<1>3. ASSUME NEW in \in Inputs, Receive(r, in) PROVE AnswerOK(r)' /\ ReadOK(r)'
  <2>1. /\ pc[r] = "idle"
        /\ \/ pc'[r] \in {"slug", "access"} /\ reply'[r] = reply[r]
           \/ pc'[r] = "done" /\ reply'[r] \in ClientErrors
    BY <1>0, <1>3 DEF Receive
  <2> QED BY <1>1, <1>2, <2>1 DEF AnswerOK, ReadOK
<1>4. CASE ResolveForManagement(r)
  <2>1. /\ pc[r] = "access"
        /\ \/ pc'[r] \in {"user", "target"} /\ reply'[r] = reply[r]
           \/ pc'[r] = "done" /\ reply'[r] \in ClientErrors
    BY <1>0, <1>4 DEF ResolveForManagement
  <2> QED BY <1>1, <1>2, <2>1 DEF AnswerOK, ReadOK
<1>5. CASE EnsureSlugIsAvailable(r) \/ FindUser(r) \/ EnsureIsNotMemberYet(r)
  <2>1. /\ pc[r] \in {"slug", "user", "existing"} /\ input'[r] = input[r]
        /\ \/ pc'[r] \in {"existing", "write"} /\ reply'[r] = reply[r]
           \/ pc'[r] = "done" /\ reply'[r] \in ClientErrors
    BY <1>0, <1>5 DEF EnsureSlugIsAvailable, FindUser, EnsureIsNotMemberYet
  <2>2. Inserts(r)
    BY <1>0, <2>1 DEF LocalOK
  <2> QED BY <1>1, <1>2, <2>1, <2>2 DEF AnswerOK, ReadOK
<1>6. CASE FindMember(r)
  <2> DEFINE t == FindByOrganizationAndUser(input[r].org, input[r].user)
  <2>1. t # Null => t \in members
    BY <1>0, FindsWhatIsThere
  <2> HIDE DEF t
  <2>2. target'[r] = t /\ input' = input /\ pc[r] = "target"
    BY <1>0, <1>6 DEF FindMember, t, TypeOK
  <2>3. /\ pc'[r] \in {"count", "write", "done"}
        /\ pc'[r] # "done" => t # Null /\ reply'[r] = reply[r]
        /\ pc'[r] = "done" =>
             \/ reply'[r] \in ClientErrors
             \/ reply'[r] = "OK" /\ input[r].kind = "change" /\ input[r].role = t.role
    BY <1>0, <1>6 DEF FindMember, t
  <2>4. AnswerOK(r)'
    BY <1>2, <2>2, <2>3 DEF AnswerOK
  <2>5. ReadOK(r)'
    BY <1>1, <2>1, <2>2, <2>3 DEF ReadOK
  <2> QED BY <1>1, <2>4, <2>5
<1>7. CASE EnsureAnotherOwnerRemains(r)
  <2>1. target' = target /\ input' = input /\ (Overtaken(r) => Overtaken(r)')
    BY <1>1, <1>7, OvertakenStays DEF EnsureAnotherOwnerRemains
  <2>2. /\ pc[r] = "count"
        /\ \/ pc'[r] = "write" /\ reply'[r] = reply[r]
           \/ pc'[r] = "done" /\ reply'[r] \in ClientErrors
    BY <1>0, <1>7 DEF EnsureAnotherOwnerRemains
  <2>3. AnswerOK(r)'
    BY <1>2, <2>2 DEF AnswerOK
  <2>4. ReadOK(r)'
    BY <1>1, <2>1, <2>2 DEF ReadOK
  <2> QED BY <1>1, <2>3, <2>4
<1>8. CASE WriteRefused(r) \/ DatabaseFails(r)
  <2>1. /\ pc[r] \in Deciding \cup {"write"}
        /\ pc'[r] = "done" /\ reply'[r] = "INTERNAL_ERROR"
    BY <1>0, <1>8 DEF WriteRefused, DatabaseFails
  <2> QED BY <1>1, <1>2, <2>1 DEF AnswerOK, ReadOK
<1>9. CASE Crash(r)
  <2>1. pc'[r] = "lost" /\ reply'[r] = reply[r] /\ pc[r] # "done"
    BY <1>0, <1>9 DEF Crash, InProgress
  <2> QED BY <1>1, <1>2, <2>1 DEF AnswerOK, ReadOK
<1> QED BY <1>1, <1>3, <1>4, <1>5, <1>6, <1>7, <1>8, <1>9 DEF Step

LEMMA EventsStayTrue ==
  ASSUME EventsReportCommits, changes \subseteq changes', events' \subseteq events
  PROVE  EventsReportCommits'
BY DEF EventsReportCommits

(* The event of r is about its commit. *)
LEMMA RecordKeepsEffects ==
  ASSUME IInv, NEW r \in Requests, RecordEvent(r), AnswerOK(r), ReadOK(r), EventsReportCommits
  PROVE  AnswerOK(r)' /\ ReadOK(r)' /\ EventsReportCommits'
<1>0. /\ pc \in [Requests -> PcValues] /\ reply \in [Requests -> Replies]
      /\ UNCHANGED <<changes, input, target>>
      /\ pc[r] = "record" /\ pc'[r] = "done" /\ reply'[r] = "OK"
  BY DEF IInv, TypeOK, RecordEvent, Answer, table, snapshots
<1>1. Committed(r)' /\ AnswerOK(r)' /\ ReadOK(r)'
  BY <1>0 DEF AnswerOK, ReadOK, Committed, ClientErrors
<1>2. PICK c \in changes : /\ c = Change(r, c.from, To(r))
                           /\ c.from # From(r) => Overtaken(r)
  BY <1>0 DEF ReadOK
<1>3. ASSUME NEW e \in events', e \notin events
      PROVE  \E b \in changes' :
                /\ b = [e EXCEPT !.from = b.from]
                /\ b.from # e.from =>
                     \E d \in changes' : /\ d.request # e.request /\ d.from = e.from
                                         /\ d.org = e.org /\ d.user = e.user
  <2>1. e = Change(r, From(r), To(r))
    BY <1>3 DEF RecordEvent
  <2>2. /\ c = [e EXCEPT !.from = c.from]
        /\ e.request = r /\ e.from = From(r) /\ e.org = input[r].org /\ e.user = input[r].user
    BY <1>2, <2>1 DEF Change
  <2> QED BY <1>0, <1>2, <2>2 DEF Overtaken
<1>4. EventsReportCommits'
  BY <1>0, <1>3 DEF EventsReportCommits
<1> QED BY <1>1, <1>4

LEMMA EffectsInvariant == Spec => []EffectsInv
<1>1. Init => EffectsInv
  BY DEF Init, EffectsInv, AnswerOK, ReadOK, Committed, EventsReportCommits, ClientErrors
<1>2. IInv /\ EffectsInv /\ [Next]_vars => EffectsInv'
  <2> SUFFICES ASSUME IInv, EffectsInv, [Next]_vars PROVE EffectsInv'
    OBVIOUS
  <2>1. CASE UNCHANGED vars
    BY <2>1 DEF vars, EffectsInv, AnswerOK, ReadOK, Committed, Overtaken, From, Change, To,
                EventsReportCommits
  <2>2. ASSUME NEW r \in Requests, Step(r) PROVE EffectsInv'
    <3>1. TypeOK /\ AnswerOK(r) /\ ReadOK(r) /\ EventsReportCommits
      BY DEF IInv, EffectsInv
    <3>2. AnswerOK(r)' /\ ReadOK(r)' /\ EventsReportCommits'
      <4>1. CASE Write(r) \/ CommitAnswerLost(r)
        <5>1. changes \subseteq changes' /\ events' = events
          BY <2>2, <3>1, <4>1, ChangesAccumulate DEF Write, CommitAnswerLost
        <5> QED BY <3>1, <4>1, <5>1, CommitKeepsEffects, EventsStayTrue
      <4>2. CASE RecordEvent(r)
        BY <3>1, <4>2, RecordKeepsEffects
      <4>3. CASE ~Write(r) /\ ~CommitAnswerLost(r) /\ ~RecordEvent(r)
        BY <2>2, <3>1, <4>3, QuietStepKeepsEffects, EventsStayTrue
      <4> QED BY <4>1, <4>2, <4>3
    <3>3. \A q \in Requests \ {r} : AnswerOK(q)' /\ ReadOK(q)'
      BY <2>2, OthersEffectsStay DEF EffectsInv
    <3> QED BY <3>2, <3>3 DEF EffectsInv
  <2> QED BY <2>1, <2>2 DEF Next, AllAnswered
<1> QED BY <1>1, <1>2, Invariant, PTL DEF Spec

(* A client who reads a 4xx has changed nothing; one who reads a 2xx has, or had nothing to
   change: whatever other requests did, and whatever failed, in between. *)
THEOREM AnswersAreTrue == Spec => []AnswersMatchEffects
<1>1. EffectsInv => AnswersMatchEffects
  BY DEF EffectsInv, AnswerOK, AnswersMatchEffects
<1> QED BY EffectsInvariant, <1>1, PTL

(* No event is about a change that was not made, and a role it tells wrongly is one that
   somebody else replaced while the request was under way. *)
THEOREM EventsAreTrue == Spec => []EventsReportCommits
BY EffectsInvariant, PTL DEF EffectsInv
=============================================================================

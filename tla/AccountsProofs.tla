-------------------------- MODULE AccountsProofs ---------------------------
(***************************************************************************)
(* Proofs about Accounts.tla, for any addresses, passwords and requests.      *)
(***************************************************************************)
EXTENDS Accounts, TLAPS

USE AccountAssumption

CredentialsOf(u) == <<Address(u.email), u.password>>

(* A row is the work of the registration it is named after. *)
RowOK(u) ==
    /\ u.email = Normalize(u.email)
    /\ pc[u.id] \in {"record", "done", "lost"}
    /\ reply[u.id] \in {"none", "OK", "INTERNAL_ERROR"}
    /\ input[u.id].kind = "register"
    /\ Credentials(input[u.id]) = CredentialsOf(u)

(* Nothing is asked before it is received.  A login that found a row found the row of its
   address; one that is past verify was right about the password; one that had to be right
   will be. *)
RequestOK(r) ==
    /\ pc[r] = "idle" => input[r] = Null
    /\ pc[r] # "done" => reply[r] = "none"
    /\ user[r] # Null =>
         /\ user[r] \in users /\ pc[r] # "idle"
         /\ user[r].email = Normalize(input[r].email)
    /\ pc[r] = "record" /\ input[r].kind = "register" =>
         \E u \in users : Credentials(input[r]) = CredentialsOf(u)
    /\ (pc[r] = "record" \/ reply[r] = "OK") /\ input[r].kind = "login" => PasswordIsValid(r)
    /\ r \in known =>
         /\ pc[r] # "idle" /\ input[r].kind = "login"
         /\ Credentials(input[r]) \in announced
         /\ pc[r] = "verify" => PasswordIsValid(r)
         /\ reply[r] # "UNAUTHORIZED"

IInv ==
    /\ TypeOK
    /\ OneAccountPerAddress
    /\ \A u \in users : RowOK(u)
    /\ \A r \in Requests : RequestOK(r)
    /\ \A c \in announced : \E u \in users : c = CredentialsOf(u)

-----------------------------------------------------------------------------
LEMMA NormalIsASpelling ==
  ASSUME NEW s \in Spellings
  PROVE  /\ Normalize(s) \in Spellings /\ Address(s) \in Addresses
         /\ Address(Normalize(s)) = Address(s)
         /\ \A t \in Spellings : Address(t) = Address(s) => Normalize(t) = Normalize(s)
BY DEF Normalize, Spellings, Address

LEMMA Typed ==
  ASSUME IInv, [Next]_vars
  PROVE  TypeOK'
<1> USE DEF IInv, TypeOK, PcValues, Replies, Goto, Answer
<1>1. ASSUME NEW r \in Requests, NEW in \in Inputs, Receive(r, in) PROVE TypeOK'
  BY <1>1 DEF Receive
<1>2. ASSUME NEW r \in Requests, EnsureEmailIsAvailable(r) PROVE TypeOK'
  BY <1>2 DEF EnsureEmailIsAvailable
<1>3. ASSUME NEW r \in Requests, Insert(r) PROVE users' \subseteq Rows
  <2>1. input[r].email \in Spellings /\ input[r].password \in Passwords
    BY <1>3 DEF Insert, WellFormed, Inputs
  <2> QED BY <1>3, <2>1, NormalIsASpelling DEF Insert, Rows
<1>4. ASSUME NEW r \in Requests, Create(r) \/ CommitAnswerLost(r) PROVE TypeOK'
  BY <1>3, <1>4 DEF Create, CommitAnswerLost, Insert
<1>5. ASSUME NEW r \in Requests, CreateRefused(r) \/ DatabaseFails(r) \/ Crash(r) PROVE TypeOK'
  BY <1>5 DEF CreateRefused, DatabaseFails, Crash
<1>6. ASSUME NEW r \in Requests, FindUser(r) PROVE TypeOK'
  <2>1. FindByEmail(Normalize(input[r].email)) \in Rows \cup {Null}
    BY DEF FindByEmail
  <2> QED BY <1>6, <2>1 DEF FindUser
<1>7. ASSUME NEW r \in Requests, Verify(r) PROVE TypeOK'
  BY <1>7 DEF Verify
<1>8. ASSUME NEW r \in Requests, RecordEvent(r) PROVE TypeOK'
  <2>1. Credentials(input[r]) \in Addresses \X Passwords
    <3>1. input[r].email \in Spellings /\ input[r].password \in Passwords
      BY <1>8 DEF RecordEvent, WellFormed, Inputs
    <3> QED BY <3>1, NormalIsASpelling DEF Credentials
  <2> QED BY <1>8, <2>1 DEF RecordEvent
<1>9. CASE UNCHANGED vars
  BY <1>9 DEF vars
<1> QED BY <1>1, <1>2, <1>4, <1>5, <1>6, <1>7, <1>8, <1>9 DEF Next, Step, AllAnswered

-----------------------------------------------------------------------------
(* What a request holds is not disturbed by what others add. *)
LEMMA RequestsStay ==
  ASSUME IInv, NEW r \in Requests,
         pc'[r] = pc[r], input'[r] = input[r], user'[r] = user[r], reply'[r] = reply[r],
         users \subseteq users', announced \subseteq announced', r \in known' => r \in known
  PROVE  RequestOK(r)'
BY DEF IInv, RequestOK, PasswordIsValid, CredentialsOf

LEMMA RowsStay ==
  ASSUME IInv, NEW u \in users,
         pc'[u.id] = pc[u.id] \/ pc'[u.id] \in {"record", "done", "lost"},
         input'[u.id] = input[u.id],
         reply'[u.id] = reply[u.id] \/ reply'[u.id] \in {"none", "OK", "INTERNAL_ERROR"}
  PROVE  RowOK(u)'
BY DEF IInv, RowOK, CredentialsOf

LEMMA RowsHaveRequests == IInv => \A u \in users : u.id \in Requests /\ u.email \in Spellings
BY DEF IInv, TypeOK, Rows

(* A step of r moves no other request, and writes no row. *)
OnlyMoves(r) ==
    /\ users' = users
    /\ announced \subseteq announced'
    /\ \A c \in announced' \ announced : \E u \in users : c = CredentialsOf(u)
    /\ \A q \in Requests \ {r} : /\ pc'[q] = pc[q] /\ input'[q] = input[q]
                                 /\ user'[q] = user[q] /\ reply'[q] = reply[q]
                                 /\ q \in known' => q \in known

LEMMA OthersStay ==
  ASSUME IInv, [Next]_vars, NEW r \in Requests, OnlyMoves(r), RequestOK(r)',
         \A u \in users : u.id = r => RowOK(u)'
  PROVE  IInv'
<1> USE DEF OnlyMoves
<1>1. TypeOK'
  BY Typed
<1>2. announced \subseteq announced'
  OBVIOUS
<1>3. \A q \in Requests : RequestOK(q)'
  <2>1. \A q \in Requests \ {r} : RequestOK(q)'
    BY <1>2, RequestsStay
  <2> QED BY <2>1
<1>4. \A u \in users' : RowOK(u)'
  <2>1. ASSUME NEW u \in users, u.id # r PROVE RowOK(u)'
    <3>1. u.id \in Requests \ {r}
      BY <2>1, RowsHaveRequests
    <3>2. pc'[u.id] = pc[u.id] /\ input'[u.id] = input[u.id] /\ reply'[u.id] = reply[u.id]
      BY <3>1
    <3> QED BY <3>2, RowsStay
  <2> QED BY <2>1
<1>5. OneAccountPerAddress'
  BY DEF IInv, OneAccountPerAddress
<1>6. \A c \in announced' : \E u \in users' : c = CredentialsOf(u)
  BY DEF IInv
<1>7. \A c \in announced' : \E u \in users' : c = CredentialsOf(u)'
  BY <1>6 DEF CredentialsOf
<1> QED BY <1>1, <1>3, <1>4, <1>5, <1>7 DEF IInv

LEMMA ReceiveKeepsIInv ==
  ASSUME IInv, [Next]_vars, NEW r \in Requests, NEW in \in Inputs, Receive(r, in)
  PROVE  IInv'
<1> USE DEF Receive, Goto, Answer
<1>1. \A u \in users : u.id # r
  BY DEF IInv, RowOK
<1>2. user[r] = Null /\ reply[r] = "none" /\ r \notin known
  BY DEF IInv, RequestOK
<1>3. pc' \in [Requests -> PcValues] /\ reply' \in [Requests -> Replies]
      /\ user' = user /\ input' \in [Requests -> Inputs \cup {Null}]
  BY Typed DEF TypeOK
<1>4. /\ input'[r] = in /\ pc'[r] \in {"find", "done"} /\ user'[r] = Null
      /\ pc'[r] = "done" => reply'[r] \in {"UNAUTHORIZED", "VALIDATION_ERROR"} /\ r \notin known'
      /\ pc'[r] = "find" => reply'[r] = "none"
      /\ r \in known' => in.kind = "login" /\ Credentials(in) \in announced'
  BY <1>2 DEF IInv, TypeOK
<1>5. RequestOK(r)'
  BY <1>2, <1>4 DEF RequestOK, PasswordIsValid
<1>6. OnlyMoves(r)
  BY DEF IInv, TypeOK, OnlyMoves
<1> QED BY <1>1, <1>5, <1>6, OthersStay

(* Steps that end a request without a login that succeeds, or take it on unnoticed. *)
LEMMA MovingKeepsIInv ==
  ASSUME IInv, [Next]_vars, NEW r \in Requests,
         \/ EnsureEmailIsAvailable(r) \/ CreateRefused(r) \/ DatabaseFails(r) \/ Crash(r)
  PROVE  IInv'
<1> USE DEF EnsureEmailIsAvailable, CreateRefused, DatabaseFails, Crash, Goto, Answer
<1>1. /\ users' = users /\ announced' = announced /\ known' = known
      /\ input' = input /\ user' = user
  OBVIOUS
<1>2. /\ pc'[r] \in {"write", "done", "lost"} /\ pc[r] \in {"find", "write", "verify", "record"}
      /\ pc'[r] = "done" => reply'[r] \in {"CONFLICT", "INTERNAL_ERROR"}
      /\ pc'[r] # "done" => reply'[r] = reply[r]
  BY DEF IInv, TypeOK
<1>3. RequestOK(r)'
  BY <1>1, <1>2 DEF IInv, RequestOK, PasswordIsValid
<1>4. ASSUME NEW u \in users, u.id = r PROVE RowOK(u)'
  <2>1. pc[r] = "record" /\ reply[r] = "none"
    BY <1>2, <1>4 DEF IInv, RowOK, RequestOK
  <2>2. pc'[r] = "lost" /\ reply'[r] = "none"
    BY <2>1, <1>2 DEF IInv, TypeOK
  <2> QED BY <1>1, <1>4, <2>2, RowsStay
<1>5. OnlyMoves(r)
  BY <1>1 DEF IInv, TypeOK, OnlyMoves
<1> QED BY <1>3, <1>4, <1>5, OthersStay

LEMMA InsertKeepsIInv ==
  ASSUME IInv, [Next]_vars, NEW r \in Requests, Create(r) \/ CommitAnswerLost(r)
  PROVE  IInv'
<1> USE DEF Create, CommitAnswerLost, Insert, Goto, Answer
<1> DEFINE row == [id |-> r, email |-> Normalize(input[r].email), password |-> input[r].password]
<1>1. /\ users' = users \cup {row} /\ announced' = announced /\ known' = known
      /\ input' = input /\ user' = user
  OBVIOUS
<1>2. /\ pc[r] = "write" /\ pc'[r] \in {"record", "done"}
      /\ reply'[r] \in {"none", "INTERNAL_ERROR"}
      /\ pc'[r] # "done" => reply'[r] = "none"
  BY DEF IInv, TypeOK, RequestOK
<1>3. /\ input[r].kind = "register" /\ input[r].email \in Spellings
      /\ input[r].password \in Passwords /\ r \notin known
  BY <1>2 DEF IInv, TypeOK, WellFormed, Inputs, RequestOK
<1>4. /\ Normalize(row.email) = row.email /\ CredentialsOf(row) = Credentials(input[r])
      /\ row.id = r /\ row' = row
  BY <1>1, <1>3 DEF CredentialsOf, Credentials, Normalize, Address, Spellings
<1>5. \A u \in users : u.id # r
  BY <1>2 DEF IInv, RowOK
<1>6. \A q \in Requests \ {r} : pc'[q] = pc[q] /\ reply'[q] = reply[q]
  BY DEF IInv, TypeOK
<1>7. \A u \in users' : RowOK(u)'
  <2>1. \A u \in users : RowOK(u)'
    BY <1>1, <1>5, <1>6, RowsStay, RowsHaveRequests
  <2>2. RowOK(row)'
    <3> HIDE DEF row
    <3>1. /\ pc'[row.id] \in {"record", "done", "lost"} /\ input'[row.id] = input[r]
          /\ reply'[row.id] \in {"none", "OK", "INTERNAL_ERROR"}
      BY <1>1, <1>2, <1>4
    <3> QED BY <3>1, <1>3, <1>4 DEF RowOK, CredentialsOf
  <2> QED BY <1>1, <2>1, <2>2
<1>8. OneAccountPerAddress'
  <2>1. \A u \in users : Address(u.email) # Address(row.email)
    <3> SUFFICES ASSUME NEW u \in users, Address(u.email) = Address(row.email) PROVE FALSE
      OBVIOUS
    <3>1. u.email \in Spellings /\ row.email \in Spellings /\ u.email = Normalize(u.email)
      BY <1>3, RowsHaveRequests, NormalIsASpelling DEF IInv, RowOK
    <3>2. u.email = row.email
      BY <3>1, <1>4, NormalIsASpelling
    <3> QED BY <3>2 DEF Accepts
  <2> QED BY <1>1, <2>1 DEF IInv, OneAccountPerAddress
<1>9. \A q \in Requests : RequestOK(q)'
  <2>1. RequestOK(r)'
    <3> HIDE DEF row
    <3>1. /\ pc'[r] # "idle"
          /\ pc'[r] # "done" => reply'[r] = "none"
          /\ user'[r] # Null =>
               /\ user'[r] \in users' /\ pc'[r] # "idle"
               /\ user'[r].email = Normalize(input'[r].email)
      BY <1>1, <1>2 DEF IInv, RequestOK
    <3>2. \E u \in users' : Credentials(input'[r]) = CredentialsOf(u)
      BY <1>1, <1>4
    <3>3. input'[r].kind # "login" /\ r \notin known'
      BY <1>1, <1>3
    <3> QED BY <3>1, <3>2, <3>3 DEF RequestOK, CredentialsOf
  <2>2. \A q \in Requests \ {r} : RequestOK(q)'
    BY <1>1, <1>6, RequestsStay
  <2> QED BY <2>1, <2>2
<1>10. \A c \in announced' : \E u \in users' : c = CredentialsOf(u)'
  BY <1>1 DEF IInv, CredentialsOf
<1> QED BY <1>7, <1>8, <1>9, <1>10, Typed DEF IInv

LEMMA FindUserKeepsIInv ==
  ASSUME IInv, [Next]_vars, NEW r \in Requests, FindUser(r)
  PROVE  IInv'
<1> USE DEF FindUser, Goto
<1> DEFINE found == FindByEmail(Normalize(input[r].email))
<1>1. /\ users' = users /\ announced' = announced /\ known' = known /\ input' = input
      /\ reply' = reply /\ user'[r] = found /\ pc'[r] = "verify" /\ pc[r] = "find"
      /\ input[r].kind = "login" /\ input[r].email \in Spellings
  BY DEF IInv, TypeOK, WellFormed, Inputs
<1>2. found # Null => found \in users /\ found.email = Normalize(input[r].email)
  BY DEF FindByEmail
<1>3. ASSUME r \in known PROVE found # Null /\ found.password = input[r].password
  <2>1. PICK u \in users : Credentials(input[r]) = CredentialsOf(u)
    BY <1>3 DEF IInv, RequestOK
  <2>2. Address(u.email) = Address(input[r].email) /\ u.password = input[r].password
    BY <2>1 DEF Credentials, CredentialsOf
  <2>3. u.email = Normalize(input[r].email)
    BY <1>1, <2>2, RowsHaveRequests, NormalIsASpelling DEF IInv, RowOK
  <2>4. found \in users /\ found.email = u.email
    BY <2>3 DEF FindByEmail
  <2>5. found = u
    BY <2>4 DEF IInv, OneAccountPerAddress
  <2>6. Null \notin users
    BY DEF IInv, TypeOK
  <2> QED BY <2>2, <2>4, <2>5, <2>6
<1>4. RequestOK(r)'
  BY <1>1, <1>2, <1>3 DEF IInv, RequestOK, PasswordIsValid
<1>5. \A u \in users : u.id # r
  BY <1>1 DEF IInv, RowOK
<1>6. OnlyMoves(r)
  BY <1>1 DEF IInv, TypeOK, OnlyMoves
<1> QED BY <1>4, <1>5, <1>6, OthersStay

LEMMA VerifyKeepsIInv ==
  ASSUME IInv, [Next]_vars, NEW r \in Requests, Verify(r)
  PROVE  IInv'
<1> USE DEF Verify, Goto, Answer
<1>1. /\ users' = users /\ announced' = announced /\ known' = known /\ input' = input
      /\ user' = user /\ pc[r] = "verify" /\ input[r].kind = "login"
  BY DEF IInv, TypeOK
<1>2. \/ PasswordIsValid(r) /\ pc'[r] = "record" /\ reply'[r] = reply[r]
      \/ ~PasswordIsValid(r) /\ pc'[r] = "done" /\ reply'[r] = "UNAUTHORIZED"
  BY DEF IInv, TypeOK
<1>3. RequestOK(r)'
  BY <1>1, <1>2 DEF IInv, RequestOK, PasswordIsValid
<1>4. \A u \in users : u.id # r
  BY <1>1 DEF IInv, RowOK
<1>5. OnlyMoves(r)
  BY <1>1 DEF IInv, TypeOK, OnlyMoves
<1> QED BY <1>3, <1>4, <1>5, OthersStay

LEMMA RecordEventKeepsIInv ==
  ASSUME IInv, [Next]_vars, NEW r \in Requests, RecordEvent(r)
  PROVE  IInv'
<1> USE DEF RecordEvent
<1>1. /\ users' = users /\ known' = known /\ input' = input /\ user' = user
      /\ pc[r] = "record" /\ pc'[r] = "done" /\ reply'[r] = "OK"
      /\ announced \subseteq announced'
  BY DEF IInv, TypeOK
<1>2. RequestOK(r)'
  BY <1>1 DEF IInv, RequestOK, PasswordIsValid
<1>3. \A u \in users : u.id = r => RowOK(u)'
  BY <1>1, RowsStay
<1>4. OnlyMoves(r)
  BY <1>1 DEF IInv, TypeOK, RequestOK, OnlyMoves
<1> QED BY <1>2, <1>3, <1>4, OthersStay

-----------------------------------------------------------------------------
LEMMA InitIInv == Init => IInv
BY DEF Init, IInv, TypeOK, OneAccountPerAddress, RequestOK, PcValues, Replies

LEMMA StutterKeepsIInv == IInv /\ UNCHANGED vars => IInv'
BY DEF IInv, TypeOK, OneAccountPerAddress, RowOK, RequestOK, PasswordIsValid, CredentialsOf,
       WellFormed, vars

LEMMA NextKeepsIInv == IInv /\ [Next]_vars => IInv'
<1> SUFFICES ASSUME IInv, [Next]_vars PROVE IInv'
  OBVIOUS
<1>1. CASE UNCHANGED vars
  BY <1>1, StutterKeepsIInv
<1>2. ASSUME NEW r \in Requests, Step(r) PROVE IInv'
  BY <1>2, ReceiveKeepsIInv, MovingKeepsIInv, InsertKeepsIInv, FindUserKeepsIInv,
     VerifyKeepsIInv, RecordEventKeepsIInv DEF Step
<1> QED BY <1>1, <1>2 DEF Next, AllAnswered

(* The invariant behind what is proved of accounts: every row of the users table, and
   every answer, goes back to one registration. *)
THEOREM Invariant == Spec => []IInv
BY InitIInv, NextKeepsIInv, PTL DEF Spec

(* The types of every variable, whatever the requests and faults. *)
THEOREM TypeCorrect == Spec => []TypeOK
BY Invariant, PTL DEF IInv

(* One address, one account: Accounts!OneAccountPerAddress. *)
THEOREM OneAccountEach == Spec => []OneAccountPerAddress
<1>1. IInv => OneAccountPerAddress
  BY DEF IInv
<1> QED BY <1>1, Invariant, PTL

(* Losing a race for an address opens nothing: Accounts!OnlyTheWinnerLogsIn. *)
THEOREM LosersStayOut == Spec => []OnlyTheWinnerLogsIn
<1>1. ASSUME IInv PROVE OnlyTheWinnerLogsIn
  <2> SUFFICES ASSUME NEW r \in Requests, reply[r] = "OK", input[r].kind = "login"
               PROVE  \E u \in users :
                        /\ Credentials(input[r]) = <<Address(u.email), u.password>>
                        /\ input[u.id].kind = "register"
                        /\ Credentials(input[u.id]) = Credentials(input[r])
                        /\ reply[u.id] \in {"none", "OK", "INTERNAL_ERROR"}
    BY DEF OnlyTheWinnerLogsIn
  <2>1. /\ user[r] \in users /\ user[r].password = input[r].password
        /\ user[r].email = Normalize(input[r].email)
    BY <1>1 DEF IInv, RequestOK, PasswordIsValid
  <2>2. Address(user[r].email) = Address(input[r].email)
    BY <2>1 DEF Normalize, Address
  <2>3. Credentials(input[r]) = CredentialsOf(user[r])
    BY <2>1, <2>2 DEF Credentials, CredentialsOf
  <2>4. RowOK(user[r])
    BY <1>1, <2>1 DEF IInv
  <2> QED BY <2>1, <2>3, <2>4 DEF RowOK, CredentialsOf
<1> QED BY <1>1, Invariant, PTL

(* A 201 is good for every login that comes after it: Accounts!RegisteredCanLogIn. *)
THEOREM RegistrationsHold == Spec => []RegisteredCanLogIn
<1>1. IInv => RegisteredCanLogIn
  BY DEF IInv, TypeOK, RequestOK, RegisteredCanLogIn
<1> QED BY <1>1, Invariant, PTL
-----------------------------------------------------------------------------
(* The abstract state AccountRules is instantiated with. *)
Accounted == {<<Address(u.email), u.password>> : u \in users}
AskedOf == [r \in Requests |-> Asked(r)]
VerdictOf == [r \in Requests |-> Verdict(r)]
Told(r) == IF pc[r] = "lost" THEN "lost" ELSE reply[r]
ReplyOf == [r \in Requests |-> IF pc[r] = "lost" THEN "lost" ELSE reply[r]]

(* What a step of r does to the abstract state is seen at r and in the accounts. *)
LEMMA OthersLookTheSame ==
  ASSUME NEW r \in Requests,
         \A q \in Requests \ {r} : /\ pc'[q] = pc[q] /\ input'[q] = input[q]
                                   /\ user'[q] = user[q] /\ reply'[q] = reply[q]
  PROVE  /\ AskedOf' = [AskedOf EXCEPT ![r] = Asked(r)']
         /\ VerdictOf' = [VerdictOf EXCEPT ![r] = Verdict(r)']
         /\ ReplyOf' = [ReplyOf EXCEPT ![r] = Told(r)']
<1>1. \A q \in Requests \ {r} :
        Asked(q)' = Asked(q) /\ Verdict(q)' = Verdict(q) /\ Told(q)' = Told(q)
  BY DEF Asked, Verdict, Told, PasswordIsValid
<1>2. AskedOf' = [AskedOf EXCEPT ![r] = Asked(r)']
  BY <1>1 DEF AskedOf
<1>3. VerdictOf' = [VerdictOf EXCEPT ![r] = Verdict(r)']
  BY <1>1 DEF VerdictOf
<1>4. ReplyOf' = [ReplyOf EXCEPT ![r] = Told(r)']
  BY <1>1 DEF ReplyOf, Told
<1> QED BY <1>2, <1>3, <1>4

LEMMA LooksUnmoved ==
  ASSUME NEW r \in Requests,
         \A q \in Requests \ {r} : /\ pc'[q] = pc[q] /\ input'[q] = input[q]
                                   /\ user'[q] = user[q] /\ reply'[q] = reply[q],
         users' = users, Asked(r)' = Asked(r), Verdict(r)' = Verdict(r), Told(r)' = Told(r)
  PROVE  UNCHANGED A!vars
<1> DEFINE Same(f, x) == [f EXCEPT ![r] = x]
<1>1. /\ AskedOf = Same(AskedOf, Asked(r)) /\ VerdictOf = Same(VerdictOf, Verdict(r))
      /\ ReplyOf = Same(ReplyOf, Told(r))
  BY DEF AskedOf, VerdictOf, ReplyOf, Told
<1>2. /\ AskedOf' = Same(AskedOf, Asked(r)') /\ VerdictOf' = Same(VerdictOf, Verdict(r)')
      /\ ReplyOf' = Same(ReplyOf, Told(r)')
  BY OthersLookTheSame
<1>3. AskedOf' = AskedOf /\ VerdictOf' = VerdictOf /\ ReplyOf' = ReplyOf
  BY <1>1, <1>2
<1> QED BY <1>3 DEF A!vars, AskedOf, VerdictOf, ReplyOf

(* A request under way asks about the credentials it came with. *)
LEMMA UnderWay ==
  ASSUME IInv, NEW r \in Requests, pc[r] \in {"find", "write", "verify", "record"}
  PROVE  /\ AskedOf[r] = Asked(r) /\ VerdictOf[r] = Verdict(r)
         /\ ReplyOf[r] = "none" /\ Told(r) = "none" /\ reply[r] = "none"
         /\ Asked(r) = [kind |-> input[r].kind, of |-> Credentials(input[r])]
         /\ Asked(r) # Null /\ Asked(r).of # Malformed
         /\ input[r] # Null /\ input[r] \in Inputs
         /\ input[r].email \in Spellings /\ input[r].password \in Passwords
<1>1. input[r] \in Inputs /\ WellFormed(input[r]) /\ reply[r] = "none"
  BY DEF IInv, TypeOK, RequestOK
<1>2. /\ input[r] # Null /\ input[r].email \in Spellings /\ input[r].password \in Passwords
      /\ input[r].kind \in {"register", "login"}
  BY <1>1 DEF WellFormed, Inputs
<1>3. Credentials(input[r]) \in A!Credentials
  BY <1>2, NormalIsASpelling DEF Credentials, A!Credentials
<1>4. Asked(r) = [kind |-> input[r].kind, of |-> Credentials(input[r])]
  BY <1>1, <1>2 DEF Asked
<1>5. Asked(r) \in A!Questions
  BY <1>2, <1>3, <1>4 DEF A!Questions
<1>6. AskedOf[r] = Asked(r) /\ VerdictOf[r] = Verdict(r) /\ ReplyOf[r] = Told(r)
  BY DEF AskedOf, VerdictOf, ReplyOf, Told
<1>7. Told(r) = "none"
  BY <1>1 DEF Told
<1>8. Asked(r) # Null /\ Asked(r).of # Malformed
  BY <1>3, <1>4, <1>5, TagAssumption
<1> QED BY <1>1, <1>2, <1>4, <1>6, <1>7, <1>8

(* The users table has an address exactly if the register does. *)
LEMMA TakenIfFound ==
  ASSUME IInv, NEW in \in Inputs, in.email \in Spellings
  PROVE  (\E u \in users : u.email = Normalize(in.email)) <=> A!Taken(Address(in.email))
<1>1. ASSUME NEW u \in users
      PROVE  u.email = Normalize(in.email) <=> Address(u.email) = Address(in.email)
  <2>1. u.email \in Spellings /\ u.email = Normalize(u.email)
    BY RowsHaveRequests DEF IInv, RowOK
  <2> QED BY <2>1, NormalIsASpelling
<1>2. A!Taken(Address(in.email)) <=> \E u \in users : Address(u.email) = Address(in.email)
  <2>1. \A a : a \in Accounted <=> \E u \in users : a = CredentialsOf(u)
    BY DEF Accounted, CredentialsOf
  <2>2. \A u \in users : CredentialsOf(u)[1] = Address(u.email)
    BY DEF CredentialsOf
  <2>3. A!Taken(Address(in.email)) <=> \E a \in Accounted : a[1] = Address(in.email)
    BY DEF A!Taken, Accounted
  <2> QED BY <2>1, <2>2, <2>3
<1> QED BY <1>1, <1>2

LEMMA FoundIfThere ==
  ASSUME IInv, NEW in \in Inputs, in.email \in Spellings
  PROVE  FindByEmail(Normalize(in.email)) = Null <=> ~A!Taken(Address(in.email))
<1>1. Null \notin users
  BY DEF IInv, TypeOK
<1> QED BY <1>1, TakenIfFound DEF FindByEmail

LEMMA TellingIs ==
  ASSUME NEW r \in Requests, NEW code
  PROVE  A!Tell(r, code) <=> /\ ReplyOf[r] = "none"
                             /\ ReplyOf' = [ReplyOf EXCEPT ![r] = code]
                             /\ VerdictOf' = [VerdictOf EXCEPT ![r] = "none"]
BY DEF A!Tell, ReplyOf, VerdictOf

LEMMA ReceiveIsAsk ==
  ASSUME IInv, NEW r \in Requests, NEW in \in Inputs, Receive(r, in)
  PROVE  \E q \in A!Questions : A!Ask(r, q)
<1> USE DEF Receive, Goto, Answer
<1> DEFINE question == [kind |-> in.kind, of |-> IF WellFormed(in) THEN Credentials(in) ELSE Malformed]
<1>1. /\ pc'[r] \in {"find", "done"} /\ input'[r] = in /\ in # Null /\ users' = users
      /\ WellFormed(in) => pc'[r] = "find" /\ reply'[r] = reply[r]
      /\ ~WellFormed(in) =>
           /\ pc'[r] = "done"
           /\ reply'[r] = IF in.kind = "login" THEN "UNAUTHORIZED" ELSE "VALIDATION_ERROR"
  BY DEF IInv, TypeOK, Inputs
<1>2. pc[r] = "idle" /\ reply[r] = "none"
  BY DEF IInv, RequestOK
<1>3. question \in A!Questions /\ (question.of = Malformed <=> ~WellFormed(in))
  <2>1. WellFormed(in) => Credentials(in) \in A!Credentials
    BY NormalIsASpelling DEF WellFormed, Inputs, Credentials, A!Credentials
  <2>2. in.kind \in {"register", "login"}
    BY DEF Inputs
  <2> QED BY <2>1, <2>2, TagAssumption DEF A!Questions
<1>4. Asked(r)' = question
  BY <1>1 DEF Asked
<1>5. /\ Verdict(r) = "none" /\ Verdict(r)' = "none"
      /\ Told(r) = "none" /\ Told(r)' = reply'[r]
  BY <1>1, <1>2 DEF Verdict, Told
<1>6. AskedOf[r] = Null
  BY <1>2 DEF AskedOf, Asked, IInv, RequestOK
<1>7. /\ AskedOf' = [AskedOf EXCEPT ![r] = question]
      /\ VerdictOf' = [VerdictOf EXCEPT ![r] = "none"]
      /\ ReplyOf' = [ReplyOf EXCEPT ![r] = Told(r)']
  BY <1>4, <1>5, OthersLookTheSame DEF IInv, TypeOK
<1>8. VerdictOf = [VerdictOf EXCEPT ![r] = "none"] /\ ReplyOf = [ReplyOf EXCEPT ![r] = "none"]
      /\ ReplyOf[r] = "none"
  BY <1>5 DEF VerdictOf, ReplyOf, Told
<1>9. A!Ask(r, question)
  <2> HIDE DEF question
  <2>1. question.kind = in.kind
    BY DEF question
  <2>2. A!Ask(r, question) <=>
          /\ AskedOf[r] = Null
          /\ AskedOf' = [AskedOf EXCEPT ![r] = question]
          /\ \/ question.of # Malformed /\ VerdictOf' = VerdictOf /\ ReplyOf' = ReplyOf
             \/ /\ question.of = Malformed
                /\ A!Tell(r, IF question.kind = "login" THEN "UNAUTHORIZED"
                             ELSE "VALIDATION_ERROR")
          /\ Accounted' = Accounted
    BY DEF A!Ask, AskedOf, VerdictOf, ReplyOf, Accounted
  <2>3. Accounted' = Accounted
    BY <1>1 DEF Accounted
  <2>4. CASE WellFormed(in)
    <3>1. ReplyOf' = ReplyOf /\ VerdictOf' = VerdictOf
      BY <1>1, <1>2, <1>5, <1>7, <1>8, <2>4
    <3> QED BY <1>3, <1>6, <1>7, <2>2, <2>3, <2>4, <3>1
  <2>5. CASE ~WellFormed(in)
    <3> DEFINE code == IF question.kind = "login" THEN "UNAUTHORIZED" ELSE "VALIDATION_ERROR"
    <3>1. ReplyOf' = [ReplyOf EXCEPT ![r] = code]
      BY <1>1, <1>5, <1>7, <2>1, <2>5
    <3> HIDE DEF code
    <3>2. A!Tell(r, code)
      BY <1>7, <1>8, <3>1, TellingIs
    <3> QED BY <1>3, <1>6, <1>7, <2>2, <2>3, <2>5, <3>2 DEF code
  <2> QED BY <2>4, <2>5
<1> QED BY <1>3, <1>9

(* A step that moves only r, seen from the register: what becomes of each variable. *)
Decides(r, what) ==
    /\ AskedOf' = AskedOf
    /\ VerdictOf' = [VerdictOf EXCEPT ![r] = what]
    /\ ReplyOf' = ReplyOf

Tells(r, code) ==
    /\ AskedOf' = AskedOf
    /\ ReplyOf[r] = "none"
    /\ VerdictOf' = [VerdictOf EXCEPT ![r] = "none"]
    /\ ReplyOf' = [ReplyOf EXCEPT ![r] = code]

Frame(r) ==
    /\ \A q \in Requests \ {r} : /\ pc'[q] = pc[q] /\ input'[q] = input[q]
                                 /\ user'[q] = user[q] /\ reply'[q] = reply[q]
    /\ Asked(r)' = Asked(r)

LEMMA ItDecides ==
  ASSUME NEW r \in Requests, NEW what, Frame(r), Verdict(r)' = what, Told(r)' = Told(r)
  PROVE  Decides(r, what)
<1>1. AskedOf = [AskedOf EXCEPT ![r] = Asked(r)] /\ ReplyOf = [ReplyOf EXCEPT ![r] = Told(r)]
  BY DEF AskedOf, ReplyOf, Told
<1> QED BY <1>1, OthersLookTheSame DEF Frame, Decides

LEMMA ItTells ==
  ASSUME NEW r \in Requests, NEW code, Frame(r), Told(r) = "none",
         Verdict(r)' = "none", Told(r)' = code
  PROVE  Tells(r, code)
<1>1. AskedOf = [AskedOf EXCEPT ![r] = Asked(r)] /\ ReplyOf[r] = "none"
  BY DEF AskedOf, ReplyOf, Told
<1> QED BY <1>1, OthersLookTheSame DEF Frame, Tells

LEMMA OpenIs ==
  ASSUME IInv, NEW r \in Requests, pc[r] \in {"find", "write"}
  PROVE  A!Open(r, input[r].kind)
<1>1. /\ AskedOf[r] # Null /\ AskedOf[r].of # Malformed /\ AskedOf[r].kind = input[r].kind
      /\ VerdictOf[r] = "none" /\ ReplyOf[r] = "none"
  BY UnderWay DEF Verdict
<1> QED BY <1>1 DEF A!Open, AskedOf, VerdictOf, ReplyOf

(* Between the lookup and the row, a request only waits; a login that was right, too. *)
LEMMA WaitingIsHidden ==
  ASSUME IInv, NEW r \in Requests,
         \/ EnsureEmailIsAvailable(r) /\ pc'[r] = "write"
         \/ Verify(r) /\ PasswordIsValid(r)
  PROVE  UNCHANGED A!vars
<1> USE DEF EnsureEmailIsAvailable, Verify, Goto, Answer
<1>1. /\ users' = users /\ input' = input /\ user' = user /\ reply' = reply
      /\ \A q \in Requests \ {r} : pc'[q] = pc[q]
      /\ \/ pc[r] = "find" /\ pc'[r] = "write"
         \/ pc[r] = "verify" /\ pc'[r] = "record"
      /\ pc[r] = "verify" => PasswordIsValid(r)
  BY DEF IInv, TypeOK
<1>2. Asked(r)' = Asked(r) /\ Verdict(r)' = Verdict(r) /\ Told(r)' = Told(r)
  BY <1>1 DEF Asked, Verdict, Told
<1> QED BY <1>1, <1>2, LooksUnmoved

LEMMA ConflictIsFindTaken ==
  ASSUME IInv, NEW r \in Requests, EnsureEmailIsAvailable(r), pc'[r] # "write"
  PROVE  A!FindTaken(r)
<1> USE DEF EnsureEmailIsAvailable, Goto, Answer
<1>1. /\ users' = users /\ input' = input /\ user' = user
      /\ \A q \in Requests \ {r} : pc'[q] = pc[q] /\ reply'[q] = reply[q]
      /\ pc[r] = "find" /\ input[r].kind = "register"
      /\ pc'[r] = "done" /\ reply'[r] = "CONFLICT"
      /\ FindByEmail(Normalize(input[r].email)) # Null
  BY DEF IInv, TypeOK
<1>2. Asked(r)' = Asked(r) /\ Verdict(r)' = "none" /\ Told(r)' = "CONFLICT" /\ Told(r) = "none"
  BY <1>1, UnderWay DEF Asked, Verdict, Told
<1>3. Tells(r, "CONFLICT")
  BY <1>1, <1>2, ItTells DEF Frame
<1>4. A!Open(r, "register")
  BY <1>1, OpenIs
<1>5. A!Taken(AskedOf[r].of[1])
  <2>1. AskedOf[r].of[1] = Address(input[r].email)
    BY <1>1, UnderWay DEF Credentials
  <2> QED BY <1>1, <2>1, FoundIfThere, UnderWay
<1> QED BY <1>1, <1>3, <1>4, <1>5 DEF A!FindTaken, A!Tell, Tells, AskedOf, VerdictOf, ReplyOf

LEMMA FailureIsFail ==
  ASSUME IInv, NEW r \in Requests, CreateRefused(r) \/ DatabaseFails(r) \/ Crash(r)
  PROVE  A!Fail(r)
<1> USE DEF CreateRefused, DatabaseFails, Crash, Goto, Answer
<1>1. /\ users' = users /\ input' = input /\ user' = user
      /\ \A q \in Requests \ {r} : pc'[q] = pc[q] /\ reply'[q] = reply[q]
      /\ pc[r] \in {"find", "write", "verify", "record"}
      /\ \/ pc'[r] = "done" /\ reply'[r] = "INTERNAL_ERROR"
         \/ pc'[r] = "lost"
  BY DEF IInv, TypeOK
<1>2. /\ Asked(r)' = Asked(r) /\ Verdict(r)' = "none" /\ Told(r) = "none"
      /\ Told(r)' = "INTERNAL_ERROR" \/ Told(r)' = "lost"
  BY <1>1, UnderWay DEF Asked, Verdict, Told
<1>3. Tells(r, "INTERNAL_ERROR") \/ Tells(r, "lost")
  BY <1>1, <1>2, ItTells DEF Frame
<1>4. AskedOf[r] # Null
  BY <1>1, UnderWay
<1> QED BY <1>1, <1>3, <1>4 DEF A!Fail, A!Tell, Tells, AskedOf, VerdictOf, ReplyOf

LEMMA InsertIsClaim ==
  ASSUME IInv, NEW r \in Requests, Create(r) \/ CommitAnswerLost(r)
  PROVE  A!Claim(r)
<1> USE DEF Create, CommitAnswerLost, Insert, Goto, Answer
<1> DEFINE row == [id |-> r, email |-> Normalize(input[r].email), password |-> input[r].password]
<1>1. /\ users' = users \cup {row} /\ input' = input /\ user' = user
      /\ \A q \in Requests \ {r} : pc'[q] = pc[q] /\ reply'[q] = reply[q]
      /\ pc[r] = "write" /\ input[r].kind = "register"
      /\ ~ \E u \in users : u.email = Normalize(input[r].email)
      /\ \/ pc'[r] = "record" /\ reply'[r] = reply[r]
         \/ pc'[r] = "done" /\ reply'[r] = "INTERNAL_ERROR"
  BY DEF IInv, TypeOK, Accepts
<1>2. /\ AskedOf[r].of = Credentials(input[r]) /\ AskedOf[r].of[1] = Address(input[r].email)
      /\ input[r] \in Inputs /\ input[r].email \in Spellings
      /\ Told(r) = "none" /\ reply[r] = "none"
  BY <1>1, UnderWay DEF Credentials
<1>3. ~A!Taken(AskedOf[r].of[1])
  BY <1>1, <1>2, TakenIfFound
<1>4. Accounted' = Accounted \cup {AskedOf[r].of}
  <2>1. <<Address(row.email), row.password>> = AskedOf[r].of
    BY <1>2, NormalIsASpelling DEF Credentials
  <2> HIDE DEF row
  <2> QED BY <1>1, <2>1 DEF Accounted
<1>5. A!Open(r, "register")
  BY <1>1, OpenIs
<1>6. Frame(r)
  <2>1. Asked(r)' = Asked(r)
    BY <1>1 DEF Asked
  <2> QED BY <1>1, <2>1 DEF Frame
<1>7. CASE pc'[r] = "record"
  <2>1. Verdict(r)' = "granted" /\ Told(r)' = Told(r)
    BY <1>1, <1>2, <1>7 DEF Verdict, Told
  <2>2. Decides(r, "granted")
    BY <1>6, <2>1, ItDecides
  <2> QED BY <1>3, <1>4, <1>5, <2>2
          DEF A!Claim, Decides, Accounted, AskedOf, VerdictOf, ReplyOf
<1>8. CASE pc'[r] = "done"
  <2>1. Verdict(r)' = "none" /\ Told(r)' = "INTERNAL_ERROR"
    BY <1>1, <1>8 DEF Verdict, Told
  <2>2. Tells(r, "INTERNAL_ERROR")
    BY <1>2, <1>6, <2>1, ItTells
  <2> QED BY <1>3, <1>4, <1>5, <2>2
          DEF A!Claim, A!Tell, Tells, Accounted, AskedOf, VerdictOf, ReplyOf
<1> QED BY <1>1, <1>7, <1>8

(* The row a login reads settles it: the right password is that of the one row there is. *)
LEMMA FindUserIsLogIn ==
  ASSUME IInv, NEW r \in Requests, FindUser(r)
  PROVE  A!LogIn(r)
<1> USE DEF FindUser, Goto
<1> DEFINE found == FindByEmail(Normalize(input[r].email))
<1>1. /\ users' = users /\ input' = input /\ reply' = reply
      /\ \A q \in Requests \ {r} : pc'[q] = pc[q] /\ user'[q] = user[q]
      /\ pc[r] = "find" /\ input[r].kind = "login"
      /\ pc'[r] = "verify" /\ user'[r] = found
  BY DEF IInv, TypeOK
<1>2. /\ AskedOf[r].of = Credentials(input[r]) /\ input[r].email \in Spellings
      /\ Told(r) = "none" /\ input[r] \in Inputs
  BY <1>1, UnderWay
<1>3. found # Null /\ found.password = input[r].password <=> AskedOf[r].of \in Accounted
  <2>1. found # Null => found \in users /\ found.email = Normalize(input[r].email)
    BY DEF FindByEmail
  <2>2. AskedOf[r].of \in Accounted <=> \E u \in users : CredentialsOf(u) = Credentials(input[r])
    BY <1>2 DEF Accounted, CredentialsOf
  <2>3. ASSUME found # Null, found.password = input[r].password
        PROVE  CredentialsOf(found) = Credentials(input[r])
    BY <1>2, <2>1, <2>3, NormalIsASpelling DEF CredentialsOf, Credentials
  <2>4. ASSUME NEW u \in users, CredentialsOf(u) = Credentials(input[r])
        PROVE  found = u /\ u.password = input[r].password
    <3>1. Address(u.email) = Address(input[r].email) /\ u.password = input[r].password
      BY <2>4 DEF Credentials, CredentialsOf
    <3>2. u.email = Normalize(input[r].email)
      BY <1>2, <3>1, RowsHaveRequests, NormalIsASpelling DEF IInv, RowOK
    <3>3. found \in users /\ found.email = u.email
      BY <3>2 DEF FindByEmail
    <3> QED BY <3>1, <3>3 DEF IInv, OneAccountPerAddress
  <2>5. Null \notin users
    BY DEF IInv, TypeOK
  <2> HIDE DEF found
  <2> QED BY <2>1, <2>2, <2>3, <2>4, <2>5
<1> DEFINE what == IF AskedOf[r].of \in Accounted THEN "granted" ELSE "denied"
<1>4. Verdict(r)' = what /\ Told(r)' = Told(r) /\ Asked(r)' = Asked(r)
  BY <1>1, <1>3 DEF Verdict, PasswordIsValid, Told, Asked
<1>5. AskedOf' = AskedOf /\ VerdictOf' = [VerdictOf EXCEPT ![r] = what] /\ ReplyOf' = ReplyOf
  <2>1. Frame(r)
    BY <1>1, <1>4 DEF Frame
  <2> HIDE DEF what
  <2> QED BY <1>4, <2>1, ItDecides DEF Decides
<1>6. A!Open(r, "login") /\ Accounted' = Accounted
  BY <1>1, OpenIs DEF Accounted
<1> QED BY <1>5, <1>6 DEF A!LogIn, Accounted, AskedOf, VerdictOf, ReplyOf

LEMMA RepliesAreAnswers ==
  ASSUME IInv, NEW r \in Requests, RecordEvent(r) \/ (Verify(r) /\ ~PasswordIsValid(r))
  PROVE  A!Answer(r)
<1> USE DEF RecordEvent, Verify, Answer
<1>1. /\ users' = users /\ input' = input /\ user' = user
      /\ \A q \in Requests \ {r} : pc'[q] = pc[q] /\ reply'[q] = reply[q]
      /\ pc'[r] = "done"
      /\ \/ pc[r] = "record" /\ reply'[r] = "OK"
         \/ pc[r] = "verify" /\ ~PasswordIsValid(r) /\ reply'[r] = "UNAUTHORIZED"
  BY DEF IInv, TypeOK
<1>2. /\ \/ Verdict(r) = "granted" /\ Told(r)' = "OK"
         \/ Verdict(r) = "denied" /\ Told(r)' = "UNAUTHORIZED"
      /\ Asked(r)' = Asked(r) /\ Verdict(r)' = "none" /\ Told(r) = "none"
  BY <1>1, UnderWay DEF Verdict, Told, Asked
<1>3. Frame(r)
  BY <1>1, <1>2 DEF Frame
<1>4. \/ VerdictOf[r] = "granted" /\ Tells(r, "OK")
      \/ VerdictOf[r] = "denied" /\ Tells(r, "UNAUTHORIZED")
  BY <1>2, <1>3, ItTells DEF VerdictOf
<1>5. Accounted' = Accounted
  BY <1>1 DEF Accounted
<1> QED BY <1>4, <1>5 DEF A!Answer, A!Tell, Tells, Accounted, AskedOf, VerdictOf, ReplyOf

LEMMA StepRefines ==
  ASSUME IInv, [Next]_vars
  PROVE  [A!Next]_(A!vars)
<1>1. CASE UNCHANGED vars
  BY <1>1 DEF vars, A!vars, Asked, Verdict, PasswordIsValid
<1>2. ASSUME NEW r \in Requests, NEW in \in Inputs, Receive(r, in) PROVE A!Next
  BY <1>2, ReceiveIsAsk DEF A!Next
<1>3. ASSUME NEW r \in Requests, EnsureEmailIsAvailable(r) PROVE A!Next \/ UNCHANGED A!vars
  BY <1>3, WaitingIsHidden, ConflictIsFindTaken DEF A!Next
<1>4. ASSUME NEW r \in Requests, Create(r) \/ CommitAnswerLost(r) PROVE A!Next
  BY <1>4, InsertIsClaim DEF A!Next
<1>5. ASSUME NEW r \in Requests, FindUser(r) PROVE A!Next
  BY <1>5, FindUserIsLogIn DEF A!Next
<1>6. ASSUME NEW r \in Requests, Verify(r) \/ RecordEvent(r) PROVE A!Next \/ UNCHANGED A!vars
  BY <1>6, WaitingIsHidden, RepliesAreAnswers DEF A!Next
<1>7. ASSUME NEW r \in Requests, CreateRefused(r) \/ DatabaseFails(r) \/ Crash(r) PROVE A!Next
  BY <1>7, FailureIsFail DEF A!Next
<1> QED BY <1>1, <1>2, <1>3, <1>4, <1>5, <1>6, <1>7 DEF Next, Step, AllAnswered

(* Registration and login keep the promise of AccountRules: Accounts!ImplementsRules. *)
THEOREM AccountsKeepTheRules == Spec => ImplementsRules
<1>1. Init => A!Init
  BY DEF Init, A!Init, Asked, Verdict
<1>2. IInv /\ [Next]_vars => [A!Next]_(A!vars)
  BY StepRefines
<1> QED BY <1>1, <1>2, Invariant, PTL DEF Spec, ImplementsRules, A!Spec
=============================================================================

------------------------------ MODULE Accounts ------------------------------
(***************************************************************************)
(* CreateUser, which writes the users table, and Login, which reads it, as   *)
(* concurrent requests.  Every await on MySQL or on scrypt is a step; only    *)
(* the unique index on users.email stands between two registrations that      *)
(* looked the address up before either was written.                          *)
(*                                                                         *)
(* A row is never changed or deleted.  What a token is good for afterwards is *)
(* in Sessions.tla, how often a client may try in LoginRateLimit.tla.         *)
(***************************************************************************)

CONSTANTS
    Addresses,     \* e-mail addresses
    Passwords,
    Requests,      \* requests the API may receive, each once
    Faults,        \* whether MySQL, the event queue and the process may fail
    Malformed,     \* an e-mail or a password that its value object refuses
    Null           \* the null a lookup returns

(* An address as it may be typed: with capitals and blanks around it, or without. *)
Spellings == Addresses \X {"plain", "sloppy"}
Address(spelling) == spelling[1]

Rows == [id : Requests, email : Spellings, password : Passwords]
Inputs == [kind : {"register", "login"},
           email : Spellings \cup {Malformed}, password : Passwords \cup {Malformed}]

ASSUME AccountAssumption ==
    /\ Malformed \notin Spellings \cup Passwords
    /\ Null \notin Rows \cup Inputs
    /\ Faults \in BOOLEAN

VARIABLES
    users,       \* the users table
    input,       \* [Requests -> Inputs], what a received request asks for
    pc,          \* where each request is in its use case
    user,        \* the row a login has read
    reply,       \* the answer the client got
    announced,   \* history: address and password of each registration answered 201
    known        \* history: logins whose credentials were announced before they came

vars == <<users, input, pc, user, reply, announced, known>>

-----------------------------------------------------------------------------
NormalizeNothing(spelling) == spelling

(* Email.Create *)
Normalize(spelling) == <<Address(spelling), "plain">>

(* userRepository.findByEmail *)
FindByEmail(email) ==
    IF \E u \in users : u.email = email THEN CHOOSE u \in users : u.email = email ELSE Null

Goto(r, label) == pc' = [pc EXCEPT ![r] = label] /\ UNCHANGED <<reply, announced>>

Answer(r, code) ==
    /\ pc' = [pc EXCEPT ![r] = "done"]
    /\ reply' = [reply EXCEPT ![r] = code]
    /\ UNCHANGED announced

Credentials(in) == <<Address(in.email), in.password>>

WellFormedEmail(in) == in.email # Malformed

(* Email.Create and PlainPassword.Create accept what they are given. *)
WellFormed(in) == in.email # Malformed /\ in.password # Malformed

Init ==
    /\ users = {}
    /\ input = [r \in Requests |-> Null]
    /\ pc = [r \in Requests |-> "idle"]
    /\ user = [r \in Requests |-> Null]
    /\ reply = [r \in Requests |-> "none"]
    /\ announced = {}
    /\ known = {}

(* Login hides that its input is malformed; CreateUser says so. *)
Receive(r, in) ==
    /\ pc[r] = "idle"
    /\ input' = [input EXCEPT ![r] = in]
    /\ \/ WellFormed(in) /\ Goto(r, "find")
       \/ ~WellFormed(in) /\ in.kind = "login" /\ Answer(r, "UNAUTHORIZED")
       \/ ~WellFormed(in) /\ in.kind = "register" /\ Answer(r, "VALIDATION_ERROR")
    /\ known' = IF WellFormed(in) /\ in.kind = "login" /\ Credentials(in) \in announced
                THEN known \cup {r} ELSE known
    /\ UNCHANGED <<users, user>>

-----------------------------------------------------------------------------
(* CreateUser. *)
EnsureEmailIsAvailable(r) ==
    /\ pc[r] = "find" /\ input[r].kind = "register"
    /\ IF FindByEmail(Normalize(input[r].email)) = Null
       THEN Goto(r, "write") ELSE Answer(r, "CONFLICT")
    /\ UNCHANGED <<users, input, user, known>>

AcceptsAnyEmail(email) == TRUE

(* What the unique index on email lets in. *)
Accepts(email) == ~ \E u \in users : u.email = email

Insert(r) ==
    /\ pc[r] = "write"
    /\ Accepts(Normalize(input[r].email))
    /\ users' = users \cup {[id |-> r, email |-> Normalize(input[r].email),
                             password |-> input[r].password]}
    /\ UNCHANGED <<input, user, known>>

Create(r) == Insert(r) /\ Goto(r, "record")

(* UserPrismaRepository translates no Prisma error: the client reads a 500. *)
CreateRefused(r) ==
    /\ pc[r] = "write"
    /\ ~Accepts(Normalize(input[r].email))
    /\ Answer(r, "INTERNAL_ERROR")
    /\ UNCHANGED <<users, input, user, known>>

-----------------------------------------------------------------------------
(* Login. *)
FindUser(r) ==
    /\ pc[r] = "find" /\ input[r].kind = "login"
    /\ user' = [user EXCEPT ![r] = FindByEmail(Normalize(input[r].email))]
    /\ Goto(r, "verify")
    /\ UNCHANGED <<users, input, known>>

PasswordIsValidForAnyUser(r) == user[r] # Null

(* scrypt gives the stored hash for the password it was made from; without a row it is
   asked about a hash that never matches. *)
PasswordIsValid(r) == user[r] # Null /\ user[r].password = input[r].password

Verify(r) ==
    /\ pc[r] = "verify"
    /\ IF PasswordIsValid(r) THEN Goto(r, "record") ELSE Answer(r, "UNAUTHORIZED")
    /\ UNCHANGED <<users, input, user, known>>

(* The event; whatever becomes of it, the answer is the same. *)
RecordEvent(r) ==
    /\ pc[r] = "record"
    /\ pc' = [pc EXCEPT ![r] = "done"]
    /\ reply' = [reply EXCEPT ![r] = "OK"]
    /\ announced' = IF input[r].kind = "register"
                    THEN announced \cup {Credentials(input[r])} ELSE announced
    /\ UNCHANGED <<users, input, user, known>>

-----------------------------------------------------------------------------
DatabaseFailsAsConflict(r) ==
    /\ Faults
    /\ pc[r] \in {"find", "write"}
    /\ Answer(r, "CONFLICT")
    /\ UNCHANGED <<users, input, user, known>>

DatabaseFails(r) ==
    /\ Faults
    /\ pc[r] \in {"find", "write"}
    /\ Answer(r, "INTERNAL_ERROR")
    /\ UNCHANGED <<users, input, user, known>>

(* The row is there, and the client is told 500. *)
CommitAnswerLost(r) == Faults /\ Insert(r) /\ Answer(r, "INTERNAL_ERROR")

Crash(r) ==
    /\ Faults
    /\ pc[r] \in {"find", "write", "verify", "record"}
    /\ Goto(r, "lost")
    /\ UNCHANGED <<users, input, user, known>>

AllAnswered == (\A r \in Requests : pc[r] \in {"done", "lost"}) /\ UNCHANGED vars

Step(r) ==
    \/ \E in \in Inputs : Receive(r, in)
    \/ EnsureEmailIsAvailable(r) \/ Create(r) \/ CreateRefused(r)
    \/ FindUser(r) \/ Verify(r) \/ RecordEvent(r)
    \/ DatabaseFails(r) \/ CommitAnswerLost(r) \/ Crash(r)

Next == (\E r \in Requests : Step(r)) \/ AllAnswered

Spec == Init /\ [][Next]_vars

-----------------------------------------------------------------------------
PcValues == {"idle", "find", "write", "verify", "record", "done", "lost"}
Replies == {"none", "OK", "VALIDATION_ERROR", "UNAUTHORIZED", "CONFLICT", "INTERNAL_ERROR"}

(* Types; a request under way has well-formed input, and only a login ever verifies. *)
TypeOK ==
    /\ users \subseteq Rows
    /\ input \in [Requests -> Inputs \cup {Null}]
    /\ pc \in [Requests -> PcValues]
    /\ user \in [Requests -> Rows \cup {Null}]
    /\ reply \in [Requests -> Replies]
    /\ announced \subseteq Addresses \X Passwords
    /\ known \subseteq Requests
    /\ \A r \in Requests :
         /\ pc[r] # "idle" => input[r] \in Inputs
         /\ pc[r] \in {"find", "write", "verify", "record"} => WellFormed(input[r])
         /\ pc[r] = "write" => input[r].kind = "register"
         /\ pc[r] = "verify" => input[r].kind = "login"

(* However registrations of one address race, and however it was typed, it has one
   account. *)
OneAccountPerAddress ==
    \A u, v \in users : Address(u.email) = Address(v.email) => u = v

(* Only the password of the registration that won opens the account: never that of one
   that was answered CONFLICT, nor that of another account. *)
OnlyTheWinnerLogsIn ==
    \A r \in Requests :
        reply[r] = "OK" /\ input[r].kind = "login" =>
            \E u \in users :
                /\ Credentials(input[r]) = <<Address(u.email), u.password>>
                /\ input[u.id].kind = "register"
                /\ Credentials(input[u.id]) = Credentials(input[r])
                /\ reply[u.id] \in {"none", "OK", "INTERNAL_ERROR"}

(* Whoever was told 201 can log in from then on, however he types the address. *)
RegisteredCanLogIn == \A r \in known : reply[r] # "UNAUTHORIZED"

(* What a request is about, what was decided of it, and what became of it. *)
Asked(r) ==
    IF input[r] = Null THEN Null
    ELSE [kind |-> input[r].kind,
          of |-> IF WellFormed(input[r]) THEN Credentials(input[r]) ELSE Malformed]

Verdict(r) ==
    CASE pc[r] = "record" -> "granted"
      [] pc[r] = "verify" -> IF PasswordIsValid(r) THEN "granted" ELSE "denied"
      [] OTHER -> "none"

A == INSTANCE AccountRules WITH
         accounts <- {<<Address(u.email), u.password>> : u \in users},
         asked <- [r \in Requests |-> Asked(r)],
         verdict <- [r \in Requests |-> Verdict(r)],
         reply <- [r \in Requests |-> IF pc[r] = "lost" THEN "lost" ELSE reply[r]]

ASSUME TagAssumption == Malformed \notin A!Credentials /\ Null \notin A!Questions

(* However the awaits of registrations and logins interleave, and whatever fails, each is
   answered as if the users table had been asked, and written, in one moment: CONFLICT only
   for an address that is taken, UNAUTHORIZED only for credentials that open no account. *)
ImplementsRules == A!Spec
=============================================================================

---------------------------- MODULE AccountRules ----------------------------
(***************************************************************************)
(* What registration and login promise: a register of accounts that is       *)
(* written and read in one piece, and each request answered with what it held *)
(* at one moment while the request was under way.  Only a 500, or no answer,  *)
(* leaves open what happened.  Accounts.tla is the program, in which lookup,  *)
(* write, verification and answer are awaits apart.                           *)
(***************************************************************************)
CONSTANTS
    Addresses, Passwords, Requests,
    Malformed,    \* credentials that cannot be any
    Null          \* no question

Credentials == Addresses \X Passwords
Questions == [kind : {"register", "login"}, of : Credentials \cup {Malformed}]

VARIABLES
    accounts,     \* the credentials that open an account
    asked,        \* what each request is about
    verdict,      \* what it was granted or denied, and was not told yet
    reply         \* what its client was told

vars == <<accounts, asked, verdict, reply>>

Init ==
    /\ accounts = {}
    /\ asked = [r \in Requests |-> Null]
    /\ verdict = [r \in Requests |-> "none"]
    /\ reply = [r \in Requests |-> "none"]

Taken(address) == \E a \in accounts : a[1] = address

(* Under way, with nothing decided. *)
Open(r, kind) ==
    /\ asked[r] # Null /\ asked[r].kind = kind /\ asked[r].of # Malformed
    /\ verdict[r] = "none" /\ reply[r] = "none"

Tell(r, code) ==
    /\ reply[r] = "none"
    /\ reply' = [reply EXCEPT ![r] = code]
    /\ verdict' = [verdict EXCEPT ![r] = "none"]

-----------------------------------------------------------------------------
Ask(r, q) ==
    /\ asked[r] = Null
    /\ asked' = [asked EXCEPT ![r] = q]
    /\ \/ q.of # Malformed /\ UNCHANGED <<verdict, reply>>
       \/ /\ q.of = Malformed
          /\ Tell(r, IF q.kind = "login" THEN "UNAUTHORIZED" ELSE "VALIDATION_ERROR")
    /\ UNCHANGED accounts

(* An address that is free goes to whoever claims it, even if he does not learn it. *)
Claim(r) ==
    /\ Open(r, "register")
    /\ ~Taken(asked[r].of[1])
    /\ accounts' = accounts \cup {asked[r].of}
    /\ \/ verdict' = [verdict EXCEPT ![r] = "granted"] /\ UNCHANGED reply
       \/ Tell(r, "INTERNAL_ERROR")
    /\ UNCHANGED asked

FindTaken(r) ==
    /\ Open(r, "register")
    /\ Taken(asked[r].of[1])
    /\ Tell(r, "CONFLICT")
    /\ UNCHANGED <<accounts, asked>>

LogIn(r) ==
    /\ Open(r, "login")
    /\ verdict' = [verdict EXCEPT ![r] =
                     IF asked[r].of \in accounts THEN "granted" ELSE "denied"]
    /\ UNCHANGED <<accounts, asked, reply>>

Answer(r) ==
    /\ verdict[r] # "none"
    /\ Tell(r, IF verdict[r] = "granted" THEN "OK" ELSE "UNAUTHORIZED")
    /\ UNCHANGED <<accounts, asked>>

Fail(r) ==
    /\ asked[r] # Null
    /\ Tell(r, "INTERNAL_ERROR") \/ Tell(r, "lost")
    /\ UNCHANGED <<accounts, asked>>

Next ==
    \E r \in Requests :
        \/ \E q \in Questions : Ask(r, q)
        \/ Claim(r) \/ FindTaken(r) \/ LogIn(r) \/ Answer(r) \/ Fail(r)

Spec == Init /\ [][Next]_vars
=============================================================================

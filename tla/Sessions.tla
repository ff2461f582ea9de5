------------------------------ MODULE Sessions ------------------------------
(***************************************************************************)
(* The life of a session: Login issues a JWT that runs out by itself,         *)
(* Logout puts its jti on the list of revoked tokens in Redis for as long as  *)
(* the token has left, and authMiddleware lets a request in when its token    *)
(* has not run out and is not on the list.                                   *)
(*                                                                         *)
(* JWT counts whole seconds, Redis expires keys to the millisecond, and a     *)
(* second has Second ticks here: what the roundings leave between the two is  *)
(* what this module is about.  Each await is a step, and time may pass at     *)
(* every one.                                                                *)
(***************************************************************************)
EXTENDS Integers

CONSTANTS
    Tokens,       \* the jtis of the tokens that Login issues
    Requests,     \* authenticated requests in flight
    Second,       \* ticks in a second
    ExpiresIn,    \* JWT_EXPIRES_IN, in seconds
    MaxTime,      \* bound on the clock, in ticks
    Faults,       \* whether Redis commands may fail
    Null          \* no token, no time

ASSUME SessionAssumption ==
    /\ Second \in Nat \ {0} /\ ExpiresIn \in Nat \ {0} /\ MaxTime \in Nat
    /\ Faults \in BOOLEAN
    /\ Null \notin Tokens /\ Null \notin Int

VARIABLES
    now,          \* the clock, in ticks
    exp,          \* the exp claim of each token issued, in seconds
    revoked,      \* when the revoked-token key of each jti expires, in ticks
    pc,           \* where each request is
    kind,         \* "call" or "logout"
    token,        \* the token it carries
    ttl,          \* the ttl a logout has computed, in seconds
    late,         \* history: it came after a logout of its token was answered
    loggedOut     \* history: tokens whose logout was answered with 204

vars == <<now, exp, revoked, pc, kind, token, ttl, late, loggedOut>>
request == <<kind, token, late>>

-----------------------------------------------------------------------------
Init ==
    /\ now = 0
    /\ exp = [t \in Tokens |-> Null]
    /\ revoked = [t \in Tokens |-> Null]
    /\ pc = [r \in Requests |-> "idle"]
    /\ kind = [r \in Requests |-> "call"]
    /\ token = [r \in Requests |-> Null]
    /\ ttl = [r \in Requests |-> Null]
    /\ late = [r \in Requests |-> FALSE]
    /\ loggedOut = {}

Tick ==
    /\ now < MaxTime
    /\ now' = now + 1
    /\ UNCHANGED <<exp, revoked, pc, request, ttl, loggedOut>>

(* Login, with the right credentials: sign counts from the second it is in. *)
Login(t) ==
    /\ exp[t] = Null
    /\ exp' = [exp EXCEPT ![t] = now \div Second + ExpiresIn]
    /\ UNCHANGED <<now, revoked, pc, request, ttl, loggedOut>>

(* jsonwebtoken compares seconds, too. *)
RunOut(t) == now \div Second >= exp[t]

IsRevoked(t) == revoked[t] # Null /\ now < revoked[t]

-----------------------------------------------------------------------------
Goto(r, label) ==
    /\ pc' = [pc EXCEPT ![r] = label]
    /\ UNCHANGED <<now, exp, request>>

(* authMiddleware: verify; a token that has run out goes no further. *)
Verify(r, t, k) ==
    /\ pc[r] = "idle"
    /\ exp[t] # Null /\ ~RunOut(t)
    /\ pc' = [pc EXCEPT ![r] = "verified"]
    /\ kind' = [kind EXCEPT ![r] = k]
    /\ token' = [token EXCEPT ![r] = t]
    /\ late' = [late EXCEPT ![r] = t \in loggedOut]
    /\ UNCHANGED <<now, exp, revoked, ttl, loggedOut>>

CheckRevokedFailingOpen(r) ==
    /\ pc[r] = "verified"
    /\ \/ Faults /\ Goto(r, "admitted")
       \/ Goto(r, IF IsRevoked(token[r]) THEN "rejected" ELSE "admitted")
    /\ UNCHANGED <<revoked, ttl, loggedOut>>

(* Revocation fails closed: 503 when the list cannot be asked. *)
CheckRevoked(r) ==
    /\ pc[r] = "verified"
    /\ \/ Faults /\ Goto(r, "rejected")
       \/ Goto(r, IF IsRevoked(token[r]) THEN "rejected" ELSE "admitted")
    /\ UNCHANGED <<revoked, ttl, loggedOut>>

(* Any other request does what it is let in for. *)
Serve(r) ==
    /\ pc[r] = "admitted"
    /\ kind[r] = "call"
    /\ Goto(r, "served")
    /\ UNCHANGED <<revoked, ttl, loggedOut>>

TtlForRoundedDown(t) == (exp[t] * Second - now) \div Second

(* RedisRevokedTokenStore.TtlFor: Math.ceil of what the token has left. *)
TtlFor(t) == (exp[t] * Second - now + Second - 1) \div Second

LogoutAlwaysSets(r) ==
    /\ pc[r] = "admitted"
    /\ kind[r] = "logout"
    /\ ttl' = [ttl EXCEPT ![r] = TtlFor(token[r])]
    /\ Goto(r, "set")
    /\ UNCHANGED <<revoked, loggedOut>>

(* revoke of a token that has run out while it waited stores nothing. *)
Logout(r) ==
    /\ pc[r] = "admitted"
    /\ kind[r] = "logout"
    /\ ttl' = [ttl EXCEPT ![r] = TtlFor(token[r])]
    /\ Goto(r, IF TtlFor(token[r]) < 1 THEN "loggedOut" ELSE "set")
    /\ UNCHANGED <<revoked, loggedOut>>

(* SET EX; when it fails, applied or not, the answer is 503. *)
Revoke(r) ==
    /\ pc[r] = "set"
    /\ \/ /\ revoked' = [revoked EXCEPT ![token[r]] = now + ttl[r] * Second]
          /\ \/ Goto(r, "loggedOut")
             \/ Faults /\ Goto(r, "rejected")
       \/ /\ Faults
          /\ Goto(r, "rejected")
          /\ UNCHANGED revoked
    /\ UNCHANGED <<ttl, loggedOut>>

(* The answer; what the request held is forgotten. *)
Answer(r) ==
    /\ pc[r] \in {"rejected", "served", "loggedOut"}
    /\ loggedOut' = IF pc[r] = "loggedOut" THEN loggedOut \cup {token[r]} ELSE loggedOut
    /\ pc' = [pc EXCEPT ![r] = "idle"]
    /\ kind' = [kind EXCEPT ![r] = "call"]
    /\ token' = [token EXCEPT ![r] = Null]
    /\ ttl' = [ttl EXCEPT ![r] = Null]
    /\ late' = [late EXCEPT ![r] = FALSE]
    /\ UNCHANGED <<now, exp, revoked>>

-----------------------------------------------------------------------------
Next ==
    \/ Tick
    \/ \E t \in Tokens : Login(t)
    \/ \E r \in Requests :
         \/ \E t \in Tokens, k \in {"call", "logout"} : Verify(r, t, k)
         \/ CheckRevoked(r) \/ Serve(r) \/ Logout(r) \/ Revoke(r) \/ Answer(r)

Spec == Init /\ [][Next]_vars

-----------------------------------------------------------------------------
Steps == {"idle", "verified", "admitted", "set", "loggedOut", "served", "rejected"}

(* Types; the ttl a logout asks Redis for is at least a second, which SET EX demands. *)
TypeOK ==
    /\ now \in 0 .. MaxTime
    /\ exp \in [Tokens -> Nat \cup {Null}]
    /\ revoked \in [Tokens -> Nat \cup {Null}]
    /\ pc \in [Requests -> Steps]
    /\ kind \in [Requests -> {"call", "logout"}]
    /\ token \in [Requests -> Tokens \cup {Null}]
    /\ ttl \in [Requests -> Int \cup {Null}]
    /\ late \in [Requests -> BOOLEAN]
    /\ loggedOut \subseteq Tokens
    /\ \A r \in Requests : pc[r] = "set" => ttl[r] >= 1

(* A session that was logged out stays on the list until its token has run out, to the
   last tick of its last second, however long the SET took to reach Redis. *)
LoggedOutUntilRunOut == \A t \in loggedOut : IsRevoked(t) \/ RunOut(t)

(* Whoever comes with a token after its logout was answered is not let in, be the list
   out of reach or not; only a token that runs out between the two checks slips through. *)
NobodyEntersAfterLogout ==
    [][\A r \in Requests :
         late[r] /\ pc[r] = "verified" /\ pc'[r] = "admitted" => RunOut(token[r])]_vars
=============================================================================

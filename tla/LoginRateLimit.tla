--------------------------- MODULE LoginRateLimit ---------------------------
(***************************************************************************)
(* The limit on login attempts: express-rate-limit in front of POST           *)
(* /auth/login, counting in Redis with RedisRateLimitStore.  The count is one *)
(* step (MULTI); the middleware decides in another, with time and other       *)
(* requests in between, and every instance of the API shares the counters.    *)
(* A connection that breaks before the answer is in makes the client send the *)
(* MULTI again, and Redis may count the same attempt again; without an answer *)
(* in the end the request goes through.                                       *)
(***************************************************************************)
EXTENDS Naturals, FiniteSets

CONSTANTS
    Clients,     \* the addresses that requests come from
    Requests,    \* login requests, each made once
    Limit,       \* LOGIN_RATE_LIMIT_MAX_ATTEMPTS
    Window,      \* LOGIN_RATE_LIMIT_WINDOW_MINUTES, in ticks
    Resends,     \* bound on how often one MULTI is sent again
    MaxTime,     \* bound on the clock
    Faults,      \* whether Redis may fail
    Never,       \* no time
    Nobody       \* who made a request that was not made yet

ASSUME RateLimitAssumption ==
    /\ IsFiniteSet(Requests)
    /\ Limit \in Nat \ {0} /\ Window \in Nat \ {0} /\ Resends \in Nat /\ MaxTime \in Nat
    /\ Faults \in BOOLEAN /\ Never \notin Nat /\ Nobody \notin Clients

VARIABLES
    now,        \* the clock
    hits,       \* the counter kept for each client, 0 when there is no key
    expires,    \* when its key goes
    client,     \* who made each request
    pc,         \* "idle", "waiting", "decide", "admitted" or "refused"
    sent,       \* how often the request's MULTI was sent
    total,      \* totalHits, as increment returned it
    counted     \* history: when Redis counted each sending

vars == <<now, hits, expires, client, pc, sent, total, counted>>

(* The sendings of the requests' commands, each counted on its own. *)
Sendings == Requests \X (1 .. Resends + 1)

Counted(s) == counted[s] # Never

-----------------------------------------------------------------------------
Init ==
    /\ now = 0
    /\ hits = [c \in Clients |-> 0]
    /\ expires = [c \in Clients |-> Never]
    /\ client = [r \in Requests |-> Nobody]
    /\ pc = [r \in Requests |-> "idle"]
    /\ sent = [r \in Requests |-> 0]
    /\ total = [r \in Requests |-> 0]
    /\ counted = [s \in Sendings |-> Never]

Tick ==
    /\ now < MaxTime
    /\ now' = now + 1
    /\ UNCHANGED <<hits, expires, client, pc, sent, total, counted>>

(* Redis lets go of a key when its time has come. *)
Gone(c) == expires[c] # Never /\ expires[c] <= now

HitsForever(c) == hits[c]

Hits(c) == IF Gone(c) THEN 0 ELSE hits[c]

ExpiryForgotten(c) == expires[c]

ExpiryTooSoon(c) ==
    IF expires[c] = Never \/ Gone(c) THEN now + Window - 1 ELSE expires[c]

(* PEXPIRE NX: only a key that does not expire yet. *)
Expiry(c) == IF expires[c] = Never \/ Gone(c) THEN now + Window ELSE expires[c]

(* A request reaches the limiter; its MULTI is on the connection, or there is none and the
   client, which keeps no offline queue, rejects it: FAIL_OPEN_HITS. *)
Arrive(r, c) ==
    /\ pc[r] = "idle"
    /\ client' = [client EXCEPT ![r] = c]
    /\ \/ /\ pc' = [pc EXCEPT ![r] = "waiting"]
          /\ sent' = [sent EXCEPT ![r] = 1]
       \/ /\ Faults
          /\ pc' = [pc EXCEPT ![r] = "decide"]
          /\ UNCHANGED sent
    /\ UNCHANGED <<now, hits, expires, total, counted>>

(* MULTI: INCR, PEXPIRE NX and PTTL, the k-th time that r's command was sent. *)
Count(r, k) ==
    LET c == client[r] IN
    /\ k \in 1 .. sent[r] /\ ~Counted(<<r, k>>)
    /\ hits' = [hits EXCEPT ![c] = Hits(c) + 1]
    /\ expires' = [expires EXCEPT ![c] = Expiry(c)]
    /\ counted' = [counted EXCEPT ![<<r, k>>] = now]

(* The answer comes back on the connection it was sent on, if that still stands. *)
Increment(r) ==
    /\ pc[r] = "waiting"
    /\ Count(r, sent[r])
    /\ pc' = [pc EXCEPT ![r] = "decide"]
    /\ total' = [total EXCEPT ![r] = Hits(client[r]) + 1]
    /\ UNCHANGED <<now, client, sent>>

(* Redis counts, and nobody is told: the connection broke after it had read the command,
   which may be while the client already sends it again, or after it gave up. *)
ReplyLost(r, k) ==
    /\ Faults
    /\ Count(r, k)
    /\ UNCHANGED <<now, client, pc, sent, total>>

(* The connection broke, and is back: ioredis sends what was not answered. *)
Resend(r) ==
    /\ Faults
    /\ pc[r] = "waiting" /\ sent[r] <= Resends
    /\ sent' = [sent EXCEPT ![r] = @ + 1]
    /\ UNCHANGED <<now, hits, expires, client, pc, total, counted>>

(* It does not come back in COMMAND_RETRIES attempts, or broke within the answer: the
   command is rejected, FAIL_OPEN_HITS. *)
IncrementFails(r) ==
    /\ Faults
    /\ pc[r] = "waiting"
    /\ pc' = [pc EXCEPT ![r] = "decide"]
    /\ UNCHANGED <<now, hits, expires, client, sent, total, counted>>

AdmitsOneMore(r) == total[r] <= Limit + 1

Admits(r) == total[r] <= Limit

Decide(r) ==
    /\ pc[r] = "decide"
    /\ pc' = [pc EXCEPT ![r] = IF Admits(r) THEN "admitted" ELSE "refused"]
    /\ UNCHANGED <<now, hits, expires, client, sent, total, counted>>

Next ==
    \/ Tick
    \/ \E r \in Requests, c \in Clients : Arrive(r, c)
    \/ \E s \in Sendings : ReplyLost(s[1], s[2])
    \/ \E r \in Requests : Increment(r) \/ Resend(r) \/ IncrementFails(r) \/ Decide(r)

Spec == Init /\ [][Next]_vars

-----------------------------------------------------------------------------
(* Types; a counter without a key is 0, a key is gone a window after it was made, and a
   request without a count is let through. *)
TypeOK ==
    /\ now \in 0..MaxTime
    /\ hits \in [Clients -> 0..Cardinality(Sendings)]
    /\ client \in [Requests -> Clients \cup {Nobody}]
    /\ pc \in [Requests -> {"idle", "waiting", "decide", "admitted", "refused"}]
    /\ sent \in [Requests -> 0..(Resends + 1)]
    /\ total \in [Requests -> 0..Cardinality(Sendings)]
    /\ counted \in [Sendings -> (0..MaxTime) \cup {Never}]
    /\ \A c \in Clients :
         /\ hits[c] = 0 <=> expires[c] = Never
         /\ expires[c] # Never => expires[c] \in 1..(now + Window)
    /\ \A r \in Requests : pc[r] = "refused" => Counted(<<r, sent[r]>>)

(* The sending that r was told the count of, if any. *)
Told(r) == <<r, sent[r]>>

(* What Redis counted for c in the window that ends at t. *)
CountedIn(c, t) ==
    {s \in Sendings : client[s[1]] = c /\ Counted(s)
                      /\ counted[s] <= t /\ t < counted[s] + Window}

(* Requests of c that got past the limiter with a count of that window. *)
PassedIn(c, t) ==
    {r \in Requests : pc[r] = "admitted" /\ total[r] > 0 /\ Told(r) \in CountedIn(c, t)}

(* A client gets less than two windows' worth of attempts past the limiter in any stretch
   of a window's length, of those that Redis answered for: Limit - 1 at the end of one key
   and Limit of the next, and so with a limit of one a single attempt. *)
LessThanTwoWindowsWorth ==
    \A c \in Clients, t \in 0..now : Cardinality(PassedIn(c, t)) < 2 * Limit

(* Nobody is refused for what others did, or for what he did more than a window ago: Redis
   has counted more than Limit sendings of his own attempts in the window that ends with
   the one refused.  An attempt counts once, and once more for each break of the connection
   after which it was sent again. *)
RefusalsAreDeserved ==
    \A r \in Requests :
        pc[r] = "refused" => Cardinality(CountedIn(client[r], counted[Told(r)])) > Limit
=============================================================================

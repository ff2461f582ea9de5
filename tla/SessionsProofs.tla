-------------------------- MODULE SessionsProofs ---------------------------
(***************************************************************************)
(* Proofs about Sessions.tla, for any number of tokens and requests, any      *)
(* lifetime and any number of ticks in a second.                            *)
(***************************************************************************)
EXTENDS Sessions, TLAPS

USE SessionAssumption

(* The tick at which a token runs out. *)
Ends(t) == exp[t] * Second

(* What the revoked list has of a token lasts as long as the token, or the token is over. *)
Outlived(t) ==
    /\ exp[t] \in Nat
    /\ now >= Ends(t) \/ (revoked[t] # Null /\ revoked[t] >= Ends(t))

RequestOK(r) ==
    /\ pc[r] # "idle" => token[r] \in Tokens /\ exp[token[r]] \in Nat
    /\ pc[r] = "set" => ttl[r] \in Int /\ now + ttl[r] * Second >= Ends(token[r])
    /\ pc[r] = "loggedOut" => Outlived(token[r])
    /\ late[r] => token[r] \in loggedOut

IInv ==
    /\ TypeOK
    /\ \A r \in Requests : RequestOK(r)
    /\ \A t \in loggedOut : Outlived(t)

-----------------------------------------------------------------------------
(* The two roundings: whole seconds down, and what is left of a token up. *)
LEMMA DivisionFacts ==
  ASSUME NEW x \in Int
  PROVE  /\ x \div Second \in Int
         /\ (x \div Second) * Second <= x
         /\ x < (x \div Second) * Second + Second
BY Z3

LEMMA RoundingUp ==
  ASSUME NEW x \in Int
  PROVE  /\ (x + Second - 1) \div Second \in Int
         /\ ((x + Second - 1) \div Second) * Second >= x
<1>1. x + Second - 1 \in Int
  OBVIOUS
<1> DEFINE y == x + Second - 1
<1>2. y \div Second \in Int /\ y < (y \div Second) * Second + Second
  BY <1>1, DivisionFacts
<1>3. (y \div Second) * Second \in Int
  BY <1>2
<1> QED BY <1>2, <1>3

LEMMA RunsOutAtItsEnd ==
  ASSUME TypeOK, NEW t \in Tokens, exp[t] \in Nat, now >= Ends(t)
  PROVE  RunOut(t)
<1>1. now \in Int
  BY DEF TypeOK
<1> DEFINE q == now \div Second
<1>2. q \in Int /\ now < q * Second + Second
  BY <1>1, DivisionFacts
<1>3. exp[t] * Second < (q + 1) * Second
  BY <1>1, <1>2 DEF Ends
<1> HIDE DEF q
<1>4. exp[t] < q + 1
  BY <1>2, <1>3, Z3
<1>5. exp[t] <= q
  BY <1>2, <1>4
<1> QED BY <1>5 DEF RunOut, q

-----------------------------------------------------------------------------
(* Outlived(t) only depends on its time, and is not undone by time or by another SET. *)
LEMMA OutlivedStays ==
  ASSUME TypeOK, NEW t \in Tokens, Outlived(t), exp'[t] = exp[t], now' \in Nat, now' >= now,
         \/ revoked'[t] = revoked[t]
         \/ revoked'[t] \in Nat /\ revoked'[t] >= Ends(t)
  PROVE  Outlived(t)'
<1>1. now \in Nat /\ Ends(t) \in Int
  BY DEF TypeOK, Outlived, Ends
<1>2. Ends(t)' = Ends(t)
  BY DEF Ends
<1>3. CASE now >= Ends(t)
  BY <1>1, <1>2, <1>3 DEF Outlived
<1>4. CASE revoked[t] # Null /\ revoked[t] >= Ends(t)
  BY <1>2, <1>4 DEF Outlived
<1> QED BY <1>3, <1>4 DEF Outlived

LEMMA Typed ==
  ASSUME IInv, [Next]_vars
  PROVE  TypeOK'
<1> USE DEF IInv, TypeOK, Steps, request
<1>1. CASE Tick
  BY <1>1 DEF Tick
<1>2. ASSUME NEW t \in Tokens, Login(t) PROVE TypeOK'
  <2>1. now \div Second \in Nat
    BY DivisionFacts, Z3
  <2> QED BY <1>2, <2>1 DEF Login
<1>3. ASSUME NEW r \in Requests, NEW t \in Tokens, NEW k \in {"call", "logout"}, Verify(r, t, k)
      PROVE  TypeOK'
  BY <1>3 DEF Verify
<1>4. ASSUME NEW r \in Requests, CheckRevoked(r) \/ Serve(r) PROVE TypeOK'
  BY <1>4 DEF CheckRevoked, Serve, Goto
<1>5. ASSUME NEW r \in Requests, Logout(r) PROVE TypeOK'
  <2>1. TtlFor(token[r]) \in Int
    <3>1. exp[token[r]] \in Nat
      BY <1>5 DEF Logout, RequestOK
    <3>2. exp[token[r]] * Second - now \in Int
      BY <3>1
    <3> QED BY <3>2, RoundingUp DEF TtlFor
  <2> QED BY <1>5, <2>1 DEF Logout, Goto
<1>6. ASSUME NEW r \in Requests, Revoke(r) PROVE TypeOK'
  <2>1. ttl[r] \in Int /\ ttl[r] >= 1 /\ token[r] \in Tokens
    BY <1>6 DEF Revoke, RequestOK
  <2>2. now + ttl[r] * Second \in Nat
    BY <2>1
  <2> QED BY <1>6, <2>1, <2>2 DEF Revoke, Goto
<1>7. ASSUME NEW r \in Requests, Answer(r) PROVE TypeOK'
  BY <1>7 DEF Answer, RequestOK
<1>8. CASE UNCHANGED vars
  BY <1>8 DEF vars
<1> QED BY <1>1, <1>2, <1>3, <1>4, <1>5, <1>6, <1>7, <1>8 DEF Next

LEMMA Later ==
  ASSUME NEW a \in Int, NEW b \in Int, NEW c \in Int, NEW d \in Int, a + c >= d, b >= a
  PROVE  b + c >= d
OBVIOUS

LEMMA RequestsStay ==
  ASSUME IInv, NEW r \in Requests,
         pc'[r] = pc[r], token'[r] = token[r], late'[r] = late[r], ttl'[r] = ttl[r],
         now' \in Nat, now' >= now, loggedOut \subseteq loggedOut',
         \A t \in Tokens : exp[t] \in Nat => exp'[t] = exp[t],
         \A t \in Tokens : Outlived(t) => Outlived(t)'
  PROVE  RequestOK(r)'
<1>1. RequestOK(r) /\ now \in Nat
  BY DEF IInv, TypeOK
<1>2. pc[r] = "set" => Ends(token[r])' = Ends(token[r]) /\ Ends(token[r]) \in Int
                       /\ ttl[r] * Second \in Int
  BY <1>1 DEF RequestOK, Ends, IInv, TypeOK
<1>3. pc'[r] = "set" => ttl'[r] \in Int /\ now' + ttl'[r] * Second >= Ends(token[r])'
  <2> SUFFICES ASSUME pc[r] = "set"
               PROVE  ttl[r] \in Int /\ now' + ttl[r] * Second >= Ends(token[r])'
    OBVIOUS
  <2>1. now + ttl[r] * Second >= Ends(token[r]) /\ ttl[r] \in Int
    BY <1>1 DEF RequestOK
  <2> DEFINE left == ttl[r] * Second
             ends == Ends(token[r])
  <2>2. left \in Int /\ ends \in Int /\ now + left >= ends /\ Ends(token[r])' = ends
    BY <1>2, <2>1
  <2> HIDE DEF left, ends
  <2>3. now \in Int /\ now' \in Int
    BY <1>1
  <2>4. now' + left >= ends
    BY <2>2, <2>3, Later
  <2> QED BY <2>1, <2>2, <2>4 DEF left
<1>4. pc'[r] = "loggedOut" => Outlived(token[r])'
  BY <1>1 DEF RequestOK
<1> QED BY <1>1, <1>3, <1>4 DEF RequestOK, Ends, Outlived

LEMMA Kept ==
  ASSUME IInv, [Next]_vars
  PROVE  IInv'
<1>1. TypeOK'
  BY Typed
<1> USE DEF IInv, request
<1>2. CASE Tick \/ UNCHANGED vars
  <2>1. /\ now' \in Nat /\ now' >= now
        /\ UNCHANGED <<exp, revoked, pc, token, late, ttl, loggedOut>>
    BY <1>2 DEF Tick, vars, TypeOK
  <2>2. \A t \in Tokens : Outlived(t) => Outlived(t)'
    BY <2>1, OutlivedStays
  <2>3. \A r \in Requests : RequestOK(r)'
    BY <2>1, <2>2, RequestsStay
  <2> QED BY <1>1, <2>1, <2>2, <2>3 DEF TypeOK
<1>3. ASSUME NEW t \in Tokens, Login(t) PROVE IInv'
  <2>1. /\ now' \in Nat /\ now' >= now
        /\ UNCHANGED <<revoked, pc, token, late, ttl, loggedOut>>
        /\ \A u \in Tokens : exp[u] \in Nat => exp'[u] = exp[u]
    BY <1>3 DEF Login, TypeOK
  <2>2. \A u \in Tokens : Outlived(u) => Outlived(u)'
    BY <2>1, OutlivedStays DEF Outlived
  <2>3. \A r \in Requests : RequestOK(r)'
    BY <2>1, <2>2, RequestsStay
  <2> QED BY <1>1, <2>1, <2>2, <2>3 DEF TypeOK
<1>4. ASSUME NEW r \in Requests,
             \/ \E t \in Tokens, k \in {"call", "logout"} : Verify(r, t, k)
             \/ CheckRevoked(r) \/ Serve(r) \/ Logout(r) \/ Revoke(r) \/ Answer(r)
      PROVE  IInv'
  <2>1. /\ now' = now /\ now \in Nat /\ exp' = exp /\ loggedOut \subseteq loggedOut'
        /\ \A q \in Requests \ {r} : /\ pc'[q] = pc[q] /\ token'[q] = token[q]
                                     /\ late'[q] = late[q] /\ ttl'[q] = ttl[q]
    BY <1>4 DEF Verify, CheckRevoked, Serve, Logout, Revoke, Answer, Goto, TypeOK
  <2>2. \A t \in Tokens :
           \/ revoked'[t] = revoked[t]
           \/ revoked'[t] \in Nat /\ revoked'[t] >= Ends(t)
    <3>1. CASE Revoke(r)
      <4>1. /\ now + ttl[r] * Second >= Ends(token[r]) /\ token[r] \in Tokens
            /\ revoked' \in {revoked, [revoked EXCEPT ![token[r]] = now + ttl[r] * Second]}
        BY <3>1 DEF Revoke, RequestOK
      <4> QED BY <1>1, <4>1, <3>1 DEF TypeOK, Revoke, RequestOK
    <3>2. CASE ~Revoke(r)
      BY <1>4, <3>2 DEF Verify, CheckRevoked, Serve, Logout, Answer
    <3> QED BY <3>1, <3>2
  <2>3. \A t \in Tokens : Outlived(t) => Outlived(t)'
    BY <2>1, <2>2, OutlivedStays
  <2>4. \A q \in Requests \ {r} : RequestOK(q)'
    BY <2>1, <2>3, RequestsStay
  <2>5. RequestOK(r)'
    <3>1. ASSUME NEW t \in Tokens, NEW k \in {"call", "logout"}, Verify(r, t, k)
          PROVE  RequestOK(r)'
      BY <3>1 DEF Verify, RequestOK, TypeOK
    <3>2. CASE CheckRevoked(r) \/ Serve(r)
      BY <3>2, <2>1 DEF CheckRevoked, Serve, Goto, RequestOK, TypeOK
    <3>3. CASE Logout(r)
      <4> DEFINE t == token[r]
                 left == Ends(t) - now
      <4>1. t \in Tokens /\ exp[t] \in Nat /\ token' = token /\ late' = late /\ exp' = exp
            /\ loggedOut' = loggedOut /\ now' = now /\ revoked' = revoked
            /\ ttl'[r] = TtlFor(t)
            /\ pc'[r] = IF TtlFor(t) < 1 THEN "loggedOut" ELSE "set"
        BY <3>3 DEF Logout, Goto, RequestOK, TypeOK
      <4>2. left \in Int /\ Ends(t) \in Int /\ now \in Int
        BY <2>1, <4>1 DEF Ends
      <4>3. TtlFor(t) = (left + Second - 1) \div Second
        BY DEF TtlFor, Ends
      <4>4. TtlFor(t) \in Int /\ TtlFor(t) * Second >= left
        BY <4>2, <4>3, RoundingUp
      <4> DEFINE n == TtlFor(t)
                 ends == Ends(t)
      <4>5. ends' = ends
        BY <4>1 DEF Ends
      <4>6. n \in Int /\ n * Second >= ends - now /\ ends \in Int
        BY <4>2, <4>4
      <4> HIDE DEF n, ends
      <4>7. now + n * Second >= ends
        BY <4>2, <4>6
      <4>8. n < 1 => n * Second <= 0
        BY <4>6, Z3
      <4>9. n < 1 => now >= ends
        BY <4>2, <4>6, <4>8
      <4>10. n < 1 => Outlived(t)'
        BY <4>1, <4>5, <4>9 DEF Outlived, ends
      <4>11. n >= 1 => pc'[r] = "set"
        BY <4>1, <4>6 DEF n
      <4> QED BY <4>1, <4>5, <4>6, <4>7, <4>10, <4>11 DEF RequestOK, n, ends
    <3>4. CASE Revoke(r)
      <4>1. CASE pc'[r] = "rejected"
        BY <3>4, <4>1, <2>1 DEF Revoke, Goto, RequestOK
      <4>2. CASE pc'[r] # "rejected"
        <5>1. /\ token[r] \in Tokens /\ exp[token[r]] \in Nat
              /\ pc'[r] = "loggedOut" /\ token' = token /\ late' = late
              /\ revoked'[token[r]] = now + ttl[r] * Second
              /\ now + ttl[r] * Second >= Ends(token[r])
              /\ ttl[r] * Second \in Int
          BY <3>4, <4>2 DEF Revoke, Goto, RequestOK, TypeOK
        <5>2. revoked'[token[r]] # Null
          BY <2>1, <5>1
        <5> QED BY <2>1, <5>1, <5>2 DEF RequestOK, Outlived, Ends
      <4> QED BY <4>1, <4>2
    <3>5. CASE Answer(r)
      BY <3>5 DEF Answer, RequestOK, TypeOK
    <3> QED BY <1>4, <3>1, <3>2, <3>3, <3>4, <3>5
  <2>6. \A t \in loggedOut' : Outlived(t)'
    <3>1. CASE Answer(r) /\ pc[r] = "loggedOut"
      BY <2>3, <3>1 DEF Answer, RequestOK, TypeOK
    <3>2. CASE ~(Answer(r) /\ pc[r] = "loggedOut")
      <4>1. loggedOut' = loggedOut
        BY <1>4, <3>2 DEF Verify, CheckRevoked, Serve, Logout, Revoke, Answer
      <4> QED BY <2>3, <4>1 DEF TypeOK
    <3> QED BY <3>1, <3>2
  <2> QED BY <1>1, <2>4, <2>5, <2>6
<1> QED BY <1>2, <1>3, <1>4 DEF Next

-----------------------------------------------------------------------------
(* The inductive invariant: a ttl in hand, and a key that was set, reach to the end of the
   token. *)
THEOREM Invariant == Spec => []IInv
<1>1. Init => IInv
  BY DEF Init, IInv, TypeOK, Steps, RequestOK
<1>2. IInv /\ [Next]_vars => IInv'
  BY Kept
<1> QED BY <1>1, <1>2, PTL DEF Spec

LEMMA RevokedOrRunOut ==
  ASSUME IInv
  PROVE  LoggedOutUntilRunOut
<1> SUFFICES ASSUME NEW t \in loggedOut PROVE IsRevoked(t) \/ RunOut(t)
  BY DEF LoggedOutUntilRunOut
<1>1. t \in Tokens /\ Outlived(t) /\ TypeOK
  BY DEF IInv, TypeOK
<1>2. CASE now >= Ends(t)
  BY <1>1, <1>2, RunsOutAtItsEnd DEF Outlived
<1>3. CASE now < Ends(t)
  <2>1. revoked[t] # Null /\ revoked[t] >= Ends(t) /\ revoked[t] \in Nat /\ now \in Nat
    BY <1>1, <1>3 DEF Outlived, TypeOK, Ends
  <2>2. Ends(t) \in Int
    BY <1>1 DEF Outlived, Ends
  <2> QED BY <1>3, <2>1, <2>2 DEF IsRevoked
<1>4. now \in Int /\ Ends(t) \in Int
  BY <1>1 DEF Outlived, Ends, TypeOK
<1> QED BY <1>2, <1>3, <1>4

(* The types of every variable, whatever the lifetime and however many tokens: what the use
   cases read of a token is there when they use it. *)
THEOREM TypeCorrect == Spec => []TypeOK
BY Invariant, PTL DEF IInv

(* A session that was logged out is on the revoked list until its token has run out,
   whatever a second is divided into and however late the SET arrives. *)
THEOREM LoggedOutStaysOut == Spec => []LoggedOutUntilRunOut
BY Invariant, RevokedOrRunOut, PTL

(* Nobody who comes after the logout was answered is let in. *)
THEOREM LogoutIsFinal == Spec => NobodyEntersAfterLogout
<1>1. IInv /\ [Next]_vars =>
        [\A r \in Requests :
           late[r] /\ pc[r] = "verified" /\ pc'[r] = "admitted" => RunOut(token[r])]_vars
  <2> SUFFICES ASSUME IInv, [Next]_vars, NEW r \in Requests,
                      late[r], pc[r] = "verified", pc'[r] = "admitted"
               PROVE  RunOut(token[r])
    OBVIOUS
  <2>1. CheckRevoked(r)
    BY DEF IInv, TypeOK, vars, Next, Tick, Login, Verify, CheckRevoked, Serve, Logout, Revoke,
       Answer, Goto
  <2>2. ~IsRevoked(token[r])
    BY <2>1 DEF CheckRevoked, Goto, IInv, TypeOK
  <2>3. token[r] \in loggedOut
    BY DEF IInv, RequestOK
  <2> QED BY <2>2, <2>3, RevokedOrRunOut DEF LoggedOutUntilRunOut
<1> QED BY Invariant, <1>1, PTL DEF Spec, NobodyEntersAfterLogout
=============================================================================

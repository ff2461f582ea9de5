------------------------ MODULE LoginRateLimitProofs ------------------------
(***************************************************************************)
(* Proofs about LoginRateLimit.tla, for any limit and window, any number of   *)
(* clients and of requests, sent again any number of times, and with Redis     *)
(* failing.                                                                 *)
(***************************************************************************)
EXTENDS LoginRateLimit, Integers, FiniteSetTheorems, TLAPS

USE RateLimitAssumption

(* Whose counter a sending goes to. *)
Of(s) == client[s[1]]

(* The count that was told of a sending, 0 if none was. *)
TotalOf(s) == IF s = Told(s[1]) THEN total[s[1]] ELSE 0

(* What the counter of c stands for. *)
InWindow(c) ==
    {s \in Sendings : Of(s) = c /\ Counted(s) /\ counted[s] + Window >= expires[c]}

Types ==
    /\ now \in Nat /\ now <= MaxTime
    /\ hits \in [Clients -> Nat]
    /\ expires \in [Clients -> Nat \cup {Never}]
    /\ client \in [Requests -> Clients \cup {Nobody}]
    /\ pc \in [Requests -> {"idle", "waiting", "decide", "admitted", "refused"}]
    /\ sent \in [Requests -> 0 .. Resends + 1]
    /\ total \in [Requests -> Nat]
    /\ counted \in [Sendings -> Nat \cup {Never}]

ClientOK(c) ==
    /\ hits[c] = 0 <=> expires[c] = Never
    /\ expires[c] # Never => /\ expires[c] \in 1 .. (now + Window)
                             /\ hits[c] = Cardinality(InWindow(c))

RequestOK(r) ==
    /\ pc[r] = "idle" => sent[r] = 0
    /\ pc[r] # "idle" => client[r] \in Clients
    /\ pc[r] \in {"idle", "waiting"} => total[r] = 0
    /\ total[r] > 0 => /\ sent[r] > 0 /\ Counted(Told(r))
                       /\ total[r] <= Cardinality(CountedIn(client[r], counted[Told(r)]))
    /\ pc[r] = "refused" => total[r] > Limit
    /\ pc[r] = "admitted" => total[r] <= Limit

SendingOK(s) ==
    Counted(s) => /\ s[2] <= sent[s[1]]
                  /\ Of(s) \in Clients
                  /\ counted[s] <= now
                  /\ expires[Of(s)] # Never /\ counted[s] < expires[Of(s)]

(* When the key under which each sending was counted was made: a key lasts for a window,
   the next one of the client is not made before, the first count makes it, and under one
   key no two sendings are told the same count. *)
Opened(f) ==
    /\ f \in [Sendings -> Int]
    /\ \A s \in Sendings : Counted(s) =>
         /\ f[s] <= counted[s] /\ counted[s] < f[s] + Window
         /\ TotalOf(s) = 1 => f[s] = counted[s]
         /\ \/ f[s] + Window = expires[Of(s)] /\ TotalOf(s) <= hits[Of(s)]
            \/ f[s] + Window + Window <= expires[Of(s)]
    /\ \A q, s \in Sendings : Counted(q) /\ Counted(s) /\ Of(q) = Of(s) =>
         /\ f[q] = f[s] \/ f[q] + Window <= f[s] \/ f[s] + Window <= f[q]
         /\ f[q] = f[s] /\ TotalOf(q) = TotalOf(s) /\ TotalOf(s) > 0 => q = s

(* No variable keeps those times, but there are such. *)
IInv ==
    /\ Types
    /\ \A c \in Clients : ClientOK(c)
    /\ \A r \in Requests : RequestOK(r)
    /\ \A s \in Sendings : SendingOK(s)
    /\ \E f \in [Sendings -> Int] : Opened(f)

-----------------------------------------------------------------------------
LEMMA SendingFacts ==
  /\ \A s \in Sendings : /\ s[1] \in Requests /\ s[2] \in 1 .. Resends + 1
                         /\ s = <<s[1], s[2]>>
  /\ \A r \in Requests, k \in 1 .. Resends + 1 :
       <<r, k>> \in Sendings /\ <<r, k>>[1] = r /\ <<r, k>>[2] = k
BY DEF Sendings

LEMMA CountsAreFinite ==
  ASSUME NEW S \in SUBSET Sendings
  PROVE  /\ IsFiniteSet(S) /\ Cardinality(S) \in Nat
         /\ Cardinality(S) <= Cardinality(Sendings) /\ Cardinality(Sendings) \in Nat
<1>1. IsFiniteSet(1 .. Resends + 1)
  BY FS_Interval
<1>2. IsFiniteSet(Sendings)
  BY <1>1, FS_Product DEF Sendings
<1> QED BY <1>2, FS_Subset, FS_CardinalityType

LEMMA CountsGrow ==
  ASSUME NEW T \in SUBSET Sendings, NEW S \in SUBSET T
  PROVE  Cardinality(S) <= Cardinality(T)
BY FS_Subset, CountsAreFinite

LEMMA InitInvariant == Init => IInv
<1> SUFFICES ASSUME Init PROVE IInv
  OBVIOUS
<1>1. Opened([s \in Sendings |-> 0])
  BY DEF Init, Opened, Counted
<1>2. \A s \in Sendings : ~Counted(s)
  BY DEF Init, Counted
<1> QED BY <1>1, <1>2 DEF Init, IInv, Types, ClientOK, RequestOK, SendingOK

(* What a step that counts nothing may do to a request. *)
Advances(r) ==
    /\ pc[r] # "idle" => client'[r] = client[r] /\ pc'[r] # "idle"
    /\ pc'[r] # "idle" => client'[r] \in Clients
    /\ pc'[r] = "idle" => sent'[r] = 0
    /\ pc'[r] = "waiting" => pc[r] \in {"idle", "waiting"}
    /\ sent'[r] = sent[r] \/ (sent'[r] > sent[r] /\ total[r] = 0)
    /\ pc'[r] = "refused" => pc[r] = "refused" \/ total[r] > Limit
    /\ pc'[r] = "admitted" => pc[r] = "admitted" \/ total[r] <= Limit

(* A step that counts nothing: what was counted, and what was told, stays. *)
LEMMA UncountedInvariant ==
  ASSUME IInv, Types', UNCHANGED <<hits, expires, total, counted>>, now <= now',
         \A r \in Requests : Advances(r)
  PROVE  IInv'
<1>0. /\ Types /\ \A r \in Requests : RequestOK(r)
      /\ \A s \in Sendings : SendingOK(s)
  BY DEF IInv
<1>1. ASSUME NEW s \in Sendings
      PROVE  /\ Counted(s)' = Counted(s) /\ counted'[s] = counted[s]
             /\ Counted(s) => Of(s)' = Of(s) /\ s[2] <= sent'[s[1]]
             /\ TotalOf(s)' = TotalOf(s)
  <2>1. s[1] \in Requests /\ s[2] \in 1 .. Resends + 1
    BY SendingFacts
  <2>2. Counted(s) => s[2] <= sent[s[1]] /\ pc[s[1]] # "idle"
    BY <1>0, <2>1 DEF SendingOK, RequestOK, Types
  <2>3. /\ sent'[s[1]] = sent[s[1]] \/ (sent'[s[1]] > sent[s[1]] /\ total[s[1]] = 0)
        /\ pc[s[1]] # "idle" => client'[s[1]] = client[s[1]]
        /\ sent[s[1]] \in Nat /\ sent'[s[1]] \in Nat
    BY <1>0, <2>1 DEF Advances, Types
  <2>4. TotalOf(s)' = TotalOf(s)
    BY <2>1, <2>3 DEF TotalOf, Told
  <2>5. Counted(s)' = Counted(s) /\ counted'[s] = counted[s]
    BY DEF Counted
  <2>6. Counted(s) => Of(s)' = Of(s) /\ s[2] <= sent'[s[1]]
    BY <2>1, <2>2, <2>3 DEF Of
  <2> QED BY <2>4, <2>5, <2>6
<1>2. \A c, t : CountedIn(c, t)' = CountedIn(c, t)
  BY <1>1 DEF CountedIn, Of
<1>3. \A c \in Clients : ClientOK(c)'
  <2>1. ASSUME NEW c \in Clients PROVE InWindow(c)' = InWindow(c)
    BY <1>1 DEF InWindow
  <2> QED BY <2>1 DEF IInv, Types, ClientOK
<1>4. ASSUME NEW r \in Requests PROVE RequestOK(r)'
  <2>1. ASSUME total[r] > 0
        PROVE  /\ sent'[r] > 0 /\ Counted(Told(r))'
               /\ total[r] <= Cardinality(CountedIn(client[r], counted[Told(r)])')
               /\ client'[r] = client[r]
    <3>1. /\ sent'[r] = sent[r] /\ Told(r)' = Told(r)
          /\ sent[r] > 0 /\ Counted(Told(r)) /\ pc[r] # "idle"
          /\ total[r] <= Cardinality(CountedIn(client[r], counted[Told(r)]))
      BY <1>0, <2>1 DEF Advances, RequestOK, Types, Told
    <3>2. client'[r] = client[r]
      BY <3>1 DEF Advances
    <3>3. counted'[Told(r)'] = counted[Told(r)] /\ Counted(Told(r))'
      BY <3>1 DEF Counted
    <3>4. CountedIn(client[r], counted[Told(r)])' = CountedIn(client[r], counted[Told(r)])
      <4>1. PICK d, t : d = client[r] /\ t = counted[Told(r)]
        OBVIOUS
      <4>2. CountedIn(client[r], counted[Told(r)])' = CountedIn(d, t)'
        BY <3>2, <3>3, <4>1 DEF CountedIn
      <4> QED BY <1>2, <4>1, <4>2
    <3> QED BY <3>1, <3>2, <3>3, <3>4
  <2> QED BY <1>0, <2>1 DEF Advances, RequestOK, Types
<1>5. ASSUME NEW s \in Sendings PROVE SendingOK(s)'
  <2>1. Counted(s) => counted[s] \in Nat
    BY <1>0 DEF Types, Counted
  <2>2. Counted(s) => expires'[Of(s)'] = expires[Of(s)]
    BY <1>1
  <2> QED BY <1>0, <1>1, <2>1, <2>2 DEF SendingOK, Types
<1>6. \E f \in [Sendings -> Int] : Opened(f)'
  <2>1. PICK f \in [Sendings -> Int] : Opened(f)
    BY DEF IInv
  <2>2. Opened(f)'
    BY <1>1, <2>1 DEF Opened
  <2> QED BY <2>2
<1> QED BY <1>3, <1>4, <1>5, <1>6 DEF IInv

-----------------------------------------------------------------------------
(* The key that is counted under is the client's last, or a new one. *)
LEMMA KeyFacts ==
  ASSUME IInv, NEW c \in Clients
  PROVE  /\ Expiry(c) \in Nat /\ Hits(c) \in Nat
         /\ now < Expiry(c) /\ Expiry(c) <= now + Window
         /\ \/ Expiry(c) = expires[c] /\ Hits(c) = hits[c] /\ hits[c] > 0
            \/ /\ Expiry(c) = now + Window /\ Hits(c) = 0
               /\ expires[c] = Never \/ expires[c] <= now
BY DEF IInv, Types, ClientOK, Expiry, Hits, Gone

(* A step that counts a sending, whether or not the request is told the count. *)
LEMMA CountedInvariant ==
  ASSUME IInv, Types', NEW r \in Requests, NEW k \in 1 .. Resends + 1, Count(r, k),
         UNCHANGED <<now, client, sent>>,
         \/ UNCHANGED <<pc, total>>
         \/ /\ pc[r] = "waiting" /\ k = sent[r]
            /\ pc' = [pc EXCEPT ![r] = "decide"]
            /\ total' = [total EXCEPT ![r] = Hits(client[r]) + 1]
  PROVE  IInv'
<1> DEFINE c == client[r]
           x == <<r, k>>
           W == InWindow(c)
           e == Expiry(c)
<1>0. /\ Types /\ \A q \in Requests : RequestOK(q)
      /\ \A s \in Sendings : SendingOK(s)
  BY DEF IInv
<1>1. /\ k <= sent[r] /\ ~Counted(x) /\ pc[r] # "idle" /\ c \in Clients
      /\ x \in Sendings /\ x[1] = r /\ x[2] = k /\ Of(x) = c
      /\ ClientOK(c)
  <2>1. k <= sent[r] /\ ~Counted(x)
    BY DEF Count
  <2>2. pc[r] # "idle" /\ c \in Clients
    BY <1>0, <2>1 DEF RequestOK, Types
  <2> QED BY <2>1, <2>2, SendingFacts DEF Of, IInv
<1>2. /\ e \in Nat /\ now < e /\ e <= now + Window
      /\ Hits(c) \in Nat
      /\ \/ e = expires[c] /\ Hits(c) = hits[c] /\ hits[c] > 0
         \/ /\ e = now + Window /\ Hits(c) = 0
            /\ expires[c] = Never \/ expires[c] <= now
  BY <1>1, KeyFacts
<1>3. /\ hits' = [hits EXCEPT ![c] = Hits(c) + 1]
      /\ expires' = [expires EXCEPT ![c] = e]
      /\ counted' = [counted EXCEPT ![x] = now]
      /\ client' = client /\ sent' = sent /\ now' = now
  BY DEF Count
<1> HIDE DEF e
<1>4. ASSUME NEW s \in Sendings \ {x}
      PROVE  /\ counted'[s] = counted[s] /\ Counted(s)' = Counted(s)
             /\ Of(s)' = Of(s) /\ TotalOf(s)' = TotalOf(s)
             /\ Counted(s) => /\ Of(s) \in Clients /\ counted[s] \in Nat /\ counted[s] <= now
                              /\ expires[Of(s)] \in Nat /\ counted[s] < expires[Of(s)]
                              /\ s[2] <= sent[s[1]]
  <2>1. counted'[s] = counted[s] /\ Counted(s)' = Counted(s) /\ Of(s)' = Of(s)
    BY <1>0, <1>3 DEF Types, Counted, Of
  <2>2. TotalOf(s)' = TotalOf(s)
    <3>1. s[1] \in Requests /\ s = <<s[1], s[2]>>
      BY SendingFacts
    <3>2. Told(s[1])' = Told(s[1])
      BY <1>3 DEF Told
    <3>3. s[1] # r => total'[s[1]] = total[s[1]]
      BY <1>0, <3>1 DEF Types
    <3>4. s[1] = r => total'[r] = total[r] \/ s # Told(r)
      BY <3>1 DEF Told
    <3> QED BY <3>2, <3>3, <3>4 DEF TotalOf
  <2>3. Counted(s) => /\ Of(s) \in Clients /\ counted[s] \in Nat /\ counted[s] <= now
                      /\ expires[Of(s)] \in Nat /\ counted[s] < expires[Of(s)]
                      /\ s[2] <= sent[s[1]]
    BY <1>0 DEF SendingOK, Types, Counted
  <2> QED BY <2>1, <2>2, <2>3
<1>5. /\ counted'[x] = now /\ Counted(x)' /\ Of(x)' = c
      /\ expires'[c] = e /\ hits'[c] = Hits(c) + 1
      /\ TotalOf(x)' \in {0, Hits(c) + 1}
      /\ \A d \in Clients \ {c} : expires'[d] = expires[d] /\ hits'[d] = hits[d]
  <2>1. counted'[x] = now /\ Counted(x)' /\ Of(x)' = c
    BY <1>0, <1>1, <1>3 DEF Types, Counted, Of
  <2>2. x = Told(r) => total[r] = 0
    BY <1>0, <1>1 DEF RequestOK, Types
  <2>3. TotalOf(x)' \in {0, Hits(c) + 1}
    <3>1. total'[r] \in {total[r], Hits(c) + 1} /\ Told(r)' = Told(r)
      BY <1>0, <1>3 DEF Types, Told
    <3> QED BY <1>1, <2>2, <3>1 DEF TotalOf
  <2> QED BY <1>0, <1>1, <1>3, <2>1, <2>3 DEF Types
<1>6. /\ x \notin W /\ W \subseteq Sendings
      /\ IsFiniteSet(W) /\ Cardinality(W) \in Nat
      /\ Cardinality(W \cup {x}) = Cardinality(W) + 1
      /\ Cardinality({x}) = 1
  <2>1. x \notin W /\ W \subseteq Sendings
    BY <1>1 DEF InWindow
  <2> HIDE DEF W, x
  <2> QED BY <2>1, CountsAreFinite, FS_AddElement, FS_Singleton
<1> HIDE DEF x
<1>7. Cardinality(InWindow(c)') = Hits(c) + 1
  <2>1. CASE e = expires[c] /\ Hits(c) = hits[c] /\ hits[c] > 0
    <3>1. \A s \in Sendings : s \in InWindow(c)' <=> s = x \/ s \in W
      <4>1. x \in InWindow(c)'
        BY <1>0, <1>1, <1>2, <1>5 DEF InWindow, Types
      <4>2. \A s \in Sendings \ {x} : s \in InWindow(c)' <=> s \in W
        BY <1>3, <1>4, <1>5, <2>1 DEF InWindow
      <4> QED BY <4>1, <4>2
    <3>2. InWindow(c)' = W \cup {x}
      BY <3>1, <1>1, <1>6 DEF InWindow
    <3>3. hits[c] = Cardinality(W)
      BY <1>1, <1>2, <2>1 DEF ClientOK
    <3> QED BY <1>6, <2>1, <3>2, <3>3
  <2>2. CASE /\ e = now + Window /\ Hits(c) = 0
             /\ expires[c] = Never \/ expires[c] <= now
    <3>1. x \in InWindow(c)'
      BY <1>0, <1>1, <1>2, <1>5 DEF InWindow, Types
    <3>2. ASSUME NEW s \in Sendings \ {x} PROVE s \notin InWindow(c)'
      <4>1. Of(s) = c /\ Counted(s) => counted[s] + Window < e
        BY <1>0, <1>2, <1>4, <2>2 DEF Types
      <4>2. Of(s) = c /\ Counted(s) => counted[s] \in Nat
        BY <1>4
      <4> QED BY <1>2, <1>4, <1>5, <4>1, <4>2 DEF InWindow
    <3>3. InWindow(c)' = {x}
      BY <3>1, <3>2 DEF InWindow
    <3> QED BY <1>6, <2>2, <3>3
  <2> QED BY <1>2, <2>1, <2>2
<1>8. \A d \in Clients : ClientOK(d)'
  <2>1. ClientOK(c)'
    <3>1. expires'[c] # Never /\ expires'[c] \in 1 .. (now + Window) /\ hits'[c] > 0
      BY <1>0, <1>2, <1>5 DEF Types
    <3> QED BY <3>1, <1>3, <1>5, <1>7 DEF ClientOK
  <2>2. ASSUME NEW d \in Clients \ {c} PROVE ClientOK(d)'
    <3>1. InWindow(d)' = InWindow(d)
      BY <1>1, <1>4, <1>5 DEF InWindow
    <3> QED BY <3>1, <1>3, <1>5 DEF IInv, ClientOK
  <2> QED BY <2>1, <2>2
<1>9. ASSUME NEW q \in Requests PROVE RequestOK(q)'
  <2>0. ASSUME NEW d, NEW t
        PROVE  /\ CountedIn(d, t) \subseteq CountedIn(d, t)'
               /\ CountedIn(d, t)' \subseteq Sendings /\ CountedIn(d, t) \subseteq Sendings
               /\ Cardinality(CountedIn(d, t)) \in Nat
               /\ Cardinality(CountedIn(d, t)') \in Nat
               /\ Cardinality(CountedIn(d, t)) <= Cardinality(CountedIn(d, t)')
    <3>1. CountedIn(d, t)' \subseteq Sendings /\ CountedIn(d, t) \subseteq Sendings
      BY DEF CountedIn
    <3>2. CountedIn(d, t) \subseteq CountedIn(d, t)'
      BY <1>1, <1>4 DEF CountedIn, Of
    <3> QED BY <3>1, <3>2, CountsAreFinite, CountsGrow
  <2>1. CASE Told(q) = x /\ total'[q] # total[q]
    <3>1. q = r /\ total'[q] = Hits(c) + 1 /\ pc'[r] = "decide" /\ sent'[r] = sent[r]
          /\ total[q] = 0
      BY <1>0, <1>1, <2>1 DEF Types, Told, RequestOK
    <3>2. Told(q)' = x
      BY <1>3, <2>1 DEF Told
    <3>3. CountedIn(c, now)' = CountedIn(client[q], counted[Told(q)])'
      BY <1>3, <1>5, <3>1, <3>2 DEF CountedIn
    <3>4. InWindow(c)' \subseteq CountedIn(c, now)'
      <4>1. x \in CountedIn(c, now)'
        BY <1>0, <1>1, <1>3, <1>5 DEF CountedIn, Of, Types
      <4>2. ASSUME NEW s \in Sendings \ {x}, s \in InWindow(c)' PROVE s \in CountedIn(c, now)'
        <5>1. Of(s)' = c /\ Counted(s)' /\ counted'[s] + Window >= e
          BY <1>5, <4>2 DEF InWindow
        <5>2. counted'[s] \in Nat /\ counted'[s] <= now
          BY <1>4, <5>1
        <5> QED BY <1>0, <1>2, <1>3, <5>1, <5>2 DEF CountedIn, Of, Types
      <4> QED BY <4>1, <4>2 DEF InWindow
    <3>5. Hits(c) + 1 <= Cardinality(CountedIn(c, now)')
      <4>1. CountedIn(c, now)' \subseteq Sendings
        BY DEF CountedIn
      <4> QED BY <1>7, <3>4, <4>1, CountsGrow
    <3>6. sent'[q] > 0 /\ Counted(Told(q))'
      BY <1>0, <1>1, <1>3, <1>5, <3>1, <3>2 DEF Types
    <3> QED BY <1>0, <1>1, <1>2, <1>3, <3>1, <3>3, <3>5, <3>6 DEF RequestOK, Types
  <2>2. CASE ~(Told(q) = x /\ total'[q] # total[q])
    <3>1. /\ total'[q] = total[q] /\ Told(q)' = Told(q) /\ sent'[q] = sent[q]
          /\ client'[q] = client[q]
          /\ pc'[q] = pc[q] \/ (pc[q] # "idle" /\ pc'[q] = "decide")
      BY <1>0, <1>1, <1>3, <2>2 DEF Types, Told, x
    <3>2. ASSUME total[q] > 0
          PROVE  /\ Counted(Told(q))'
                 /\ total[q] <= Cardinality(CountedIn(client[q], counted[Told(q)])')
      <4>1. /\ sent[q] > 0 /\ Counted(Told(q))
            /\ total[q] <= Cardinality(CountedIn(client[q], counted[Told(q)]))
        BY <1>0, <3>2 DEF RequestOK
      <4>2. Told(q) \in Sendings \ {x}
        BY <1>0, <1>1, <4>1, SendingFacts DEF Types, Told
      <4>3. counted'[Told(q)] = counted[Told(q)] /\ Counted(Told(q))'
        <5>1. counted'[Told(q)] = counted[Told(q)]
          BY <1>4, <4>2
        <5>2. counted'[Told(q)'] = counted[Told(q)]
          BY <3>1, <5>1
        <5> QED BY <4>1, <5>1, <5>2 DEF Counted
      <4>4. PICK d, t : d = client[q] /\ t = counted[Told(q)]
        OBVIOUS
      <4>5. CountedIn(d, t)' = CountedIn(client[q], counted[Told(q)])'
        BY <3>1, <4>3, <4>4 DEF CountedIn
      <4> QED BY <1>0, <2>0, <4>1, <4>3, <4>4, <4>5 DEF Types
    <3> QED BY <1>0, <3>1, <3>2 DEF RequestOK
  <2> QED BY <2>1, <2>2
<1>10. ASSUME NEW s \in Sendings PROVE SendingOK(s)'
  <2>1. CASE s = x
    BY <1>0, <1>1, <1>2, <1>3, <1>5, <2>1 DEF SendingOK, Types
  <2>2. CASE s # x
    BY <1>0, <1>1, <1>2, <1>3, <1>4, <1>5, <2>2 DEF SendingOK, Types
  <2> QED BY <2>1, <2>2
<1>11. \E f \in [Sendings -> Int] : Opened(f)'
  <2>1. PICK f \in [Sendings -> Int] : Opened(f)
    BY DEF IInv
  <2>2. PICK g \in [Sendings -> Int] :
          g[x] = e - Window /\ \A s \in Sendings \ {x} : g[s] = f[s]
    <3>1. /\ [f EXCEPT ![x] = e - Window] \in [Sendings -> Int]
          /\ [f EXCEPT ![x] = e - Window][x] = e - Window
      BY <1>1, <1>2
    <3> QED BY <3>1
  <2>3. ASSUME NEW s \in Sendings \ {x}, Counted(s), Of(s) = c
        PROVE  \/ f[s] = e - Window /\ TotalOf(s) <= Hits(c)
               \/ f[s] + Window + Window <= e
    <3>1. /\ \/ f[s] + Window = expires[c] /\ TotalOf(s) <= hits[c]
             \/ f[s] + Window + Window <= expires[c]
          /\ expires[c] \in Nat
      BY <1>4, <2>1, <2>3 DEF Opened
    <3> QED BY <1>0, <1>2, <3>1 DEF Types
  <2>4. ASSUME NEW s \in Sendings, Counted(s)'
        PROVE  /\ g[s] <= counted'[s] /\ counted'[s] < g[s] + Window
               /\ TotalOf(s)' = 1 => g[s] = counted'[s]
               /\ \/ g[s] + Window = expires'[Of(s)'] /\ TotalOf(s)' <= hits'[Of(s)']
                  \/ g[s] + Window + Window <= expires'[Of(s)']
    <3>1. CASE s = x
      BY <1>0, <1>2, <1>5, <2>2, <3>1 DEF Types
    <3>2. CASE s # x /\ Of(s) = c
      <4>1. /\ f[s] <= counted[s] /\ counted[s] < f[s] + Window
            /\ TotalOf(s) = 1 => f[s] = counted[s]
        BY <1>4, <2>1, <2>4, <3>2 DEF Opened
      <4>2. \/ f[s] = e - Window /\ TotalOf(s) <= Hits(c)
            \/ f[s] + Window + Window <= e
        BY <1>4, <2>3, <2>4, <3>2
      <4>3. TotalOf(s) \in Nat
        BY <1>0, SendingFacts DEF TotalOf, Types
      <4> QED BY <1>0, <1>2, <1>4, <1>5, <2>2, <3>2, <4>1, <4>2, <4>3 DEF Types
    <3>3. CASE s # x /\ Of(s) # c
      BY <1>4, <1>5, <2>1, <2>2, <2>4, <3>3 DEF Opened
    <3> QED BY <3>1, <3>2, <3>3
  <2>5. ASSUME NEW p \in Sendings, NEW q \in Sendings, Counted(p)', Counted(q)',
               Of(q)' = Of(p)'
        PROVE  /\ g[p] = g[q] \/ g[p] + Window <= g[q] \/ g[q] + Window <= g[p]
               /\ g[p] = g[q] /\ TotalOf(p)' = TotalOf(q)' /\ TotalOf(q)' > 0 => p = q
    <3>1. CASE p # x /\ q # x
      BY <1>4, <2>1, <2>2, <2>5, <3>1 DEF Opened
    <3>2. CASE p = x /\ q # x
      BY <1>0, <1>2, <1>4, <1>5, <2>2, <2>3, <2>5, <3>2 DEF Types
    <3>3. CASE p # x /\ q = x
      BY <1>0, <1>2, <1>4, <1>5, <2>2, <2>3, <2>5, <3>3 DEF Types
    <3>4. CASE p = x /\ q = x
      BY <2>2, <3>4
    <3> QED BY <3>1, <3>2, <3>3, <3>4
  <2>6. Opened(g)'
    BY <2>2, <2>4, <2>5 DEF Opened
  <2> QED BY <2>2, <2>6
<1> QED BY <1>8, <1>9, <1>10, <1>11 DEF IInv

(* A step keeps the types whatever it is, Never and Nobody included. *)
LEMMA StepTypes == ASSUME IInv, [Next]_vars PROVE Types'
<1>0. Types
  BY DEF IInv
<1>1. ASSUME NEW r \in Requests, NEW k, Count(r, k)
      PROVE  /\ hits' \in [Clients -> Nat] /\ expires' \in [Clients -> Nat \cup {Never}]
             /\ counted' \in [Sendings -> Nat \cup {Never}]
             /\ Hits(client[r]) + 1 \in Nat
  <2>1. k \in 1 .. sent[r] /\ client[r] \in Clients
    BY <1>1 DEF IInv, RequestOK, Types, Count
  <2>2. PICK c, x, e, h :
          /\ c \in Clients /\ c = client[r] /\ x = <<r, k>> /\ e = Expiry(c) /\ h = Hits(c)
    BY <2>1
  <2>3. e \in Nat /\ h \in Nat
    BY <2>2, KeyFacts
  <2>4. /\ hits' = [hits EXCEPT ![c] = h + 1] /\ expires' = [expires EXCEPT ![c] = e]
        /\ counted' = [counted EXCEPT ![x] = now]
    BY <1>1, <2>2 DEF Count
  <2>5. h + 1 \in Nat
    BY <2>3
  <2> QED BY <1>0, <2>2, <2>3, <2>4, <2>5 DEF Types
<1>2. CASE Tick \/ UNCHANGED vars
  BY <1>0, <1>2 DEF Types, Tick, vars
<1>3. ASSUME NEW r \in Requests, NEW c \in Clients, Arrive(r, c) PROVE Types'
  BY <1>0, <1>3 DEF Types, Arrive
<1>4. ASSUME NEW s \in Sendings, ReplyLost(s[1], s[2]) PROVE Types'
  BY <1>0, <1>1, <1>4, SendingFacts DEF Types, ReplyLost
<1>5. ASSUME NEW r \in Requests, Increment(r) PROVE Types'
  BY <1>0, <1>1, <1>5 DEF Types, Increment
<1>6. ASSUME NEW r \in Requests, Resend(r) \/ IncrementFails(r) \/ Decide(r) PROVE Types'
  BY <1>0, <1>6 DEF Types, Resend, IncrementFails, Decide
<1> QED BY <1>2, <1>3, <1>4, <1>5, <1>6 DEF Next

LEMMA StepInvariant == IInv /\ [Next]_vars => IInv'
<1> SUFFICES ASSUME IInv, [Next]_vars PROVE IInv'
  OBVIOUS
<1>0. Types /\ Types' /\ \A r \in Requests : RequestOK(r)
  BY StepTypes DEF IInv
<1>1. CASE Tick \/ UNCHANGED vars
  <2>1. /\ UNCHANGED <<hits, expires, total, counted, client, pc, sent>> /\ now <= now'
    BY <1>0, <1>1 DEF Types, Tick, vars
  <2>2. \A q \in Requests : Advances(q)
    BY <1>0, <2>1 DEF Advances, RequestOK
  <2> QED BY <1>0, <2>1, <2>2, UncountedInvariant
<1>2. ASSUME NEW s \in Sendings, ReplyLost(s[1], s[2]) PROVE IInv'
  BY <1>0, <1>2, SendingFacts, CountedInvariant DEF ReplyLost
<1>3. ASSUME NEW r \in Requests, Increment(r) PROVE IInv'
  <2>1. sent[r] \in 1 .. Resends + 1
    BY <1>0, <1>3 DEF Increment, Count, Types
  <2> QED BY <1>0, <1>3, <2>1, CountedInvariant DEF Increment
<1>4. ASSUME NEW r \in Requests, NEW c \in Clients, Arrive(r, c) PROVE IInv'
  <2>1. UNCHANGED <<hits, expires, total, counted>> /\ now <= now'
    BY <1>0, <1>4 DEF Types, Arrive
  <2>2. \A q \in Requests : Advances(q)
    BY <1>0, <1>4 DEF Types, RequestOK, Arrive, Advances
  <2> QED BY <1>0, <2>1, <2>2, UncountedInvariant
<1>5. ASSUME NEW r \in Requests, Resend(r) \/ IncrementFails(r) PROVE IInv'
  <2>1. UNCHANGED <<hits, expires, total, counted>> /\ now <= now'
    BY <1>0, <1>5 DEF Types, Resend, IncrementFails
  <2>2. \A q \in Requests : Advances(q)
    BY <1>0, <1>5 DEF Types, RequestOK, Resend, IncrementFails, Advances
  <2> QED BY <1>0, <2>1, <2>2, UncountedInvariant
<1>6. ASSUME NEW r \in Requests, Decide(r) PROVE IInv'
  <2>1. UNCHANGED <<hits, expires, total, counted, client, sent>> /\ now <= now'
    BY <1>0, <1>6 DEF Types, Decide
  <2>2. \A q \in Requests \ {r} : pc'[q] = pc[q]
    BY <1>0, <1>6 DEF Types, Decide
  <2>3. /\ pc[r] = "decide" /\ pc'[r] \in {"admitted", "refused"}
        /\ pc'[r] = "admitted" => total[r] <= Limit
        /\ pc'[r] = "refused" => total[r] > Limit
    BY <1>0, <1>6 DEF Types, Decide, Admits
  <2>4. \A q \in Requests : Advances(q)
    BY <1>0, <2>1, <2>2, <2>3 DEF RequestOK, Advances
  <2> QED BY <1>0, <2>1, <2>4, UncountedInvariant
<1> QED BY <1>1, <1>2, <1>3, <1>4, <1>5, <1>6 DEF Next

(* The invariant behind what is proved of the limiter. *)
THEOREM Invariant == Spec => []IInv
BY InitInvariant, StepInvariant, PTL DEF Spec

(* The types, with counters that never pass the number of commands sent. *)
THEOREM TypeCorrect == Spec => []TypeOK
<1>1. IInv => TypeOK
  <2> SUFFICES ASSUME IInv PROVE TypeOK
    OBVIOUS
  <2>1. ASSUME NEW c \in Clients PROVE hits[c] \in 0 .. Cardinality(Sendings)
    <3>1. /\ Cardinality(InWindow(c)) <= Cardinality(Sendings)
          /\ Cardinality(Sendings) \in Nat
      BY CountsAreFinite DEF InWindow
    <3> QED BY <3>1 DEF IInv, Types, ClientOK
  <2>2. ASSUME NEW r \in Requests PROVE total[r] \in 0 .. Cardinality(Sendings)
    <3>1. /\ Cardinality(CountedIn(client[r], counted[Told(r)])) <= Cardinality(Sendings)
          /\ Cardinality(CountedIn(client[r], counted[Told(r)])) \in Nat
          /\ Cardinality(Sendings) \in Nat
      BY CountsAreFinite DEF CountedIn
    <3> QED BY <3>1 DEF IInv, Types, RequestOK
  <2>3. \A s \in Sendings : counted[s] \in (0..MaxTime) \cup {Never}
    BY DEF IInv, Types, SendingOK, Counted
  <2>4. \A r \in Requests : pc[r] = "refused" => Counted(<<r, sent[r]>>)
    BY DEF IInv, Types, RequestOK, Told
  <2>5. \A c \in Clients : /\ hits[c] = 0 <=> expires[c] = Never
                           /\ expires[c] # Never => expires[c] \in 1..(now + Window)
    BY DEF IInv, ClientOK
  <2>6. /\ hits \in [Clients -> 0 .. Cardinality(Sendings)]
        /\ total \in [Requests -> 0 .. Cardinality(Sendings)]
        /\ counted \in [Sendings -> (0..MaxTime) \cup {Never}]
    BY <2>1, <2>2, <2>3 DEF IInv, Types
  <2> QED BY <2>4, <2>5, <2>6 DEF IInv, Types, TypeOK
<1> QED BY Invariant, <1>1, PTL

(* Whoever is refused has himself had more than Limit counts within the window that ends
   with the one refused, those of attempts that a broken connection made him send again
   included: neither another client's attempts nor older ones ever lock anyone out. *)
THEOREM RefusedDeservedly == Spec => []RefusalsAreDeserved
<1>1. IInv => RefusalsAreDeserved
  <2> SUFFICES ASSUME IInv, NEW r \in Requests, pc[r] = "refused"
               PROVE  Cardinality(CountedIn(client[r], counted[Told(r)])) > Limit
    BY DEF RefusalsAreDeserved
  <2>1. total[r] > Limit /\ total[r] \in Nat
    BY DEF IInv, RequestOK, Types
  <2>2. total[r] <= Cardinality(CountedIn(client[r], counted[Told(r)]))
    BY <2>1 DEF IInv, RequestOK
  <2>3. Cardinality(CountedIn(client[r], counted[Told(r)])) \in Nat
    BY CountsAreFinite DEF CountedIn
  <2> QED BY <2>1, <2>2, <2>3
<1> QED BY Invariant, <1>1, PTL

(* Requests that were told different counts, from low to the limit. *)
LEMMA OneKeysWorth ==
  ASSUME NEW T \in SUBSET Requests, NEW low \in {1, 2},
         \A r \in T : total[r] \in low .. Limit,
         \A q, r \in T : total[q] = total[r] => q = r
  PROVE  Cardinality(T) <= Limit - low + 1
<1>1. [r \in T |-> total[r]] \in Injection(T, low .. Limit)
  BY DEF Injection, IsInjective
<1>2. IsFiniteSet(low .. Limit) /\ Cardinality(low .. Limit) = Limit - low + 1
  BY FS_Interval
<1> QED BY <1>1, <1>2, FS_Injection

(* A stretch of a window's length meets two keys at most; when it meets two, the attempt
   that made the first lies before it, and each key lets Limit attempts through at most. *)
THEOREM UnderTwoWindowsWorth == Spec => []LessThanTwoWindowsWorth
<1>1. IInv => LessThanTwoWindowsWorth
  <2> SUFFICES ASSUME IInv, NEW c \in Clients, NEW t \in 0 .. now
               PROVE  Cardinality(PassedIn(c, t)) < 2 * Limit
    BY DEF LessThanTwoWindowsWorth
  <2> DEFINE S == PassedIn(c, t)
  <2>1. PICK f \in [Sendings -> Int] : Opened(f)
    BY DEF IInv
  <2> DEFINE g(r) == f[Told(r)]
  <2>2. S \subseteq Requests /\ t \in Nat
    BY DEF IInv, Types, PassedIn
  <2>3. ASSUME NEW r \in S
        PROVE  /\ Told(r) \in Sendings /\ Counted(Told(r)) /\ Of(Told(r)) = c
               /\ TotalOf(Told(r)) = total[r] /\ total[r] \in 1 .. Limit
               /\ g(r) \in Int /\ g(r) <= t /\ t < g(r) + Window + Window
               /\ total[r] = 1 => t < g(r) + Window
    <3>1. /\ r \in Requests /\ pc[r] = "admitted" /\ total[r] > 0
          /\ Told(r) \in Sendings /\ Counted(Told(r)) /\ client[Told(r)[1]] = c
          /\ counted[Told(r)] <= t /\ t < counted[Told(r)] + Window
      BY DEF PassedIn, CountedIn
    <3>2. Told(r)[1] = r
      BY DEF Told
    <3>3. total[r] \in 1 .. Limit /\ counted[Told(r)] \in Nat
      BY <3>1 DEF IInv, Types, RequestOK, Counted
    <3>4. TotalOf(Told(r)) = total[r]
      BY <3>2 DEF TotalOf
    <3>5. /\ f[Told(r)] \in Int
          /\ f[Told(r)] <= counted[Told(r)] /\ counted[Told(r)] < f[Told(r)] + Window
          /\ total[r] = 1 => f[Told(r)] = counted[Told(r)]
      BY <2>1, <3>1, <3>4 DEF Opened
    <3> QED BY <2>2, <3>1, <3>3, <3>4, <3>5 DEF Of
  <2>4. ASSUME NEW q \in S, NEW r \in S
        PROVE  /\ g(q) = g(r) \/ g(q) + Window <= g(r) \/ g(r) + Window <= g(q)
               /\ g(q) = g(r) /\ total[q] = total[r] => q = r
    <3>1. Told(q) = Told(r) => q = r
      BY DEF Told
    <3> QED BY <2>1, <2>3, <3>1 DEF Opened
  <2> HIDE DEF S, g
  <2>5. ASSUME NEW T \in SUBSET S, NEW low \in {1, 2},
               \A r \in T : total[r] >= low, \A q, r \in T : g(q) = g(r)
        PROVE  IsFiniteSet(T) /\ Cardinality(T) \in Nat /\ Cardinality(T) <= Limit - low + 1
    <3>1. T \subseteq Requests /\ IsFiniteSet(T) /\ Cardinality(T) \in Nat
      BY <2>2, FS_Subset, FS_CardinalityType
    <3>2. \A r \in T : total[r] \in low .. Limit
      BY <2>3, <2>5
    <3>3. \A q, r \in T : total[q] = total[r] => q = r
      BY <2>4, <2>5
    <3> QED BY <3>1, <3>2, <3>3, OneKeysWorth
  <2>6. CASE \A q, r \in S : g(q) = g(r)
    <3>1. \A r \in S : total[r] >= 1
      BY <2>3
    <3> QED BY <2>5, <2>6, <3>1 DEF S
  <2>7. ASSUME NEW one \in S, NEW two \in S, g(one) + Window <= g(two)
        PROVE  Cardinality(S) < 2 * Limit
    <3> DEFINE A == {r \in S : g(r) = g(one)}
               B == {r \in S : g(r) # g(one)}
    <3>1. A \in SUBSET S /\ B \in SUBSET S /\ S = A \cup B /\ A \cap B = {}
      OBVIOUS
    <3>2. \A r \in A : total[r] >= 2
      BY <2>2, <2>3, <2>7
    <3>3. IsFiniteSet(A) /\ Cardinality(A) \in Nat /\ Cardinality(A) <= Limit - 1
      <4>1. \A q, r \in A : g(q) = g(r)
        OBVIOUS
      <4> HIDE DEF A, B
      <4> QED BY <2>5, <3>1, <3>2, <4>1
    <3>4. IsFiniteSet(B) /\ Cardinality(B) \in Nat /\ Cardinality(B) <= Limit
      <4>1. ASSUME NEW q \in B, NEW r \in B PROVE g(q) = g(r)
        <5>1. /\ g(q) \in Int /\ g(r) \in Int /\ g(one) \in Int
              /\ g(q) <= t /\ g(r) <= t /\ g(one) <= t
              /\ t < g(q) + Window + Window /\ t < g(r) + Window + Window
              /\ t < g(one) + Window + Window
          BY <2>3, <2>7
        <5>2. /\ g(q) + Window <= g(one) \/ g(one) + Window <= g(q)
              /\ g(r) + Window <= g(one) \/ g(one) + Window <= g(r)
              /\ g(q) = g(r) \/ g(q) + Window <= g(r) \/ g(r) + Window <= g(q)
          BY <2>4, <2>7
        <5> QED BY <2>2, <5>1, <5>2
      <4>2. \A r \in B : total[r] >= 1
        BY <2>3
      <4> HIDE DEF A, B
      <4> QED BY <2>5, <3>1, <4>1, <4>2
    <3> HIDE DEF A, B
    <3>5. Cardinality(A \cap B) = 0
      BY <3>1, FS_EmptySet
    <3>6. Cardinality(S) = Cardinality(A) + Cardinality(B) - Cardinality(A \cap B)
      BY <3>1, <3>3, <3>4, FS_Union
    <3> QED BY <3>3, <3>4, <3>5, <3>6
  <2>8. CASE \E q, r \in S : g(q) # g(r)
    <3>1. PICK q \in S, r \in S : g(q) # g(r)
      BY <2>8
    <3>2. g(q) + Window <= g(r) \/ g(r) + Window <= g(q)
      BY <2>4, <3>1
    <3> QED BY <2>7, <3>1, <3>2 DEF S
  <2> QED BY <2>6, <2>8
<1> QED BY Invariant, <1>1, PTL
=============================================================================

--------------------------- MODULE ProcessProofs ---------------------------
(***************************************************************************)
(* Proofs about Shutdown.tla and, on top of them, about Process.tla: for any  *)
(* number of signals and of pieces of work, any probes and any servers that   *)
(* fail.                                                                     *)
(***************************************************************************)
EXTENDS Process, TLAPS

(* The handler of some signal has seen all work end and closes connections. *)
PastDraining(s) == pc[s] \in {"queues", "rest", "half", "rejected"}
Closing == \E s \in Signals : PastDraining(s)

(* Nothing is taken in before the start has made every connection, each is there until
   a handler closes them, and that handler waited for the work. *)
IInv ==
    /\ TypeOK
    /\ UnderWay # {} => shuttingDown
    /\ \A s \in Signals : pc[s] = "close" => s \in waits
    /\ boot # "done" => \A w \in Work : work[w] = "new"
    /\ boot = "done" /\ ~Closing => open = Connections
    /\ Closing => \A w \in Work : work[w] \in {"new", "done"}
    /\ exit = "0" => Closing

-----------------------------------------------------------------------------
(* Shutdown.tla. *)
LEMMA ServersAreShared == Lazy \subseteq Shared
BY DEF Lazy, Shared

LEMMA InitInvariant == Init => IInv
BY ServersAreShared
   DEF Init, IInv, TypeOK, UnderWay, Closing, PastDraining, Connections, Shared, Lazy

LEMMA BootInvariant == ASSUME IInv, Boot PROVE IInv'
<1> USE DEF IInv, TypeOK, UnderWay, Closing, PastDraining, Running
<1>1. CASE ConnectToMongo
  BY <1>1 DEF ConnectToMongo, Connections, Shared
<1>2. CASE Start
  BY <1>2 DEF Start, Connections
<1> QED BY <1>1, <1>2 DEF Boot

(* Work comes in only while nothing is being closed. *)
LEMMA WorkInvariant ==
  ASSUME IInv,
         \/ \E w \in Work : Receive(w) \/ Finish(w) \/ KeepAliveRunsOut(w)
         \/ \E v, w \in Work : ReceiveOnKeptSocket(v, w)
  PROVE  IInv'
<1> USE DEF IInv, TypeOK, UnderWay, Closing, PastDraining, Handler, Connections
<1>1. ASSUME NEW w \in Work, Receive(w) PROVE IInv'
  BY <1>1 DEF Receive
<1>2. ASSUME NEW w \in Work, Finish(w) \/ KeepAliveRunsOut(w) PROVE IInv'
  BY <1>2 DEF Finish, KeepAliveRunsOut
<1>3. ASSUME NEW v \in Work, NEW w \in Work, ReceiveOnKeptSocket(v, w) PROVE IInv'
  BY <1>3 DEF ReceiveOnKeptSocket
<1> QED BY <1>1, <1>2, <1>3

(* A signal that changes nothing is as good as none. *)
LEMMA ExitInvariant ==
  ASSUME IInv,
         \/ BootFails \/ LoopEmpties
         \/ \E s \in Signals : SignalTooEarly(s) \/ Ignore(s) \/ Exit(s) \/ TimerFires(s)
  PROVE  IInv'
<1> USE DEF IInv, TypeOK, UnderWay, Closing, PastDraining, Handler, Connections, Running
<1>1. CASE BootFails
  BY <1>1 DEF BootFails
<1>2. CASE LoopEmpties
  BY <1>2 DEF LoopEmpties
<1>3. ASSUME NEW s \in Signals, SignalTooEarly(s) PROVE IInv'
  BY <1>3 DEF SignalTooEarly, Goto
<1>4. ASSUME NEW s \in Signals, Ignore(s) PROVE IInv'
  BY <1>4 DEF Ignore, Goto
<1>5. ASSUME NEW s \in Signals, Exit(s) \/ TimerFires(s) PROVE IInv'
  BY <1>5 DEF Exit, TimerFires
<1> QED BY <1>1, <1>2, <1>3, <1>4, <1>5

(* The handler that is acted on, from the signal to the last connection. *)
LEMMA BeginInvariant == ASSUME IInv, NEW s \in Signals, Begin(s) PROVE IInv'
<1> USE DEF IInv, TypeOK, Begin, BeginClosing, Goto, Running
<1>1. /\ boot = "done" /\ exit = "no" /\ listening /\ ~shuttingDown
      /\ UNCHANGED <<role, boot, open, exit>>
      /\ ~listening' /\ shuttingDown' /\ waits' = waits \cup {s} /\ timers' = timers \cup {s}
      /\ pc' = [pc EXCEPT ![s] = "close"]
  OBVIOUS
<1>2. UnderWay = {} /\ waits = {} /\ timers = {} /\ ~Closing
  BY DEF UnderWay, Closing, PastDraining
<1>3. UnderWay' = {s} /\ ~Closing'
  BY <1>1, <1>2 DEF UnderWay, Closing, PastDraining
<1>4. work' \in [Work -> {"new", "active", "idle", "done"}]
  OBVIOUS
<1>5. /\ pc' \in [Signals -> {"idle", "ignored", "close", "queues", "rest", "half", "rejected"}]
      /\ \A t \in Signals : pc'[t] = "close" => t = s
  BY <1>1, <1>2 DEF UnderWay
<1>6. Connections' = Connections
  BY <1>1 DEF Connections
<1>7. TypeOK'
  BY <1>1, <1>2, <1>3, <1>4, <1>5, <1>6
<1> QED BY <1>1, <1>2, <1>3, <1>5, <1>6, <1>7

LEMMA ClosedInvariant == ASSUME IInv, NEW s \in Signals, Closed(s) PROVE IInv'
<1> USE DEF IInv, TypeOK, Closed, Goto, Running
<1>1. UnderWay' = UnderWay /\ Closing'
  BY DEF UnderWay, Closing, PastDraining
<1>2. \A w \in Work : work[w] \in {"new", "done"}
  BY DEF Drained
<1> QED BY <1>1, <1>2 DEF Connections

LEMMA ClosingInvariant ==
  ASSUME IInv, NEW s \in Signals,
         CloseQueues(s) \/ \E c \in Shared : Disconnect(s, c) \/ DisconnectFails(s, c)
  PROVE  IInv'
<1> USE DEF IInv, TypeOK, CloseQueues, Disconnect, DisconnectFails, Goto, Running
<1>1. /\ UNCHANGED <<role, boot, shuttingDown, listening, waits, timers, work, exit>>
      /\ open' \subseteq open /\ exit = "no"
      /\ PastDraining(s)
      /\ pc' \in {pc, [pc EXCEPT ![s] = "rest"], [pc EXCEPT ![s] = "rejected"],
                  [pc EXCEPT ![s] = "half"]}
  BY DEF PastDraining, Handler
<1>2. UnderWay' = UnderWay /\ Closing /\ Closing'
  BY <1>1 DEF UnderWay, Closing, PastDraining
<1>3. \A t \in Signals : pc'[t] = "close" => pc[t] = "close"
  BY <1>1
<1>4. pc' \in [Signals -> {"idle", "ignored", "close", "queues", "rest", "half", "rejected"}]
  BY <1>1
<1> QED BY <1>1, <1>2, <1>3, <1>4 DEF Connections

LEMMA NextInvariant == IInv /\ [Next]_vars => IInv'
<1> SUFFICES ASSUME IInv, [Next]_vars PROVE IInv'
  OBVIOUS
<1>1. CASE UNCHANGED vars
  BY <1>1 DEF vars, IInv, TypeOK, UnderWay, Closing, PastDraining, Connections, Running
<1>2. CASE Stop
  BY <1>2, ExitInvariant, BeginInvariant, ClosedInvariant, ClosingInvariant DEF Stop
<1> QED BY <1>1, <1>2, BootInvariant, WorkInvariant DEF Next

(* The invariant of starting and stopping: which connections are closed tells how far the
   one closing sequence has come, and none is before the last of the work is done. *)
THEOREM Invariant == Spec => []IInv
BY InitInvariant, NextInvariant, PTL DEF Spec

(* The types, and that of many signals one at most is acted on: Shutdown!TypeOK. *)
THEOREM TypeCorrect == Spec => []TypeOK
<1>1. IInv => TypeOK
  BY DEF IInv
<1> QED BY <1>1, Invariant, PTL

LEMMA ConnectionsOutliveWork == IInv => WorkKeepsItsConnections
BY DEF IInv, TypeOK, WorkKeepsItsConnections

LEMMA CleanExitsLoseNothing == IInv => OnlyTheTimerLosesWork
BY DEF IInv, OnlyTheTimerLosesWork

-----------------------------------------------------------------------------
(* Process.tla. *)

(* What the work does, and what its servers do to it, is a step of Shutdown.tla or none. *)
LEMMA StepsAreSteps == [ProcessNext]_processVars => [Next]_vars
<1> SUFFICES ASSUME [ProcessNext]_processVars PROVE [Next]_vars
  OBVIOUS
<1>1. CASE BootWithMongo \/ StopMeanwhile
  BY <1>1 DEF BootWithMongo, StopMeanwhile, Next
<1>2. CASE ServerChanges
  BY <1>2 DEF ServerChanges, Becomes
<1>3. ASSUME NEW w \in Work, TakeIn(w) \/ Ends(w) \/ SocketRunsOut(w) PROVE Next
  BY <1>3 DEF TakeIn, Ends, SocketRunsOut, Next
<1>4. ASSUME NEW w \in Work,
             LetIn(w) \/ Handle(w) \/ Published(w) \/ NotPublished(w) \/ Report(w)
      PROVE  UNCHANGED vars
  BY <1>4 DEF LetIn, Handle, Published, NotPublished, Report, Does
<1>5. ASSUME NEW w \in Work, NEW p \in Probes,
             ProbeAnswers(w, p) \/ ProbeFails(w, p) \/ ProbeTimesOut(w, p)
      PROVE  UNCHANGED vars
  BY <1>5 DEF ProbeAnswers, ProbeFails, ProbeTimesOut, Finds
<1>6. CASE UNCHANGED processVars
  BY <1>6 DEF processVars
<1> QED BY <1>1, <1>2, <1>3, <1>4, <1>5, <1>6 DEF ProcessNext

(* Whatever its work waits for and whatever servers do, a process starts and stops as
   Shutdown.tla says. *)
THEOREM ProcessImplementsShutdown == ProcessSpec => Spec
<1>1. ProcessInit => Init
  BY DEF ProcessInit
<1> QED BY <1>1, StepsAreSteps, PTL DEF ProcessSpec, Spec

(* While work is under way nothing it may use is closed, however many signals come and
   whatever fails at closing. *)
THEOREM WorkIsNotCutOff == ProcessSpec => []WorkKeepsItsConnections
BY ProcessImplementsShutdown, Invariant, ConnectionsOutliveWork, PTL

(* A process that exits with 0 has finished what it took in. *)
THEOREM CleanExit == ProcessSpec => []OnlyTheTimerLosesWork
BY ProcessImplementsShutdown, Invariant, CleanExitsLoseNothing, PTL
-----------------------------------------------------------------------------
Answered(w, p) == \E s \in {"up", "full"} : <<ServerOf[p], s>> \in seen[w]

(* What a piece of work has seen while it waits includes the present, and what it concluded
   it has seen. *)
WorkOK(w) ==
    /\ doing[w] \in Waiting => Now \subseteq seen[w]
    /\ \A p \in Probes : /\ verdict[w][p] = "failed" => <<ServerOf[p], "down">> \in seen[w]
                         /\ verdict[w][p] = "healthy" => Answered(w, p)
                         /\ doing[w] = "ready" => Answered(w, p)
    /\ doing[w] = "lost" => <<"redis", "full">> \in seen[w]

PInv ==
    /\ ProcessTypeOK
    /\ \A w \in Work : WorkOK(w)

LEMMA ProbeFacts ==
  ASSUME NEW p \in Probes
  PROVE  ServerOf[p] \in Servers /\ ConnectionOf[p] \in Shared
<1>1. p \in {"mysql", "redis", "mongodb", "queues"}
  BY ProcessAssumption DEF ServerOf
<1> QED BY <1>1 DEF ServerOf, ConnectionOf, Servers, Shared

(* Work that is under way has its connections. *)
LEMMA AtWork ==
  ASSUME IInv, ProcessTypeOK, NEW w \in Work, doing[w] # "none"
  PROVE  QueuesOpen /\ Shared \subseteq open
<1>1. work[w] = "active"
  BY DEF ProcessTypeOK
<1>2. open = Connections
  BY <1>1, ConnectionsOutliveWork DEF WorkKeepsItsConnections
<1> QED BY <1>2 DEF Connections, Shared, QueuesOpen

LEMMA OthersStay ==
  ASSUME NEW w \in Work, WorkOK(w), UNCHANGED status,
         doing'[w] = doing[w], verdict'[w] = verdict[w], seen'[w] = seen[w]
  PROVE  WorkOK(w)'
BY DEF WorkOK, Answered, Now

Doings == {"none", "entering", "handling", "publishing", "lost", "answering",
           "probing", "ready", "degraded"}

LEMMA StatusInRange ==
  ASSUME ProcessTypeOK, NEW v \in Servers
  PROVE  <<v, status[v]>> \in Servers \X {"up", "down", "full"}
BY DEF ProcessTypeOK

-----------------------------------------------------------------------------
LEMMA ServersInvariant == ASSUME PInv, TypeOK', ServerChanges PROVE PInv'
<1>1. PICK v \in Servers, s \in {"up", "down", "full"} :
        Becomes(v, s) /\ (s = "full" => v = "redis")
  BY ProcessAssumption DEF ServerChanges, Servers
<1> USE DEF Becomes, PInv, ProcessTypeOK
<1>2. /\ UNCHANGED <<work, doing, verdict>>
      /\ status' = [status EXCEPT ![v] = s]
      /\ \A w \in Work : /\ doing[w] \in Waiting => seen'[w] = seen[w] \cup {<<v, s>>}
                         /\ doing[w] \notin Waiting => seen'[w] = seen[w]
  BY <1>1 DEF vars
<1>3. \A w \in Work : seen[w] \subseteq seen'[w]
  BY <1>2
<1>4. ASSUME NEW w \in Work PROVE WorkOK(w)'
  <2>1. doing[w] \in Waiting => Now' \subseteq seen'[w]
    BY <1>2 DEF Now, WorkOK
  <2> QED BY <1>2, <1>3, <2>1 DEF WorkOK, Answered
<1>5. ProcessTypeOK'
  <2>1. seen' \in [Work -> SUBSET (Servers \X {"up", "down", "full"})]
    BY <1>1
  <2> QED BY <1>1, <1>2, <2>1
<1> QED BY <1>4, <1>5

(* Starting and stopping neither begin work nor end it. *)
LEMMA MeanwhileInvariant ==
  ASSUME IInv, PInv, TypeOK', BootWithMongo \/ StopMeanwhile
  PROVE  PInv'
<1>1. UNCHANGED <<status, doing, verdict, seen>>
  BY DEF BootWithMongo, StopMeanwhile, workVars
<1>2. \A w \in Work : work'[w] = "active" <=> work[w] = "active"
  BY DEF BootWithMongo, StopMeanwhile, Boot, ConnectToMongo, Start, Stop, BootFails, LoopEmpties,
     SignalTooEarly, Begin, BeginClosing, Ignore, Closed, CloseQueues, Exit, TimerFires,
     Disconnect, DisconnectFails, PInv, ProcessTypeOK, TypeOK
<1>3. \A w \in Work : WorkOK(w)'
  BY <1>1, OthersStay DEF PInv
<1>4. ProcessTypeOK'
  BY <1>1, <1>2 DEF PInv, ProcessTypeOK, Unasked
<1> QED BY <1>3, <1>4 DEF PInv
LEMMA TakeInInvariant ==
  ASSUME IInv, PInv, TypeOK', NEW w \in Work, TakeIn(w)
  PROVE  PInv'
<1> USE DEF PInv, ProcessTypeOK
<1>1. PICK d \in {"entering", "handling", "probing"} :
        /\ doing' = [doing EXCEPT ![w] = d]
        /\ verdict' = [verdict EXCEPT ![w] =
                         IF d = "probing" THEN [p \in Probes |-> "pending"] ELSE Unasked]
        /\ seen' = [seen EXCEPT ![w] = IF d = "handling" THEN {} ELSE Now]
        /\ UNCHANGED status
  BY DEF TakeIn, Begins
<1>2. /\ work[w] # "active" /\ work'[w] = "active"
      /\ \A q \in Work \ {w} : work'[q] = "active" <=> work[q] = "active"
  BY DEF TakeIn, Receive, ReceiveOnKeptSocket, TypeOK
<1>3. Now \in SUBSET (Servers \X {"up", "down", "full"})
  BY StatusInRange DEF Now
<1>4. ProcessTypeOK'
  BY <1>1, <1>2, <1>3 DEF Unasked
<1>5. WorkOK(w)'
  BY <1>1 DEF WorkOK, Now, Waiting, Unasked
<1>6. \A q \in Work \ {w} : WorkOK(q)'
  BY <1>1, OthersStay
<1> QED BY <1>4, <1>5, <1>6

(* A step from one thing a piece of work does to another keeps the invariant if the one it
   comes to may be said of what it has seen. *)
LEMMA DoesInvariant ==
  ASSUME PInv, TypeOK', NEW w \in Work, NEW from, NEW to \in Doings \ {"none", "probing"},
         from # "none", Does(w, from, to),
         to = "lost" => <<"redis", "full">> \in seen[w],
         to = "ready" => \A p \in Probes : Answered(w, p),
         to # "entering"
  PROVE  PInv'
<1> USE DEF PInv, ProcessTypeOK, Does, Doings
<1>1. /\ UNCHANGED <<work, status>> /\ doing[w] # "none"
      /\ doing' = [doing EXCEPT ![w] = to] /\ verdict' = [verdict EXCEPT ![w] = Unasked]
      /\ \E S \in {Now, seen[w], {}} :
            /\ seen' = [seen EXCEPT ![w] = S]
            /\ to = "publishing" => S = Now
            /\ to \in {"lost", "ready"} => S = seen[w]
  BY DEF vars
<1>2. Now \in SUBSET (Servers \X {"up", "down", "full"})
  BY StatusInRange DEF Now
<1>3. ProcessTypeOK'
  BY <1>1, <1>2 DEF Unasked
<1>4. WorkOK(w)'
  BY <1>1 DEF WorkOK, Answered, Now, Waiting, Unasked
<1>5. \A q \in Work \ {w} : WorkOK(q)'
  BY <1>1, OthersStay
<1> QED BY <1>3, <1>4, <1>5

LEMMA RequestInvariant ==
  ASSUME IInv, PInv, TypeOK', NEW w \in Work,
         LetIn(w) \/ Handle(w) \/ Published(w) \/ NotPublished(w)
  PROVE  PInv'
<1>1. CASE LetIn(w)
  BY <1>1, DoesInvariant DEF LetIn, Doings
<1>2. CASE Handle(w) \/ Published(w)
  BY <1>2, DoesInvariant DEF Handle, Published, Doings
<1>3. CASE NotPublished(w)
  <2>1. doing[w] = "publishing" /\ Does(w, "publishing", "lost")
    BY <1>3 DEF NotPublished, Does
  <2>2. status["redis"] = "full"
    BY <1>3, <2>1, AtWork DEF NotPublished, PInv
  <2>3. <<"redis", "full">> \in seen[w]
    BY <2>1, <2>2 DEF PInv, WorkOK, Waiting, Now, Servers
  <2> QED BY <2>1, <2>3, DoesInvariant DEF Doings
<1> QED BY <1>1, <1>2, <1>3

LEMMA ReportInvariant ==
  ASSUME PInv, TypeOK', NEW w \in Work, Report(w)
  PROVE  PInv'
<1>1. PICK to \in {"ready", "degraded"} :
        /\ Does(w, "probing", to)
        /\ to = "ready" => \A p \in Probes : verdict[w][p] = "healthy"
  BY DEF Report
<1>2. to = "ready" => \A p \in Probes : Answered(w, p)
  BY <1>1 DEF PInv, WorkOK
<1> QED BY <1>1, <1>2, DoesInvariant DEF Doings

LEMMA ProbeInvariant ==
  ASSUME IInv, PInv, TypeOK', NEW w \in Work, NEW p \in Probes,
         ProbeAnswers(w, p) \/ ProbeFails(w, p) \/ ProbeTimesOut(w, p)
  PROVE  PInv'
<1>1. PICK what \in {"healthy", "failed", "late"} :
        /\ Finds(w, p, what)
        /\ what = "healthy" => status[ServerOf[p]] # "down"
        /\ what = "failed" => \/ <<ServerOf[p], "down">> \in seen[w]
                              \/ ConnectionOf[p] \notin open
  BY DEF ProbeAnswers, ProbeFails, ProbeTimesOut
<1>2. /\ doing[w] = "probing" /\ UNCHANGED <<work, status, doing, seen>>
      /\ verdict' = [verdict EXCEPT ![w][p] = what]
  BY <1>1 DEF Finds, vars
<1>3. what = "failed" => <<ServerOf[p], "down">> \in seen[w]
  BY <1>1, <1>2, AtWork, ProbeFacts DEF PInv
<1>4. what = "healthy" => Answered(w, p)
  <2>1. <<ServerOf[p], status[ServerOf[p]]>> \in seen[w]
    BY <1>2, ProbeFacts DEF PInv, WorkOK, Waiting, Now
  <2>2. status[ServerOf[p]] \in {"up", "down", "full"}
    BY ProbeFacts, StatusInRange DEF PInv
  <2> QED BY <1>1, <2>1, <2>2 DEF Answered
<1>5. verdict[w] \in [Probes -> {"unasked", "pending", "healthy", "failed", "late"}]
  BY DEF PInv, ProcessTypeOK
<1>6. WorkOK(w)'
  <2>1. \A q \in Probes : verdict'[w][q] = IF q = p THEN what ELSE verdict[w][q]
    BY <1>2, <1>5 DEF PInv, ProcessTypeOK
  <2>2. WorkOK(w)
    BY DEF PInv
  <2> QED BY <1>2, <1>3, <1>4, <2>1, <2>2 DEF WorkOK, Answered, Now
<1>7. ProcessTypeOK'
  BY <1>2, <1>5 DEF PInv, ProcessTypeOK, Unasked
<1>8. \A q \in Work \ {w} : WorkOK(q)'
  BY <1>2, OthersStay DEF PInv, ProcessTypeOK
<1> QED BY <1>6, <1>7, <1>8 DEF PInv

LEMMA EndInvariant ==
  ASSUME PInv, TypeOK', NEW w \in Work, Ends(w) \/ SocketRunsOut(w)
  PROVE  PInv'
<1> USE DEF PInv, ProcessTypeOK
<1>1. CASE Ends(w)
  <2>1. /\ work[w] = "active" /\ work'[w] # "active"
        /\ \A q \in Work \ {w} : work'[q] = work[q]
        /\ UNCHANGED <<status, verdict>> /\ doing[w] # "probing"
        /\ doing' = [doing EXCEPT ![w] = "none"] /\ seen' = [seen EXCEPT ![w] = {}]
    BY <1>1 DEF Ends, Finish, TypeOK
  <2>2. ProcessTypeOK'
    BY <2>1 DEF Unasked
  <2>3. WorkOK(w)'
    BY <2>1 DEF WorkOK, Waiting, Unasked
  <2>4. \A q \in Work \ {w} : WorkOK(q)'
    BY <2>1, OthersStay
  <2> QED BY <2>2, <2>3, <2>4
<1>2. CASE SocketRunsOut(w)
  <2>1. /\ UNCHANGED <<status, doing, verdict, seen>>
        /\ \A q \in Work : work'[q] = "active" <=> work[q] = "active"
    BY <1>2 DEF SocketRunsOut, workVars, KeepAliveRunsOut, TypeOK
  <2>2. \A q \in Work : WorkOK(q)'
    BY <2>1, OthersStay
  <2> QED BY <2>1, <2>2 DEF Unasked
<1> QED BY <1>1, <1>2

-----------------------------------------------------------------------------
LEMMA ProcessNextInvariant ==
  ASSUME IInv, IInv', PInv, [ProcessNext]_processVars
  PROVE  PInv'
<1>1. TypeOK'
  BY DEF IInv
<1>2. CASE UNCHANGED processVars
  <2>1. UNCHANGED <<work, status, doing, verdict, seen>>
    BY <1>2 DEF processVars, vars
  <2>2. \A w \in Work : WorkOK(w)'
    BY <2>1, OthersStay DEF PInv
  <2> QED BY <1>1, <2>1, <2>2 DEF PInv, ProcessTypeOK, Unasked
<1> QED BY <1>1, <1>2, MeanwhileInvariant, ServersInvariant, TakeInInvariant, RequestInvariant,
           ReportInvariant, EndInvariant, ProbeInvariant DEF ProcessNext

(* The invariant of the work and the servers: what a piece of work has seen while it waits
   includes how the servers are now. *)
THEOREM ProcessInvariant == ProcessSpec => []PInv
<1>1. ProcessInit => PInv
  BY InitInvariant
     DEF ProcessInit, Init, IInv, PInv, ProcessTypeOK, WorkOK, Unasked, Waiting, Servers
<1>2. IInv /\ IInv' /\ PInv /\ [ProcessNext]_processVars => PInv'
  BY ProcessNextInvariant
<1> QED BY <1>1, <1>2, ProcessImplementsShutdown, Invariant, PTL DEF ProcessSpec

(* The types of what Process.tla adds to Shutdown.tla. *)
THEOREM ProcessTypeCorrect == ProcessSpec => []ProcessTypeOK
<1>1. PInv => ProcessTypeOK
  BY DEF PInv
<1> QED BY <1>1, ProcessInvariant, PTL

(* A dependency is blamed for its server's failure alone, never for the process's own
   shutdown. *)
THEOREM BlameWithCause == ProcessSpec => []BlameIsDeserved
<1>1. PInv => BlameIsDeserved
  BY DEF PInv, WorkOK, BlameIsDeserved
<1> QED BY <1>1, ProcessInvariant, PTL

(* A report that all is well has had an answer from each dependency. *)
THEOREM PraiseWithCause == ProcessSpec => []PraiseIsDeserved
<1>1. PInv => PraiseIsDeserved
  BY DEF PInv, WorkOK, Answered, PraiseIsDeserved
<1> QED BY <1>1, ProcessInvariant, PTL

(* A process that has ended with work under way was ended by the shutdown timer: before
   the start is done there is no work, and an exit with 0 waits for it. *)
LEMMA EndsWithWork ==
  ASSUME IInv, NEW w \in Work, work[w] = "active", ~Running
  PROVE  boot = "done" /\ exit # "0"
<1>1. boot = "done"
  BY DEF IInv
<1>2. exit # "0"
  BY CleanExitsLoseNothing DEF OnlyTheTimerLosesWork
<1> QED BY <1>1, <1>2

(* Once started, a process ends by itself, with a 0, or by its shutdown timer. *)
EndOK == boot = "done" /\ ~Running => exit = "0" \/ EndedByTimer

LEMMA EndOKInit == Init => EndOK
BY DEF Init, EndOK

LEMMA EndOKNext == ASSUME IInv, EndOK, [Next]_vars PROVE EndOK'
<1> USE DEF IInv, TypeOK, EndOK, EndedByTimer, Running
<1>1. CASE UNCHANGED vars
  BY <1>1 DEF vars
<1>2. CASE Boot \/ \E w \in Work : Receive(w) \/ Finish(w) \/ KeepAliveRunsOut(w)
  BY <1>2 DEF Boot, ConnectToMongo, Start, Receive, Finish, KeepAliveRunsOut
<1>3. CASE \E v, w \in Work : ReceiveOnKeptSocket(v, w)
  BY <1>3 DEF ReceiveOnKeptSocket
<1>4. CASE BootFails \/ LoopEmpties
  BY <1>4 DEF BootFails, LoopEmpties, Handler
<1>5. ASSUME NEW s \in Signals, SignalTooEarly(s) \/ Exit(s) \/ TimerFires(s) PROVE EndOK'
  <2>1. UnderWay # {} => shuttingDown
    OBVIOUS
  <2>2. TimerFires(s) => shuttingDown
    BY <2>1 DEF TimerFires
  <2> QED BY <1>5, <2>2 DEF SignalTooEarly, Exit, TimerFires, Handler
<1>6. ASSUME NEW s \in Signals, Begin(s) \/ Ignore(s) \/ Closed(s) \/ CloseQueues(s)
      PROVE  EndOK'
  BY <1>6 DEF Begin, Ignore, Closed, CloseQueues
<1>7. ASSUME NEW s \in Signals, NEW c \in Shared, Disconnect(s, c) \/ DisconnectFails(s, c)
      PROVE  EndOK'
  BY <1>7 DEF Disconnect, DisconnectFails, Handler
<1> QED BY <1>1, <1>2, <1>3, <1>4, <1>5, <1>6, <1>7 DEF Next, Stop

(* An event is lost to a refusal of Redis or to the shutdown timer: a publication under way
   has its connections, so that nothing but its server fails it, and a process that ends
   under it is ended by the timer. *)
THEOREM LossesWithCause == ProcessSpec => []EventLossesHaveACause
<1>1. Spec => []EndOK
  <2>1. IInv /\ EndOK /\ [Next]_vars => EndOK'
    BY EndOKNext
  <2> QED BY <2>1, EndOKInit, Invariant, PTL DEF Spec
<1>2. IInv /\ EndOK /\ PInv => EventLossesHaveACause
  <2> SUFFICES ASSUME IInv, EndOK, PInv, NEW w \in Work, EventLost(w)
               PROVE  <<"redis", "full">> \in seen[w] \/ EndedByTimer
    BY DEF EventLossesHaveACause
  <2>1. CASE doing[w] = "lost"
    BY <2>1 DEF PInv, WorkOK
  <2>2. CASE ~Running /\ doing[w] \in {"handling", "publishing"}
    <3>1. work[w] = "active"
      BY <2>2 DEF PInv, ProcessTypeOK
    <3>2. boot = "done" /\ exit # "0"
      BY <2>2, <3>1, EndsWithWork
    <3> QED BY <2>2, <3>2 DEF EndOK
  <2> QED BY <2>1, <2>2 DEF EventLost
<1> QED BY <1>1, <1>2, ProcessInvariant, ProcessImplementsShutdown, Invariant, PTL
=============================================================================

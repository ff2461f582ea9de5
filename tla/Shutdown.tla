------------------------------ MODULE Shutdown ------------------------------
(***************************************************************************)
(* How a process of the system starts and stops: the API (main.ts), whose     *)
(* work is HTTP requests, and the worker (worker.ts), whose work is jobs.  It *)
(* connects to MongoDB and makes its indexes before it takes in any work, and *)
(* handles no signal until then.  A signal takes in no more work, waits for   *)
(* the work under way, closes the queues and then the other connections, and  *)
(* exits; a timer armed by the signal ends it all after SHUTDOWN_TIMEOUT_MS.  *)
(* Signals come in any number and order, and each runs the handler again.     *)
(*                                                                         *)
(* What the work does with its connections is in Process.tla, which extends   *)
(* this module; what the timer cuts short in the worker, a job, is tried      *)
(* again by another worker: EventPipeline.tla.                                *)
(***************************************************************************)

CONSTANTS
    Signals,   \* signals and uncaught exceptions, each delivered once
    Work       \* requests or jobs

VARIABLES
    role,        \* the process: "api" or "worker"
    boot,        \* what the start is waiting for: "mongo", "indexes", or nothing: "done"
    shuttingDown,
    listening,   \* whether the server or the workers take in work
    pc,          \* where the handler of each signal is
    waits,       \* signals whose close has to wait for the work under way
    timers,      \* signals whose timer is armed
    open,        \* connections made and not closed yet
    work,        \* each piece of work; "idle" is a socket kept alive after its response
    exit         \* "no", or how the process ended

vars == <<role, boot, shuttingDown, listening, pc, waits, timers, open, work, exit>>

(* What buildInfrastructure opens, the first three without waiting for a server, and the
   worker's own connection. *)
Lazy == {"redis", "queueRedis", "prisma"}
Shared == {"redis", "queueRedis", "mongo", "prisma"}
Connections == {"queues"} \cup Shared \cup (IF role = "worker" THEN {"workers"} ELSE {})

-----------------------------------------------------------------------------
Init ==
    /\ role \in {"api", "worker"}
    /\ boot = "mongo"
    /\ shuttingDown = FALSE
    /\ listening = FALSE
    /\ pc = [s \in Signals |-> "idle"]
    /\ waits = {}
    /\ timers = {}
    /\ open = Lazy
    /\ work = [w \in Work |-> "new"]
    /\ exit = "no"

Running == exit = "no"
Handler == <<role, boot, shuttingDown, listening, pc, waits, timers>>
Goto(s, label) == pc' = [pc EXCEPT ![s] = label]

ConnectToMongo ==
    /\ Running /\ boot = "mongo"
    /\ boot' = "indexes"
    /\ open' = open \cup {"mongo"}
    /\ UNCHANGED <<role, shuttingDown, listening, pc, waits, timers, work, exit>>

(* The queues, the server or the workers, and the handlers of the signals, with no await
   between them. *)
Start ==
    /\ Running /\ boot = "indexes"
    /\ boot' = "done"
    /\ open' = Connections
    /\ listening' = TRUE
    /\ UNCHANGED <<role, shuttingDown, pc, waits, timers, work, exit>>

BootFails ==
    /\ Running /\ boot # "done"
    /\ exit' = "1"
    /\ UNCHANGED <<Handler, open, work>>

(* Nobody handles it yet: the process dies of it, or, first process of its container,
   never hears of it. *)
SignalTooEarly(s) ==
    /\ Running /\ boot # "done" /\ pc[s] = "idle"
    /\ \/ exit' = "signal" /\ UNCHANGED pc
       \/ Goto(s, "ignored") /\ UNCHANGED exit
    /\ UNCHANGED <<role, boot, shuttingDown, listening, waits, timers, open, work>>

Receive(w) ==
    /\ Running /\ listening
    /\ work[w] = "new"
    /\ work' = [work EXCEPT ![w] = "active"]
    /\ UNCHANGED <<Handler, open, exit>>

(* A client sends another request on the socket of v, listening or not. *)
ReceiveOnKeptSocket(v, w) ==
    /\ Running
    /\ work[v] = "idle" /\ work[w] = "new"
    /\ work' = [work EXCEPT ![v] = "done", ![w] = "active"]
    /\ UNCHANGED <<Handler, open, exit>>

(* Work may also never finish: nothing makes this step happen. *)
Finish(w) ==
    /\ Running
    /\ work[w] = "active"
    /\ work' = [work EXCEPT ![w] = IF role = "api" THEN "idle" ELSE "done"]
    /\ UNCHANGED <<Handler, open, exit>>

KeepAliveRunsOut(w) ==
    /\ Running
    /\ work[w] = "idle"
    /\ work' = [work EXCEPT ![w] = "done"]
    /\ UNCHANGED <<Handler, open, exit>>

-----------------------------------------------------------------------------
(* server.close calls back at once, with an error nobody reads, when the server is
   closed already; worker.close waits however often it is called. *)
BeginClosing(s) ==
    /\ listening' = FALSE
    /\ waits' = IF listening \/ role = "worker" THEN waits \cup {s} ELSE waits
    /\ work' = [w \in Work |-> IF work[w] = "idle" THEN "done" ELSE work[w]]

ShutdownWithoutGuard(s) ==
    /\ Running /\ boot = "done" /\ pc[s] = "idle"
    /\ Goto(s, "close")
    /\ shuttingDown' = TRUE
    /\ timers' = timers \cup {s}
    /\ BeginClosing(s)
    /\ UNCHANGED <<role, boot, open, exit>>

ShutdownWithoutTimer(s) ==
    /\ Running /\ boot = "done" /\ pc[s] = "idle" /\ ~shuttingDown
    /\ Goto(s, "close")
    /\ shuttingDown' = TRUE
    /\ BeginClosing(s)
    /\ UNCHANGED <<role, boot, timers, open, exit>>

Begin(s) ==
    /\ Running /\ boot = "done" /\ pc[s] = "idle" /\ ~shuttingDown
    /\ Goto(s, "close")
    /\ shuttingDown' = TRUE
    /\ timers' = timers \cup {s}
    /\ BeginClosing(s)
    /\ UNCHANGED <<role, boot, open, exit>>

Ignore(s) ==
    /\ Running /\ pc[s] = "idle" /\ shuttingDown
    /\ Goto(s, "ignored")
    /\ UNCHANGED <<role, boot, shuttingDown, listening, waits, timers, open, work, exit>>

NothingToWaitFor(s) == TRUE

Drained(s) == s \in waits => \A w \in Work : work[w] \in {"new", "done"}

(* The worker's connection goes with its last job. *)
Closed(s) ==
    /\ Running /\ pc[s] = "close" /\ Drained(s)
    /\ Goto(s, "queues")
    /\ open' = open \ {"workers"}
    /\ UNCHANGED <<role, boot, shuttingDown, listening, waits, timers, work, exit>>

CloseQueues(s) ==
    /\ Running /\ pc[s] = "queues"
    /\ \/ Goto(s, "rest") /\ open' = open \ {"queues"}
       \/ Goto(s, "rejected") /\ UNCHANGED open
    /\ UNCHANGED <<role, boot, shuttingDown, listening, waits, timers, work, exit>>

(* All at once, and each ends in its own time, after a rejection too. *)
Disconnect(s, c) ==
    /\ Running /\ pc[s] \in {"rest", "half"}
    /\ c \in open \cap Shared
    /\ open' = open \ {c}
    /\ UNCHANGED <<Handler, work, exit>>

(* The Redis clients fall back on disconnect; the first rejection of the others is
   logged as an unhandled one, and the handler goes no further. *)
DisconnectFails(s, c) ==
    /\ Running /\ pc[s] = "rest"
    /\ c \in open \cap {"mongo", "prisma"}
    /\ Goto(s, "half")
    /\ open' \in {open, open \ {c}}
    /\ UNCHANGED <<role, boot, shuttingDown, listening, waits, timers, work, exit>>

Exit(s) ==
    /\ Running /\ pc[s] = "rest" /\ open \cap Shared = {}
    /\ timers' = timers \ {s}
    /\ exit' = "0"
    /\ UNCHANGED <<role, boot, shuttingDown, listening, pc, waits, open, work>>

TimerFires(s) ==
    /\ Running /\ s \in timers
    /\ exit' = "1"
    /\ UNCHANGED <<Handler, open, work>>

(* The timer is unref'd: with nothing open and nothing to do, the process ends without it. *)
LoopEmpties ==
    /\ Running /\ ~listening /\ open = {} /\ \E s \in Signals : pc[s] = "half"
    /\ \A w \in Work : work[w] \in {"new", "done"}
    /\ exit' = "0"
    /\ UNCHANGED <<Handler, open, work>>

(* Starting and stopping, which leave what the work does alone. *)
Boot == ConnectToMongo \/ Start

Stop ==
    \/ BootFails \/ LoopEmpties
    \/ \E s \in Signals : \/ SignalTooEarly(s) \/ Begin(s) \/ Ignore(s) \/ Closed(s)
                          \/ CloseQueues(s) \/ Exit(s) \/ TimerFires(s)
    \/ \E s \in Signals, c \in Shared : Disconnect(s, c) \/ DisconnectFails(s, c)

Next ==
    \/ Boot \/ Stop
    \/ \E w \in Work : Receive(w) \/ Finish(w) \/ KeepAliveRunsOut(w)
    \/ \E v, w \in Work : ReceiveOnKeptSocket(v, w)

Spec == Init /\ [][Next]_vars

(* The event loop gets to a timer that is due, and does end when it is empty. *)
FairSpec == Spec /\ WF_vars(\E s \in Signals : TimerFires(s)) /\ WF_vars(LoopEmpties)

-----------------------------------------------------------------------------
UnderWay == {s \in Signals : pc[s] \notin {"idle", "ignored"}}

(* Types; one signal at most is acted on, and its timer is armed until the exit. *)
TypeOK ==
    /\ role \in {"api", "worker"}
    /\ boot \in {"mongo", "indexes", "done"}
    /\ listening = (boot = "done" /\ ~shuttingDown)
    /\ shuttingDown => boot = "done"
    /\ pc \in [Signals -> {"idle", "ignored", "close", "queues", "rest", "half", "rejected"}]
    /\ waits \subseteq UnderWay
    /\ \A s, t \in UnderWay : s = t
    /\ timers \subseteq UnderWay /\ (Running => timers = UnderWay)
    /\ open \subseteq Connections
    /\ work \in [Work -> {"new", "active", "idle", "done"}]
    /\ exit \in {"no", "0", "1", "signal"}

(* However many signals come, a request or a job under way has every connection open
   until it is done or the timer ends the process. *)
WorkKeepsItsConnections ==
    (\E w \in Work : work[w] = "active") => open = Connections

(* Work is cut short only by the timer, and the exit code says so. *)
OnlyTheTimerLosesWork == exit = "0" => \A w \in Work : work[w] # "active"

(* Told to stop, the process stops, though work hangs, a connection never closes or one
   of the steps is rejected. *)
ExitsInTheEnd == shuttingDown ~> ~Running
=============================================================================

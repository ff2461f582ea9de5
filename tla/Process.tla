------------------------------ MODULE Process ------------------------------
(***************************************************************************)
(* A process at work while the servers it depends on come and go and while    *)
(* signals tell it to stop: Shutdown.tla, with what each piece of work does.  *)
(*                                                                         *)
(* A request is let in by the list of revoked tokens, writes, publishes its   *)
(* event and answers; a registration needs no token; a readiness check asks   *)
(* every dependency at once and gives each the same time to answer.  A job    *)
(* handles an event and schedules another job.                               *)
(*                                                                         *)
(* Two Redis clients behave in opposite ways (redisClient.ts).  "redis", of   *)
(* the lists and the cache, fails at once while the server is down.           *)
(* "queueRedis", of the queues, keeps its commands and tries for ever: what   *)
(* they wait for is that Redis comes back, or that the client is closed.      *)
(***************************************************************************)
EXTENDS Shutdown

CONSTANTS
    Probes,    \* dependencies the readiness check asks about
    Failing    \* servers that go down and come back, any number of times

ServerOf ==
    [mysql |-> "mysql", redis |-> "redis", mongodb |-> "mongodb", queues |-> "redis"]
ConnectionOf ==
    [mysql |-> "prisma", redis |-> "redis", mongodb |-> "mongo", queues |-> "queueRedis"]
Servers == {"mysql", "redis", "mongodb"}

ASSUME ProcessAssumption == Probes \subseteq DOMAIN ServerOf /\ Failing \subseteq Servers

VARIABLES
    status,   \* each server: "up", "down", or "full", which is Redis refusing writes
    doing,    \* what each piece of work waits for
    verdict,  \* what a readiness check has found of each dependency
    seen      \* the states servers were in since a piece of work began to wait for them

workVars == <<doing, verdict, seen>>
processVars == <<vars, status, doing, verdict, seen>>

Waiting == {"entering", "publishing", "probing"}
Now == {<<v, status[v]>> : v \in Servers}
Unasked == [p \in Probes |-> "unasked"]

ProcessInit ==
    /\ Init
    /\ status = [v \in Servers |-> "up"]
    /\ doing = [w \in Work |-> "none"]
    /\ verdict = [w \in Work |-> Unasked]
    /\ seen = [w \in Work |-> {}]

-----------------------------------------------------------------------------
Becomes(v, s) ==
    /\ Running
    /\ status[v] # s
    /\ status' = [status EXCEPT ![v] = s]
    /\ seen' = [w \in Work |-> IF doing[w] \in Waiting THEN seen[w] \cup {<<v, s>>} ELSE seen[w]]
    /\ UNCHANGED <<vars, doing, verdict>>

(* The server runs with maxmemory-policy noeviction: full, it refuses writes. *)
ServerChanges ==
    \/ \E v \in Failing, s \in {"up", "down"} : Becomes(v, s)
    \/ "redis" \in Failing /\ Becomes("redis", "full")

(* The indexes are made in MongoDB; nothing else is asked of a server at the start. *)
BootWithMongo ==
    /\ Boot
    /\ status["mongodb"] = "up"
    /\ UNCHANGED <<status, workVars>>

StopMeanwhile == Stop /\ UNCHANGED <<status, workVars>>

Begins == IF role = "api" THEN {"entering", "handling", "probing"} ELSE {"handling"}

(* A job is taken by a command to Redis. *)
TakeIn(w) ==
    /\ Receive(w) \/ \E v \in Work : ReceiveOnKeptSocket(v, w)
    /\ role = "worker" => status["redis"] = "up"
    /\ \E d \in Begins :
        /\ doing' = [doing EXCEPT ![w] = d]
        /\ verdict' = [verdict EXCEPT ![w] =
                         IF d = "probing" THEN [p \in Probes |-> "pending"] ELSE Unasked]
        /\ seen' = [seen EXCEPT ![w] = IF d = "handling" THEN {} ELSE Now]
    /\ UNCHANGED status

Does(w, from, to) ==
    /\ Running
    /\ doing[w] = from
    /\ doing' = [doing EXCEPT ![w] = to]
    /\ seen' = [seen EXCEPT ![w] = CASE to = "publishing" -> Now
                                   [] to \in {"lost", "ready", "degraded"} -> seen[w]
                                   [] OTHER -> {}]
    /\ verdict' = [verdict EXCEPT ![w] = Unasked]
    /\ UNCHANGED <<vars, status>>

(* The list of revoked tokens does not answer and the request is refused, with a 503. *)
LetIn(w) ==
    \/ status["redis"] # "down" /\ Does(w, "entering", "handling")
    \/ (<<"redis", "down">> \in seen[w] \/ "redis" \notin open) /\ Does(w, "entering", "answering")

(* Reads, writes and refusals, with an event to publish at the end or without. *)
Handle(w) == \E d \in {"publishing", "answering"} : Does(w, "handling", d)

-----------------------------------------------------------------------------
QueuesOpen == {"queues", "queueRedis"} \subseteq open

PublishedUnlessResent(w) ==
    /\ <<"redis", "down">> \notin seen[w]
    /\ status["redis"] = "up" /\ QueuesOpen
    /\ Does(w, "publishing", "answering")

(* The job is in the queue.  While Redis is down the command waits in the client, which
   sends it when it is connected again. *)
Published(w) ==
    /\ status["redis"] = "up" /\ QueuesOpen
    /\ Does(w, "publishing", "answering")

(* An answer that is an error, or a client closed with the command in it.  The request
   logs it and goes on: the event is lost.  A job fails by it and is tried again. *)
NotPublished(w) ==
    /\ status["redis"] = "full" \/ ~QueuesOpen
    /\ Does(w, "publishing", "lost")

-----------------------------------------------------------------------------
Finds(w, p, what) ==
    /\ Running
    /\ doing[w] = "probing" /\ verdict[w][p] = "pending"
    /\ verdict' = [verdict EXCEPT ![w][p] = what]
    /\ UNCHANGED <<vars, status, doing, seen>>

ProbeAnswers(w, p) ==
    /\ status[ServerOf[p]] # "down" /\ ConnectionOf[p] \in open
    /\ Finds(w, p, "healthy")

(* The queues' client never fails for want of a server.  A client that was closed fails
   whatever the server. *)
ProbeFails(w, p) ==
    /\ \/ p # "queues" /\ <<ServerOf[p], "down">> \in seen[w]
       \/ ConnectionOf[p] \notin open
    /\ Finds(w, p, "failed")

ProbeTimesOutWell(w, p) == Finds(w, p, "healthy")

ProbeTimesOutIfUp(w, p) == status[ServerOf[p]] # "down" /\ Finds(w, p, "late")

(* The timer is as likely to win when the dependency is only slow. *)
ProbeTimesOut(w, p) == Finds(w, p, "late")

Asked(w) == \A p \in Probes : verdict[w][p] # "pending"

(* 200 or 503, once the last dependency has answered or run out of time. *)
Report(w) ==
    /\ Asked(w)
    /\ Does(w, "probing", IF \A p \in Probes : verdict[w][p] = "healthy" THEN "ready" ELSE "degraded")

(* Anything may be slow to end; ending a job takes a command to Redis. *)
Ends(w) ==
    /\ Finish(w)
    /\ doing[w] \in {"answering", "lost", "ready", "degraded"}
    /\ role = "worker" => status["redis"] = "up"
    /\ doing' = [doing EXCEPT ![w] = "none"]
    /\ seen' = [seen EXCEPT ![w] = {}]
    /\ UNCHANGED <<status, verdict>>

SocketRunsOut(w) == KeepAliveRunsOut(w) /\ UNCHANGED <<status, workVars>>

ProcessNext ==
    \/ BootWithMongo \/ StopMeanwhile \/ ServerChanges
    \/ \E w \in Work : \/ TakeIn(w) \/ LetIn(w) \/ Handle(w) \/ Published(w) \/ NotPublished(w)
                       \/ Report(w) \/ Ends(w) \/ SocketRunsOut(w)
    \/ \E w \in Work, p \in Probes : ProbeAnswers(w, p) \/ ProbeFails(w, p) \/ ProbeTimesOut(w, p)

(* Timers that are due fire, an empty loop ends, a report that is complete is sent, and
   a client that stays connected gets its commands answered.  Nothing says that handling
   ends, that a server comes back, or that a connection closes. *)
Fairness ==
    /\ WF_processVars(StopMeanwhile /\ ((\E s \in Signals : TimerFires(s)) \/ LoopEmpties))
    /\ \A w \in Work : /\ WF_processVars(Published(w) \/ NotPublished(w))
                       /\ WF_processVars(Report(w) \/ \E p \in Probes : ProbeTimesOut(w, p))

ProcessSpec == ProcessInit /\ [][ProcessNext]_processVars /\ Fairness

-----------------------------------------------------------------------------
(* Types; what a piece of work does goes with how far it is, and Redis alone is full. *)
ProcessTypeOK ==
    /\ TypeOK
    /\ status \in [Servers -> {"up", "down", "full"}]
    /\ \A v \in Servers \ {"redis"} : status[v] # "full"
    /\ doing \in [Work -> {"none", "entering", "handling", "publishing", "lost", "answering",
                           "probing", "ready", "degraded"}]
    /\ \A w \in Work : (doing[w] = "none") = (work[w] # "active")
    /\ \A w \in Work : doing[w] # "probing" => verdict[w] = Unasked
    /\ verdict \in [Work -> [Probes -> {"unasked", "pending", "healthy", "failed", "late"}]]
    /\ seen \in [Work -> SUBSET (Servers \X {"up", "down", "full"})]

(* A probe of the readiness report fails only if its server was down while the check ran,
   though the process was closing its own connections; all is reported well only if each
   server answered at some time of the check.  A dependency that runs out of time is
   reported as unhealthy too, and may only have been slow. *)
BlameIsDeserved ==
    \A w \in Work, p \in Probes :
        verdict[w][p] = "failed" => <<ServerOf[p], "down">> \in seen[w]

PraiseIsDeserved ==
    \A w \in Work : doing[w] = "ready" =>
        \A p \in Probes : \E s \in {"up", "full"} : <<ServerOf[p], s>> \in seen[w]

(* The shutdown timer, and nothing else, ends a process that has started with a 1. *)
EndedByTimer == exit = "1" /\ shuttingDown

(* What was to be published and was not: Redis refused it, or the process has ended between
   the writes and the answer of Redis, with the event still to be made or in the client's
   memory.  (A job that is cut off like this is tried again; a request is not.) *)
EventLost(w) == doing[w] = "lost" \/ (~Running /\ doing[w] \in {"handling", "publishing"})

(* An event is lost to a Redis that refused it while it was being published, or to the
   shutdown timer that ended the process under it.  No outage does it alone, as long as
   the process lives, nor does closing the queues, nor an exit with 0. *)
EventLossesHaveACause ==
    \A w \in Work : EventLost(w) => <<"redis", "full">> \in seen[w] \/ EndedByTimer

(* The readiness check does not hang on a dependency that never answers. *)
ReadinessIsAnswered ==
    \A w \in Work : doing[w] = "probing" ~> (doing[w] # "probing" \/ ~Running)

(* An event that waited out an outage is published, if Redis stays up at last: it is not
   dropped but by a Redis that refused it, or with the process. *)
EventsOutlastAnOutage ==
    <>[](status["redis"] = "up") =>
        \A w \in Work : doing[w] = "publishing" ~>
            \/ doing[w] = "answering"
            \/ doing[w] = "lost" /\ <<"redis", "full">> \in seen[w]
            \/ ~Running

(* With Redis down, the answer to a request is sent all the same. *)
AnswerDoesNotWaitForRedis ==
    \A w \in Work : (role = "api" /\ doing[w] = "publishing")
                      ~> (doing[w] # "publishing" \/ ~Running)
=============================================================================

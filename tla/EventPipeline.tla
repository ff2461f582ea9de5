--------------------------- MODULE EventPipeline ---------------------------
(***************************************************************************)
(* What becomes of a domain event: EventRecorder publishes it to the        *)
(* domain-events queue, HandleDomainEvent audits it and, for the events     *)
(* NotificationPolicy drafts something for, saves a notification and         *)
(* schedules its delivery on the notifications queue; DispatchNotification   *)
(* sends it and marks it delivered or failed.                                *)
(*                                                                         *)
(* BullMQ is external and modelled as the code uses it: at-least-once        *)
(* delivery, a jobId that is added once while the job is kept, attempts      *)
(* with backoff, and a lock per run.  A run whose lock expires (its process  *)
(* died, or stood still) is stalled: the job is run again, and a run that    *)
(* was only standing still goes on beside the new one.                       *)
(*                                                                         *)
(* Each await of a use case is a step.  A notification keeps its status      *)
(* here, not its attempts counter or its text.                               *)
(***************************************************************************)
EXTENDS Integers

CONSTANTS
    Events,        \* ids of domain events; a notification has the id of its event
    Notifying,     \* the events NotificationPolicy drafts a notification for
    Slots,         \* jobs the workers may run at the same time
    MaxAttempts,   \* QUEUE_JOB_ATTEMPTS
    MaxStalls,     \* BullMQ's maxStalledCount
    Faults,        \* whether runs may throw, die or stall, and publishing fail
    Idle           \* what a free slot runs, and who holds a free lock

Jobs == {"event", "dispatch"} \X Events
EventJob(e) == <<"event", e>>
DispatchJob(e) == <<"dispatch", e>>    \* jobId notification-<id>
Of(j) == j[2]

ASSUME PipelineAssumption ==
    /\ Notifying \subseteq Events
    /\ MaxAttempts \in Nat \ {0} /\ MaxStalls \in Nat
    /\ Faults \in BOOLEAN
    /\ Idle \notin Jobs /\ Idle \notin Slots

VARIABLES
    reachable, \* those of Notifying whose recipient has a user row; none is ever deleted
    pub,       \* what EventRecorder did with each event
    job,       \* the state of each job in Redis
    tries,     \* its attemptsMade
    stalls,    \* how often it stalled
    lock,      \* the slot whose run holds its lock
    work,      \* the job each slot runs
    pc,        \* and where in the use case the run is
    audit,     \* ids in the audit_events collection
    note,      \* status of each notification document
    sends,     \* how often each notification was sent: 0, 1, or 2 for more
    mishap     \* history: events one of whose runs stalled, or did not save a delivery

queues == <<job, tries, stalls, lock>>
slots == <<work, pc>>
vars == <<reachable, pub, job, tries, stalls, lock, work, pc, audit, note, sends, mishap>>

HandleSteps == {"append", "find", "recipient", "create", "schedule"}
DispatchSteps == {"load", "send", "markDelivered", "markFailed", "notFound"}
EndSteps == {"rethrow", "complete"}

-----------------------------------------------------------------------------
Init ==
    /\ reachable \in SUBSET Notifying
    /\ pub = [e \in Events |-> "recorded"]
    /\ job = [j \in Jobs |-> "absent"]
    /\ tries = [j \in Jobs |-> 0]
    /\ stalls = [j \in Jobs |-> 0]
    /\ lock = [j \in Jobs |-> Idle]
    /\ work = [s \in Slots |-> Idle]
    /\ pc = [s \in Slots |-> "idle"]
    /\ audit = {}
    /\ note = [e \in Events |-> "none"]
    /\ sends = [e \in Events |-> 0]
    /\ mishap = {}

(* queue.add: a job whose id the queue still keeps, in whatever state, is ignored. *)
Add(j) ==
    /\ job' = [job EXCEPT ![j] = IF @ = "absent" THEN "waiting" ELSE @]
    /\ UNCHANGED <<tries, stalls, lock>>

(* EventRecorder.record -> publish.  ioredis sends the command again when a connection
   breaks before the answer: the event may be added more than once. *)
Publish(e) ==
    /\ pub[e] = "recorded"
    /\ Add(EventJob(e))
    /\ \/ pub' = [pub EXCEPT ![e] = "sent"]
       \/ Faults /\ UNCHANGED pub
    /\ UNCHANGED <<reachable, slots, audit, note, sends, mishap>>

(* publish rejects, or the API dies before it: logged at most, and the event is gone. *)
Drop(e) ==
    /\ Faults
    /\ pub[e] = "recorded"
    /\ pub' = [pub EXCEPT ![e] = "dropped"]
    /\ UNCHANGED <<reachable, queues, slots, audit, note, sends, mishap>>

-----------------------------------------------------------------------------
(* BullMQ. *)
Take(s, j) ==
    /\ work[s] = Idle
    /\ job[j] = "waiting"
    /\ job' = [job EXCEPT ![j] = "active"]
    /\ lock' = [lock EXCEPT ![j] = s]
    /\ work' = [work EXCEPT ![s] = j]
    /\ pc' = [pc EXCEPT ![s] = IF j[1] = "event" THEN "append" ELSE "load"]
    /\ UNCHANGED <<reachable, pub, tries, stalls, audit, note, sends, mishap>>

Leave(s) ==
    /\ work' = [work EXCEPT ![s] = Idle]
    /\ pc' = [pc EXCEPT ![s] = "idle"]

FailJobOnceMore(s, unrecoverable) ==
    LET j == work[s] IN
    /\ Leave(s)
    /\ IF lock[j] = s
       THEN /\ tries' = [tries EXCEPT ![j] = @ + 1]
            /\ job' = [job EXCEPT ![j] = IF unrecoverable \/ tries[j] >= MaxAttempts
                                         THEN "failed" ELSE "delayed"]
            /\ lock' = [lock EXCEPT ![j] = Idle]
       ELSE UNCHANGED <<tries, job, lock>>
    /\ UNCHANGED <<reachable, pub, stalls, audit, note, sends>>

(* The run threw.  Redis takes its word only while it holds the job's lock. *)
FailJob(s, unrecoverable) ==
    LET j == work[s] IN
    /\ Leave(s)
    /\ IF lock[j] = s
       THEN /\ tries' = [tries EXCEPT ![j] = @ + 1]
            /\ job' = [job EXCEPT ![j] = IF unrecoverable \/ tries[j] + 1 >= MaxAttempts
                                         THEN "failed" ELSE "delayed"]
            /\ lock' = [lock EXCEPT ![j] = Idle]
       ELSE UNCHANGED <<tries, job, lock>>
    /\ UNCHANGED <<reachable, pub, stalls, audit, note, sends>>

Complete(s) ==
    LET j == work[s] IN
    /\ pc[s] = "complete"
    /\ Leave(s)
    /\ IF lock[j] = s
       THEN /\ job' = [job EXCEPT ![j] = "completed"]
            /\ lock' = [lock EXCEPT ![j] = Idle]
       ELSE UNCHANGED <<job, lock>>
    /\ UNCHANGED <<reachable, pub, tries, stalls, audit, note, sends, mishap>>

(* The backoff of a failed attempt is over. *)
Promote(j) ==
    /\ job[j] = "delayed"
    /\ job' = [job EXCEPT ![j] = "waiting"]
    /\ UNCHANGED <<reachable, pub, tries, stalls, lock, slots, audit, note, sends, mishap>>

(* The lock expired without being renewed. *)
Stall(j) ==
    /\ Faults
    /\ job[j] = "active"
    /\ stalls' = [stalls EXCEPT ![j] = @ + 1]
    /\ job' = [job EXCEPT ![j] = IF stalls[j] + 1 > MaxStalls THEN "failed" ELSE "waiting"]
    /\ lock' = [lock EXCEPT ![j] = Idle]
    /\ mishap' = mishap \cup {Of(j)}
    /\ UNCHANGED <<reachable, pub, tries, slots, audit, note, sends>>

(* removeOnComplete and removeOnFail keep only so many finished jobs. *)
Remove(j) ==
    /\ job[j] \in {"completed", "failed"}
    /\ job' = [job EXCEPT ![j] = "absent"]
    /\ tries' = [tries EXCEPT ![j] = 0]
    /\ stalls' = [stalls EXCEPT ![j] = 0]
    /\ UNCHANGED <<reachable, pub, lock, slots, audit, note, sends, mishap>>

(* The worker process dies, or is forced out after its shutdown timeout. *)
Crash(s) ==
    /\ Faults
    /\ work[s] # Idle
    /\ Leave(s)
    /\ UNCHANGED <<reachable, pub, queues, audit, note, sends, mishap>>

-----------------------------------------------------------------------------
(* One step of the use case slot s runs, on event e. *)
At(s, label, e) == pc[s] = label /\ e = Of(work[s])

Goto(s, label) ==
    /\ pc' = [pc EXCEPT ![s] = label]
    /\ UNCHANGED <<reachable, pub, queues, work, mishap>>

AppendIfPossible(s, e) ==
    /\ At(s, "append", e)
    /\ audit' \in {audit, audit \cup {e}}
    /\ Goto(s, IF e \in Notifying THEN "find" ELSE "complete")
    /\ UNCHANGED <<note, sends>>

(* HandleDomainEvent: $setOnInsert makes a second append the same as none. *)
Append(s, e) ==
    /\ At(s, "append", e)
    /\ audit' = audit \cup {e}
    /\ Goto(s, IF e \in Notifying THEN "find" ELSE "complete")
    /\ UNCHANGED <<note, sends>>

FindNotificationNever(s, e) ==
    /\ At(s, "find", e)
    /\ Goto(s, "recipient")
    /\ UNCHANGED <<audit, note, sends>>

FindNotificationInverted(s, e) ==
    /\ At(s, "find", e)
    /\ Goto(s, IF note[e] = "none" THEN "schedule" ELSE "recipient")
    /\ UNCHANGED <<audit, note, sends>>

FindNotification(s, e) ==
    /\ At(s, "find", e)
    /\ Goto(s, IF note[e] # "none" THEN "schedule" ELSE "recipient")
    /\ UNCHANGED <<audit, note, sends>>

FindRecipient(s, e) ==
    /\ At(s, "recipient", e)
    /\ Goto(s, IF e \in reachable THEN "create" ELSE "complete")
    /\ UNCHANGED <<audit, note, sends>>

(* save upserts the whole document, whatever is there by now. *)
CreateNotification(s, e) ==
    /\ At(s, "create", e)
    /\ note' = [note EXCEPT ![e] = "pending"]
    /\ Goto(s, "schedule")
    /\ UNCHANGED <<audit, sends>>

Schedule(s, e) ==
    /\ At(s, "schedule", e)
    /\ Add(DispatchJob(e))
    /\ pc' = [pc EXCEPT ![s] = "complete"]
    /\ UNCHANGED <<reachable, pub, work, audit, note, sends, mishap>>

LoadNotificationAndSend(s, e) ==
    /\ At(s, "load", e)
    /\ Goto(s, IF note[e] = "none" THEN "notFound" ELSE "send")
    /\ UNCHANGED <<audit, note, sends>>

LoadNotificationOnce(s, e) ==
    /\ At(s, "load", e)
    /\ Goto(s, IF note[e] = "pending" THEN "send" ELSE "complete")
    /\ UNCHANGED <<audit, note, sends>>

(* DispatchNotification. *)
LoadNotification(s, e) ==
    /\ At(s, "load", e)
    /\ Goto(s, CASE note[e] = "none"      -> "notFound"
                 [] note[e] = "delivered" -> "complete"
                 [] OTHER                 -> "send")
    /\ UNCHANGED <<audit, note, sends>>

Send(s, e) ==
    /\ At(s, "send", e)
    /\ \/ /\ sends' = [sends EXCEPT ![e] = IF @ < 2 THEN @ + 1 ELSE 2]
          /\ Goto(s, "markDelivered")
       \/ Faults /\ Goto(s, "markFailed") /\ UNCHANGED sends
    /\ UNCHANGED <<audit, note>>

MarkDelivered(s, e) ==
    /\ At(s, "markDelivered", e)
    /\ note' = [note EXCEPT ![e] = "delivered"]
    /\ Goto(s, "complete")
    /\ UNCHANGED <<audit, sends>>

MarkFailed(s, e) ==
    /\ At(s, "markFailed", e)
    /\ note' = [note EXCEPT ![e] = "failed"]
    /\ Goto(s, "rethrow")
    /\ UNCHANGED <<audit, sends>>

(* The sender's error thrown on, or an await that rejects: the job is tried again.  A
   domain error is a permanent failure: runOrGiveUp makes it an UnrecoverableError. *)
Throw(s) ==
    /\ work[s] # Idle
    /\ Faults \/ pc[s] \in {"rethrow", "notFound"}
    /\ FailJob(s, pc[s] = "notFound")
    /\ mishap' = IF pc[s] = "markDelivered" THEN mishap \cup {Of(work[s])} ELSE mishap

-----------------------------------------------------------------------------
Handle(s) == \E e \in Events :
    \/ Append(s, e) \/ FindNotification(s, e) \/ FindRecipient(s, e)
    \/ CreateNotification(s, e) \/ Schedule(s, e)

Dispatch(s) == \E e \in Events :
    \/ LoadNotification(s, e) \/ Send(s, e) \/ MarkDelivered(s, e) \/ MarkFailed(s, e)

Run(s) == Handle(s) \/ Dispatch(s) \/ Complete(s) \/ Throw(s)

Quiet ==
    /\ \A e \in Events : pub[e] # "recorded"
    /\ \A j \in Jobs : job[j] \in {"absent", "completed", "failed"}
    /\ UNCHANGED vars

Next ==
    \/ \E e \in Events : Publish(e) \/ Drop(e)
    \/ \E j \in Jobs : Promote(j) \/ Stall(j) \/ Remove(j) \/ \E s \in Slots : Take(s, j)
    \/ \E s \in Slots : Run(s) \/ Crash(s)
    \/ Quiet

(* A run goes on, a waiting job is taken when a slot is free, a delay ends, and the lock
   of a run that is gone expires. *)
Fairness ==
    /\ \A s \in Slots : WF_vars(Run(s))
    /\ \A j \in Jobs : /\ SF_vars(\E s \in Slots : Take(s, j))
                       /\ WF_vars(Promote(j))
                       /\ WF_vars(lock[j] # Idle /\ work[lock[j]] # j /\ Stall(j))
    /\ \A e \in Events : WF_vars(Publish(e))

Spec == Init /\ [][Next]_vars
FairSpec == Spec /\ Fairness

-----------------------------------------------------------------------------
TypeOK ==
    /\ reachable \subseteq Notifying
    /\ pub \in [Events -> {"recorded", "sent", "dropped"}]
    /\ job \in [Jobs -> {"absent", "waiting", "active", "delayed", "completed", "failed"}]
    /\ tries \in [Jobs -> 0 .. MaxAttempts]
    /\ stalls \in [Jobs -> 0 .. MaxStalls + 1]
    /\ lock \in [Jobs -> Slots \cup {Idle}]
    /\ work \in [Slots -> Jobs \cup {Idle}]
    /\ pc \in [Slots -> HandleSteps \cup DispatchSteps \cup EndSteps \cup {"idle"}]
    /\ audit \subseteq Events
    /\ note \in [Events -> {"none", "pending", "delivered", "failed"}]
    /\ sends \in [Events -> 0 .. 2]
    /\ mishap \subseteq Events

(* What the queues say is so, however often an event is handled again, whatever a run had
   done before it failed or stalled, and whoever finishes the job.  A delivery is scheduled
   only for a notification that is saved, so that none ends as NOT_FOUND; and a job is
   completed only if its work is done: the event audited and its notification saved, the
   notification delivered (and then not saved over, which takes a mishap). *)
JobsKeepTheirWord ==
    /\ \A e \in Events :
         /\ job[DispatchJob(e)] # "absent" => note[e] # "none"
         /\ job[EventJob(e)] = "completed" => e \in audit /\ (e \in reachable => note[e] # "none")
         /\ job[DispatchJob(e)] = "completed" => note[e] = "delivered" \/ e \in mishap
    /\ \A s \in Slots : pc[s] # "notFound"

(* Nothing is sent that is not in the audit trail, nor to a recipient that does not exist.  (A
   run checks it as a part of ImplementsDelivery.) *)
SentIsAudited == \A e \in Events : sends[e] > 0 => e \in audit /\ e \in reachable

(* Retries of the event, of the delivery and of queue.add send nothing twice: only a run
   that stalled, or that could not save its delivery, can. *)
OneDeliveryWithoutMishap == \A e \in Events : sends[e] > 1 => e \in mishap

(* A delivered notification stays delivered, unless a stalled run of its event or of its
   delivery saves over it. *)
DeliveredIsFinal ==
    [][\A e \in Events : note[e] = "delivered" => note'[e] = "delivered" \/ e \in mishap]_vars

(* Queues, retries, crashes and stalls show of an event only what DeliveryRules.tla allows. *)
D == INSTANCE DeliveryRules
ImplementsDelivery == D!Spec

(* README: publishing or running a job again never delivers a notification twice. *)
NeverDeliveredTwice == \A e \in Events : sends[e] < 2

Dead(j) == job[j] = "failed"

(* An event the queue accepted is audited in the end, or its job is given up: its attempts
   are used up, or it stalled too often. *)
EventsAreAudited ==
    \A e \in Events : <>(pub[e] = "sent") => <>(e \in audit \/ Dead(EventJob(e)))

(* And a notification that is due is delivered in the end, or one of its jobs is given up:
   whatever a first run had done before it failed, the next one takes it further. *)
NotificationsAreDelivered ==
    \A e \in Events :
        <>(pub[e] = "sent" /\ e \in reachable) =>
            <>(note[e] = "delivered" \/ Dead(EventJob(e)) \/ Dead(DispatchJob(e)))
=============================================================================

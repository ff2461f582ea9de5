------------------------ MODULE EventPipelineProofs ------------------------
(***************************************************************************)
(* Proofs about EventPipeline.tla, for any number of events and slots, any    *)
(* attempts and stalls, and with every fault: first what is never lost or     *)
(* made up, then that nothing is done twice, then the whole promise of        *)
(* DeliveryRules.tla.                                                        *)
(***************************************************************************)
EXTENDS EventPipeline, TLAPS

USE PipelineAssumption

(* Only a job with attempts left is run, and only a run of an active job holds its lock. *)
JobOK(j) ==
    /\ job[j] \in {"waiting", "active", "delayed"} => tries[j] < MaxAttempts
    /\ job[j] \in {"waiting", "active", "delayed"} => stalls[j] <= MaxStalls
    /\ job[j] = "absent" => tries[j] = 0 /\ stalls[j] = 0
    /\ lock[j] # Idle => job[j] = "active"

(* What is saved, scheduled and sent of an event, in this order. *)
EventOK(e) ==
    /\ note[e] # "none" => e \in audit /\ e \in reachable
    /\ job[DispatchJob(e)] # "absent" => note[e] # "none"
    /\ sends[e] > 0 => note[e] # "none"

(* What the run in slot s has established of its event where it stands. *)
RunOK(s) ==
    /\ pc[s] = "idle" <=> work[s] = Idle
    /\ pc[s] \in HandleSteps => work[s] \in {"event"} \X Events
    /\ pc[s] \in DispatchSteps => work[s] \in {"dispatch"} \X Events
    /\ pc[s] \in HandleSteps \ {"append"} => Of(work[s]) \in audit
    /\ pc[s] = "create" => Of(work[s]) \in reachable
    /\ pc[s] = "schedule" => note[Of(work[s])] # "none"
    /\ pc[s] \in DispatchSteps => note[Of(work[s])] # "none"
    /\ pc[s] # "notFound"

IInv ==
    /\ TypeOK
    /\ \A j \in Jobs : JobOK(j)
    /\ \A e \in Events : EventOK(e)
    /\ \A s \in Slots : RunOK(s)

-----------------------------------------------------------------------------
LEMMA JobFacts ==
  /\ \A e \in Events : EventJob(e) \in Jobs /\ DispatchJob(e) \in Jobs
  /\ \A e \in Events : EventJob(e) \in {"event"} \X Events
  /\ \A e, f \in Events : EventJob(e) # DispatchJob(f)
  /\ \A e \in Events : Of(DispatchJob(e)) = e
  /\ \A j \in Jobs : Of(j) \in Events
  /\ \A j \in {"dispatch"} \X Events : j = DispatchJob(Of(j))
  /\ \A j \in Jobs : j[1] = "event" => j \in {"event"} \X Events
  /\ \A j \in Jobs : j[1] # "event" => j \in {"dispatch"} \X Events
  /\ Idle \notin {"event"} \X Events /\ Idle \notin {"dispatch"} \X Events
BY DEF Jobs, EventJob, DispatchJob, Of

LEMMA BusySlot ==
  ASSUME IInv, NEW s \in Slots, pc[s] # "idle"
  PROVE  work[s] \in Jobs /\ Of(work[s]) \in Events
BY JobFacts DEF IInv, TypeOK, RunOK

(* Nothing that is saved, audited, scheduled or sent is undone by a step that keeps these,
   so what the other runs have established stays established. *)
Keeps ==
    /\ audit \subseteq audit' /\ reachable' = reachable
    /\ \A e \in Events : note[e] # "none" => note'[e] # "none"

LEMMA OtherRunsStay ==
  ASSUME IInv, Keeps, NEW s \in Slots, work'[s] = work[s], pc'[s] = pc[s]
  PROVE  RunOK(s)'
<1>1. CASE pc[s] = "idle"
  BY <1>1 DEF IInv, RunOK, HandleSteps, DispatchSteps
<1>2. CASE pc[s] # "idle"
  <2>1. Of(work[s]) \in Events
    BY <1>2, BusySlot
  <2>2. RunOK(s)
    BY DEF IInv
  <2> QED BY <2>1, <2>2 DEF RunOK, Keeps, Of
<1> QED BY <1>1, <1>2

LEMMA AddKeepsJobs ==
  ASSUME IInv, NEW j \in Jobs, Add(j)
  PROVE  /\ job' \in [Jobs -> {"absent", "waiting", "active", "delayed", "completed", "failed"}]
         /\ \A k \in Jobs : JobOK(k)'
         /\ \A k \in Jobs \ {j} : job'[k] = job[k]
BY DEF IInv, TypeOK, Add, JobOK

-----------------------------------------------------------------------------
(* Steps of EventRecorder and of the queue. *)
LEMMA QueueSteps ==
  ASSUME IInv,
         \/ \E e \in Events : Publish(e) \/ Drop(e)
         \/ \E j \in Jobs : Promote(j) \/ Stall(j) \/ Remove(j)
  PROVE  IInv'
<1> USE DEF IInv, TypeOK
<1>1. ASSUME NEW e \in Events, Publish(e) PROVE IInv'
  <2>1. Add(EventJob(e)) /\ EventJob(e) \in Jobs
    BY <1>1, JobFacts DEF Publish
  <2>2. /\ \A j \in Jobs : JobOK(j)'
        /\ \A j \in Jobs \ {EventJob(e)} : job'[j] = job[j]
        /\ job' \in [Jobs -> {"absent", "waiting", "active", "delayed", "completed", "failed"}]
    BY <2>1, AddKeepsJobs
  <2>3. TypeOK'
    BY <1>1, <2>2 DEF Publish, Add, slots
  <2>4. \A s \in Slots : RunOK(s)'
    BY <1>1, OtherRunsStay DEF Publish, slots, Keeps
  <2>5. \A f \in Events : EventOK(f)'
    BY <1>1, <2>2, JobFacts DEF Publish, EventOK, DispatchJob
  <2> QED BY <2>2, <2>3, <2>4, <2>5
<1>2. ASSUME NEW e \in Events, Drop(e) PROVE IInv'
  <2>1. \A s \in Slots : RunOK(s)'
    BY <1>2, OtherRunsStay DEF Drop, slots, Keeps
  <2> QED BY <1>2, <2>1 DEF Drop, queues, slots, JobOK, EventOK, DispatchJob
<1>3. ASSUME NEW j \in Jobs, Promote(j) \/ Stall(j) \/ Remove(j) PROVE IInv'
  <2>1. \A s \in Slots : RunOK(s)'
    BY <1>3, OtherRunsStay DEF Promote, Stall, Remove, slots, Keeps
  <2>2. \A k \in Jobs : JobOK(k)'
    BY <1>3 DEF Promote, Stall, Remove, JobOK
  <2>3. \A k \in Jobs : job'[k] # "absent" => job[k] # "absent"
    BY <1>3 DEF Promote, Stall, Remove
  <2>4. \A e \in Events : EventOK(e)'
    BY <1>3, <2>3, JobFacts DEF Promote, Stall, Remove, EventOK, DispatchJob
  <2>5. TypeOK'
    <3>1. CASE Promote(j) \/ Remove(j)
      BY <3>1 DEF Promote, Remove, slots
    <3>2. CASE Stall(j)
      <4>1. stalls[j] + 1 \in 0 .. MaxStalls + 1 /\ Of(j) \in Events
        BY <3>2, JobFacts DEF Stall, JobOK
      <4> QED BY <3>2, <4>1 DEF Stall, slots
    <3> QED BY <1>3, <3>1, <3>2
  <2> QED BY <2>1, <2>2, <2>4, <2>5
<1> QED BY <1>1, <1>2, <1>3

(* A run starts, or ends: completed, failed or killed. *)
LEMMA RunsComeAndGo ==
  ASSUME IInv, NEW s \in Slots,
         (\E j \in Jobs : Take(s, j)) \/ Complete(s) \/ Throw(s) \/ Crash(s)
  PROVE  IInv'
<1> USE DEF IInv, TypeOK
<1>1. ASSUME NEW j \in Jobs, Take(s, j) PROVE IInv'
  <2>1. \A q \in Slots \ {s} : RunOK(q)'
    BY <1>1, OtherRunsStay DEF Take, Keeps
  <2>2. j[1] # "event" => note[Of(j)] # "none"
    BY <1>1, JobFacts DEF Take, EventOK
  <2>3. RunOK(s)'
    BY <1>1, <2>2, JobFacts DEF Take, RunOK, HandleSteps, DispatchSteps, Of
  <2>4. \A k \in Jobs : JobOK(k)'
    BY <1>1 DEF Take, JobOK
  <2>5. \A e \in Events : EventOK(e)'
    BY <1>1, JobFacts DEF Take, EventOK, DispatchJob
  <2>6. TypeOK'
    BY <1>1 DEF Take, HandleSteps, DispatchSteps
  <2> QED BY <2>1, <2>3, <2>4, <2>5, <2>6
<1>2. ASSUME Complete(s) \/ Throw(s) \/ Crash(s) PROVE IInv'
  <2> DEFINE j == work[s]
  <2>1. j \in Jobs /\ Leave(s) /\ UNCHANGED <<reachable, pub, stalls, audit, note, sends>>
    BY <1>2, BusySlot DEF Complete, Throw, Crash, FailJob, queues, RunOK
  <2>2. /\ \A q \in Slots \ {s} : work'[q] = work[q] /\ pc'[q] = pc[q]
        /\ work'[s] = Idle /\ pc'[s] = "idle"
        /\ work' \in [Slots -> Jobs \cup {Idle}]
        /\ pc' \in [Slots -> HandleSteps \cup DispatchSteps \cup EndSteps \cup {"idle"}]
    BY <2>1 DEF Leave
  <2>3. \A q \in Slots : RunOK(q)'
    <3>1. \A q \in Slots \ {s} : RunOK(q)'
      BY <2>1, <2>2, OtherRunsStay DEF Keeps
    <3>2. RunOK(s)'
      BY <2>2 DEF RunOK, HandleSteps, DispatchSteps
    <3> QED BY <3>1, <3>2
  <2>4. CASE lock[j] = s /\ ~Crash(s)
    <3>1. job[j] = "active"
      BY <2>1, <2>4 DEF JobOK
    <3>2. /\ \E st \in {"completed", "failed", "delayed"} :
               /\ job' = [job EXCEPT ![j] = st]
               /\ st = "delayed" => tries'[j] < MaxAttempts
        /\ lock' = [lock EXCEPT ![j] = Idle]
        /\ \/ tries' = tries
           \/ tries' = [tries EXCEPT ![j] = @ + 1]
      BY <1>2, <2>1, <2>4 DEF Complete, Throw, FailJob
    <3>3. \A k \in Jobs : JobOK(k)'
      BY <2>1, <3>1, <3>2 DEF JobOK
    <3>4. \A e \in Events : EventOK(e)'
      BY <2>1, <3>1, <3>2, JobFacts DEF EventOK, DispatchJob
    <3>5. mishap' \subseteq Events
      BY <1>2, <2>1, JobFacts DEF Complete, Throw, Crash
    <3>6. TypeOK'
      BY <2>1, <2>2, <3>1, <3>2, <3>5 DEF JobOK
    <3> QED BY <2>3, <3>3, <3>4, <3>6
  <2>5. CASE lock[j] # s \/ Crash(s)
    <3>1. UNCHANGED <<job, lock, tries>>
      BY <1>2, <2>5 DEF Complete, Throw, FailJob, Crash, queues
    <3>2. mishap' \subseteq Events
      BY <1>2, <2>1, JobFacts DEF Complete, Throw, Crash
    <3> QED BY <2>1, <2>2, <2>3, <3>1, <3>2 DEF JobOK, EventOK, DispatchJob
  <2> QED BY <2>4, <2>5
<1> QED BY <1>1, <1>2

-----------------------------------------------------------------------------
(* A step of a use case moves the run in slot s alone. *)
LEMMA UseCaseSteps ==
  ASSUME IInv, NEW s \in Slots, Handle(s) \/ Dispatch(s)
  PROVE  IInv'
<1> USE DEF IInv, TypeOK
<1>1. PICK e \in Events :
        \/ Append(s, e) \/ FindNotification(s, e) \/ FindRecipient(s, e)
        \/ CreateNotification(s, e) \/ Schedule(s, e)
        \/ LoadNotification(s, e) \/ Send(s, e) \/ MarkDelivered(s, e) \/ MarkFailed(s, e)
  BY DEF Handle, Dispatch
<1>2. /\ e = Of(work[s]) /\ work' = work /\ mishap' = mishap
      /\ pub' = pub /\ reachable' = reachable
      /\ pc[s] \in HandleSteps \cup DispatchSteps
      /\ \E label \in HandleSteps \cup DispatchSteps \cup EndSteps :
           pc' = [pc EXCEPT ![s] = label]
  BY <1>1 DEF Append, FindNotification, FindRecipient, CreateNotification, Schedule,
     LoadNotification, Send, MarkDelivered, MarkFailed, Goto, At, HandleSteps,
     DispatchSteps, EndSteps
<1>3. RunOK(s) /\ EventOK(e)
  OBVIOUS
<1>4. Keeps
  BY <1>1 DEF Append, FindNotification, FindRecipient, CreateNotification, Schedule,
     LoadNotification, Send, MarkDelivered, MarkFailed, Goto, Keeps
<1>5. \A q \in Slots \ {s} : RunOK(q)'
  BY <1>2, <1>4, OtherRunsStay
<1>6. CASE Schedule(s, e)
  <2>1. Add(DispatchJob(e)) /\ DispatchJob(e) \in Jobs /\ note[e] # "none"
    BY <1>2, <1>3, <1>6, JobFacts DEF Schedule, RunOK, At
  <2>2. /\ \A j \in Jobs : JobOK(j)'
        /\ \A j \in Jobs \ {DispatchJob(e)} : job'[j] = job[j]
        /\ job' \in [Jobs -> {"absent", "waiting", "active", "delayed", "completed", "failed"}]
    BY <2>1, AddKeepsJobs
  <2>3. \A f \in Events : EventOK(f)'
    <3>1. \A f \in Events \ {e} : DispatchJob(f) \in Jobs \ {DispatchJob(e)}
      BY JobFacts DEF DispatchJob
    <3> QED BY <1>2, <1>6, <2>1, <2>2, <3>1 DEF Schedule, EventOK
  <2>4. RunOK(s)'
    BY <1>2, <1>3, <1>6 DEF Schedule, RunOK, HandleSteps, DispatchSteps
  <2>5. TypeOK'
    BY <1>2, <1>6, <2>2 DEF Schedule, Add
  <2> QED BY <1>5, <2>2, <2>3, <2>4, <2>5
<1>7. CASE ~Schedule(s, e)
  <2>1. UNCHANGED queues
    BY <1>1, <1>7 DEF Append, FindNotification, FindRecipient, CreateNotification,
       LoadNotification, Send, MarkDelivered, MarkFailed, Goto
  <2>2. \A j \in Jobs : JobOK(j)'
    BY <2>1 DEF queues, JobOK
  <2>3. /\ audit' \subseteq Events
        /\ note' \in [Events -> {"none", "pending", "delivered", "failed"}]
        /\ sends' \in [Events -> 0 .. 2]
    BY <1>1, <1>7 DEF Append, FindNotification, FindRecipient, CreateNotification,
       LoadNotification, Send, MarkDelivered, MarkFailed
  <2>4. TypeOK'
    BY <1>2, <2>1, <2>3 DEF queues
  <2>5. \A f \in Events : EventOK(f)'
    <3>1. CASE CreateNotification(s, e)
      <4>1. e \in audit /\ e \in reachable
        BY <1>3, <3>1 DEF CreateNotification, At, RunOK, HandleSteps
      <4> QED BY <1>2, <2>1, <3>1, <4>1 DEF CreateNotification, EventOK, queues, DispatchJob
    <3>2. CASE Send(s, e) \/ MarkDelivered(s, e) \/ MarkFailed(s, e)
      <4>1. note[e] # "none"
        BY <1>3, <3>2 DEF Send, MarkDelivered, MarkFailed, At, RunOK, DispatchSteps
      <4>2. UNCHANGED <<job, audit, reachable>>
        BY <1>2, <2>1, <3>2 DEF Send, MarkDelivered, MarkFailed, queues
      <4>3. \A f \in Events : /\ note'[f] # "none" <=> note[f] # "none"
                              /\ f # e => sends'[f] = sends[f]
        BY <3>2, <4>1 DEF Send, MarkDelivered, MarkFailed
      <4> QED BY <4>1, <4>2, <4>3 DEF EventOK, DispatchJob
    <3>3. CASE Append(s, e) \/ FindNotification(s, e) \/ FindRecipient(s, e) \/ LoadNotification(s, e)
      BY <1>2, <2>1, <3>3 DEF Append, FindNotification, FindRecipient, LoadNotification, EventOK,
         queues, DispatchJob
    <3> QED BY <1>1, <1>7, <3>1, <3>2, <3>3
  <2>6. RunOK(s)'
    <3>1. CASE Append(s, e)
      BY <1>2, <1>3, <3>1 DEF Append, Goto, At, RunOK, HandleSteps, DispatchSteps
    <3>2. CASE FindNotification(s, e) \/ FindRecipient(s, e)
      BY <1>2, <1>3, <3>2 DEF FindNotification, FindRecipient, Goto, At, RunOK, HandleSteps,
         DispatchSteps
    <3>3. CASE CreateNotification(s, e)
      BY <1>2, <1>3, <3>3 DEF CreateNotification, Goto, At, RunOK, HandleSteps, DispatchSteps
    <3>4. CASE LoadNotification(s, e)
      BY <1>2, <1>3, <3>4 DEF LoadNotification, Goto, At, RunOK, HandleSteps, DispatchSteps
    <3>5. CASE Send(s, e) \/ MarkDelivered(s, e) \/ MarkFailed(s, e)
      BY <1>2, <1>3, <3>5 DEF Send, MarkDelivered, MarkFailed, Goto, At, RunOK, HandleSteps,
         DispatchSteps
    <3> QED BY <1>1, <1>7, <3>1, <3>2, <3>3, <3>4, <3>5
  <2> QED BY <1>5, <2>2, <2>4, <2>5, <2>6
<1> QED BY <1>6, <1>7

-----------------------------------------------------------------------------
LEMMA InitialStates ==
  Init => IInv
BY JobFacts DEF Init, IInv, TypeOK, JobOK, EventOK, RunOK, HandleSteps, DispatchSteps

LEMMA Stutters ==
  ASSUME IInv, UNCHANGED vars
  PROVE  IInv'
<1>1. \A s \in Slots : RunOK(s)'
  BY OtherRunsStay DEF vars, Keeps
<1> QED BY <1>1 DEF vars, IInv, TypeOK, JobOK, EventOK, DispatchJob

(* The inductive invariant. *)
THEOREM Invariant == Spec => []IInv
<1>1. Init => IInv
  BY InitialStates
<1>2. IInv /\ [Next]_vars => IInv'
  <2> SUFFICES ASSUME IInv, [Next]_vars PROVE IInv'
    OBVIOUS
  <2>1. CASE UNCHANGED vars
    BY <2>1, Stutters
  <2>2. CASE \E s \in Slots : Run(s) \/ Crash(s)
    BY <2>2, RunsComeAndGo, UseCaseSteps DEF Run
  <2>3. CASE \E j \in Jobs, s \in Slots : Take(s, j)
    BY <2>3, RunsComeAndGo
  <2>4. CASE \/ \E e \in Events : Publish(e) \/ Drop(e)
             \/ \E j \in Jobs : Promote(j) \/ Stall(j) \/ Remove(j)
    BY <2>4, QueueSteps
  <2> QED BY <2>1, <2>2, <2>3, <2>4 DEF Next, Quiet
<1> QED BY <1>1, <1>2, PTL DEF Spec

(* Type correctness: no job is tried or stalls more often than BullMQ is told to allow,
   and every run stands at a step of the use case of its queue. *)
THEOREM TypeCorrect == Spec => []TypeOK
BY Invariant, PTL DEF IInv

(* Nothing is sent that is not in the audit trail, nor to somebody who does not exist. *)
THEOREM SentEventsAreAudited == Spec => []SentIsAudited
<1>1. IInv => SentIsAudited
  BY DEF IInv, TypeOK, EventOK, SentIsAudited
<1> QED BY Invariant, <1>1, PTL

-----------------------------------------------------------------------------
(* The idempotence of the pipeline: short of a stalled run, or of a delivery that could
   not be saved, a notification is sent once, and once delivered it stays so. *)

(* A run that never stalled is the only one of its job: it holds the lock. *)
LockOK(s) == work[s] # Idle /\ Of(work[s]) \notin mishap => lock[work[s]] = s

(* What it read of the notification is still so. *)
FreshOK(s) ==
    /\ Of(work[s]) \notin mishap /\ pc[s] \in {"recipient", "create"} =>
         note[Of(work[s])] = "none"
    /\ Of(work[s]) \notin mishap /\ pc[s] \in {"send", "markFailed"} =>
         sends[Of(work[s])] = 0
    /\ pc[s] = "markDelivered" => sends[Of(work[s])] > 0

(* What was sent is delivered, or the run that sent it has yet to say so, or died before. *)
SentOK(e) ==
    /\ note[e] = "delivered" => sends[e] > 0
    /\ e \notin mishap /\ sends[e] > 0 =>
         /\ sends[e] = 1
         /\ \/ note[e] = "delivered"
            \/ /\ job[DispatchJob(e)] = "active"
               /\ \A s \in Slots : work[s] = DispatchJob(e) => pc[s] = "markDelivered"

DInv ==
    /\ IInv
    /\ \A s \in Slots : LockOK(s) /\ FreshOK(s)
    /\ \A e \in Events : SentOK(e)

-----------------------------------------------------------------------------
(* Two runs of the same job: one of them stalled. *)
LEMMA OnlyRun ==
  ASSUME DInv, NEW s \in Slots, NEW q \in Slots, work[q] = work[s], work[s] # Idle,
         Of(work[s]) \notin mishap
  PROVE  q = s
BY DEF DInv, LockOK

LEMMA KindOfRun ==
  ASSUME DInv, NEW s \in Slots
  PROVE  /\ pc[s] \in HandleSteps => work[s] = EventJob(Of(work[s]))
         /\ pc[s] \in DispatchSteps => work[s] = DispatchJob(Of(work[s]))
         /\ pc[s] # "idle" => work[s] \in Jobs /\ work[s] # Idle /\ Of(work[s]) \in Events
<1>1. RunOK(s)
  BY DEF DInv, IInv
<1>2. pc[s] # "idle" => work[s] \in Jobs /\ work[s] # Idle /\ Of(work[s]) \in Events
  <2>1. pc[s] # "idle" => work[s] \in Jobs /\ Of(work[s]) \in Events
    BY BusySlot DEF DInv
  <2>2. Idle \notin Jobs
    OBVIOUS
  <2> QED BY <2>1, <2>2
<1>3. \A j \in {"event"} \X Events : j = EventJob(Of(j))
  BY DEF EventJob, Of
<1> QED BY <1>1, <1>2, <1>3, JobFacts DEF RunOK

-----------------------------------------------------------------------------
(* Steps of EventRecorder and of the queue leave the runs where they are. *)
LEMMA DeliveryQueueSteps ==
  ASSUME DInv,
         \/ \E e \in Events : Publish(e) \/ Drop(e)
         \/ \E j \in Jobs : Promote(j) \/ Stall(j) \/ Remove(j)
  PROVE  DInv'
<1> USE DEF DInv
<1>1. IInv'
  BY QueueSteps
<1>2. UNCHANGED <<work, pc, note, sends>> /\ mishap \subseteq mishap'
  BY DEF Publish, Drop, Promote, Stall, Remove, Add, queues, slots
<1>3. \A s \in Slots : FreshOK(s)'
  BY <1>2 DEF FreshOK, Of
<1>4. ASSUME NEW e \in Events, Publish(e) \/ Drop(e) PROVE DInv'
  <2>1. UNCHANGED lock /\ \A f \in Events : job[DispatchJob(f)] = "active" => job'[DispatchJob(f)] = "active"
    BY <1>4, JobFacts DEF Publish, Drop, Add, queues, EventJob, DispatchJob, IInv, TypeOK
  <2> QED BY <1>1, <1>2, <1>3, <2>1 DEF LockOK, SentOK, Of, DispatchJob
<1>5. ASSUME NEW j \in Jobs, Promote(j) \/ Remove(j) PROVE DInv'
  <2>1. UNCHANGED lock /\ \A f \in Events : job[DispatchJob(f)] = "active" => job'[DispatchJob(f)] = "active"
    BY <1>5, JobFacts DEF Promote, Remove, IInv, TypeOK
  <2> QED BY <1>1, <1>2, <1>3, <2>1 DEF LockOK, SentOK, Of, DispatchJob
<1>6. ASSUME NEW j \in Jobs, Stall(j) PROVE DInv'
  <2>1. Of(j) \in mishap' /\ \A k \in Jobs \ {j} : lock'[k] = lock[k] /\ job'[k] = job[k]
    BY <1>6 DEF Stall, IInv, TypeOK
  <2>2. \A s \in Slots : LockOK(s)'
    BY <1>2, <2>1 DEF LockOK, Of, IInv, TypeOK
  <2>3. \A e \in Events : SentOK(e)'
    <3>1. \A e \in Events : e # Of(j) => job'[DispatchJob(e)] = job[DispatchJob(e)]
      BY <2>1, JobFacts
    <3> QED BY <1>2, <2>1, <3>1 DEF SentOK, DispatchJob
  <2> QED BY <1>1, <1>3, <2>2, <2>3
<1> QED BY <1>4, <1>5, <1>6

LEMMA DeliveryRunsComeAndGo ==
  ASSUME DInv, NEW s \in Slots,
         (\E j \in Jobs : Take(s, j)) \/ Complete(s) \/ Throw(s) \/ Crash(s)
  PROVE  DInv'
<1> USE DEF DInv
<1>1. IInv'
  BY RunsComeAndGo
<1>2. UNCHANGED <<note, sends>> /\ mishap \subseteq mishap'
  BY DEF Take, Complete, Throw, Crash, FailJob
<1>3. ASSUME NEW j \in Jobs, Take(s, j) PROVE DInv'
  <2>1. /\ mishap' = mishap /\ job[j] = "waiting" /\ lock[j] = Idle
        /\ \A q \in Slots \ {s} : work'[q] = work[q] /\ pc'[q] = pc[q]
        /\ \A k \in Jobs \ {j} : lock'[k] = lock[k] /\ job'[k] = job[k]
        /\ work'[s] = j /\ lock'[j] = s /\ pc'[s] \in {"append", "load"}
    BY <1>3 DEF Take, IInv, TypeOK, JobOK
  <2>2. \A q \in Slots : LockOK(q)'
    <3>1. LockOK(s)'
      BY <2>1 DEF LockOK
    <3>2. ASSUME NEW q \in Slots \ {s} PROVE LockOK(q)'
      <4>1. LockOK(q) /\ work[q] \in Jobs \cup {Idle} /\ q # Idle
        BY DEF IInv, TypeOK
      <4>2. CASE work[q] = j
        BY <2>1, <4>1, <4>2 DEF LockOK, Of
      <4>3. CASE work[q] # j
        BY <2>1, <4>1, <4>3 DEF LockOK, Of
      <4> QED BY <4>2, <4>3
    <3> QED BY <3>1, <3>2
  <2>3. \A q \in Slots : FreshOK(q)'
    BY <1>2, <2>1 DEF FreshOK, Of
  <2>4. \A e \in Events : SentOK(e)'
    <3> SUFFICES ASSUME NEW e \in Events PROVE SentOK(e)'
      OBVIOUS
    <3>1. DispatchJob(e) \in Jobs /\ SentOK(e)
      BY JobFacts
    <3>2. CASE DispatchJob(e) = j
      BY <1>2, <2>1, <3>1, <3>2 DEF SentOK, DispatchJob
    <3>3. CASE DispatchJob(e) # j
      <4>1. /\ job'[DispatchJob(e)] = job[DispatchJob(e)]
            /\ work'[s] # DispatchJob(e)
        BY <2>1, <3>1, <3>3
      <4> QED BY <1>2, <2>1, <3>1, <4>1 DEF SentOK, DispatchJob
    <3> QED BY <3>2, <3>3
  <2> QED BY <1>1, <2>2, <2>3, <2>4
<1>4. ASSUME Complete(s) \/ Throw(s) \/ Crash(s) PROVE DInv'
  <2> DEFINE j == work[s]
  <2>1. j \in Jobs /\ j # Idle /\ pc[s] # "idle" /\ Of(j) \in Events
    BY <1>4, KindOfRun DEF Complete, Throw, Crash, IInv, RunOK
  <2>2. /\ \A q \in Slots \ {s} : work'[q] = work[q] /\ pc'[q] = pc[q]
        /\ work'[s] = Idle /\ pc'[s] = "idle"
        /\ \A k \in Jobs \ {j} : lock'[k] = lock[k] /\ job'[k] = job[k]
    BY <1>4 DEF Complete, Throw, Crash, FailJob, Leave, queues, IInv, TypeOK
  <2>3. \A q \in Slots : FreshOK(q)'
    BY <1>2, <2>2 DEF FreshOK, Of
  <2>4. \A q \in Slots : LockOK(q)'
    <3> SUFFICES ASSUME NEW q \in Slots, work'[q] # Idle, Of(work'[q]) \notin mishap'
                 PROVE  lock'[work'[q]] = q
      BY DEF LockOK, Of
    <3>1. q # s /\ work'[q] = work[q] /\ work[q] \in Jobs /\ lock[work[q]] = q
      BY <1>2, <2>2 DEF LockOK, Of, IInv, TypeOK
    <3>2. CASE work[q] # j
      BY <2>2, <3>1, <3>2
    <3>3. CASE work[q] = j
      BY <1>4, <3>1, <3>3 DEF Complete, Throw, Crash, FailJob, queues
    <3> QED BY <3>2, <3>3
  <2>5. \A e \in Events : SentOK(e)'
    <3> SUFFICES ASSUME NEW e \in Events, e \notin mishap', sends[e] > 0,
                        note[e] # "delivered"
                 PROVE  /\ job'[DispatchJob(e)] = "active"
                        /\ \A q \in Slots :
                             work'[q] = DispatchJob(e) => pc'[q] = "markDelivered"
      BY <1>2 DEF SentOK, DispatchJob
    <3>1. /\ job[DispatchJob(e)] = "active"
          /\ \A q \in Slots : work[q] = DispatchJob(e) => pc[q] = "markDelivered"
      BY <1>2 DEF SentOK
    <3>2. DispatchJob(e) # Idle /\ DispatchJob(e) \in Jobs
      BY JobFacts
    <3>3. \A q \in Slots : work'[q] = DispatchJob(e) => pc'[q] = "markDelivered"
      BY <2>2, <3>1, <3>2
    <3>4. CASE j # DispatchJob(e)
      BY <2>2, <3>1, <3>2, <3>3, <3>4
    <3>5. CASE j = DispatchJob(e)
      <4>1. pc[s] = "markDelivered" /\ Of(j) = e
        BY <3>1, <3>5, JobFacts
      <4>2. Crash(s)
        BY <1>4, <4>1 DEF Complete, Throw
      <4> QED BY <3>1, <3>3, <4>2 DEF Crash, queues
    <3> QED BY <3>4, <3>5
  <2> QED BY <1>1, <2>3, <2>4, <2>5
<1> QED BY <1>3, <1>4

-----------------------------------------------------------------------------
LEMMA DeliveryUseCaseSteps ==
  ASSUME DInv, NEW s \in Slots, Handle(s) \/ Dispatch(s)
  PROVE  DInv'
<1> USE DEF DInv
<1>1. IInv'
  BY UseCaseSteps
<1>2. PICK e \in Events :
        \/ Append(s, e) \/ FindNotification(s, e) \/ FindRecipient(s, e)
        \/ CreateNotification(s, e) \/ Schedule(s, e)
        \/ LoadNotification(s, e) \/ Send(s, e) \/ MarkDelivered(s, e) \/ MarkFailed(s, e)
  BY DEF Handle, Dispatch
<1>3. /\ e = Of(work[s]) /\ work' = work /\ mishap' = mishap /\ lock' = lock
      /\ pc[s] \in HandleSteps \cup DispatchSteps
      /\ \A q \in Slots \ {s} : pc'[q] = pc[q]
  BY <1>2 DEF Append, FindNotification, FindRecipient, CreateNotification, Schedule,
     LoadNotification, Send, MarkDelivered, MarkFailed, Goto, At, HandleSteps,
     DispatchSteps, queues, Add, IInv, TypeOK
<1>4. \A q \in Slots : LockOK(q)'
  BY <1>3 DEF LockOK, Of
<1>5. RunOK(s) /\ FreshOK(s) /\ SentOK(e)
  BY DEF IInv
<1>6. work[s] # Idle /\ work[s] \in Jobs
  BY <1>3, KindOfRun DEF HandleSteps, DispatchSteps
<1>7. \A f \in Events : job[DispatchJob(f)] = "active" => job'[DispatchJob(f)] = "active"
  BY <1>2, JobFacts DEF Append, FindNotification, FindRecipient, CreateNotification, Schedule,
     LoadNotification, Send, MarkDelivered, MarkFailed, Goto, queues, Add, IInv, TypeOK
<1>8. CASE Append(s, e) \/ FindNotification(s, e) \/ FindRecipient(s, e) \/ Schedule(s, e)
           \/ LoadNotification(s, e)
  <2>1. UNCHANGED <<note, sends>>
    BY <1>8 DEF Append, FindNotification, FindRecipient, Schedule, LoadNotification
  <2>2. \A q \in Slots \ {s} : FreshOK(q)'
    BY <1>3, <2>1 DEF FreshOK, Of
  <2>3. FreshOK(s)'
    <3>1. CASE LoadNotification(s, e)
      <4>1. work[s] = DispatchJob(e) /\ pc[s] = "load"
        BY <1>3, <3>1, KindOfRun DEF LoadNotification, At, DispatchSteps
      <4>2. e \notin mishap /\ note[e] # "delivered" => sends[e] = 0
        BY <1>5, <4>1 DEF SentOK, IInv, TypeOK
      <4> QED BY <1>3, <2>1, <3>1, <4>2 DEF LoadNotification, Goto, FreshOK, Of, IInv, TypeOK
    <3>2. CASE ~LoadNotification(s, e)
      BY <1>3, <1>5, <1>8, <2>1, <3>2 DEF Append, FindNotification, FindRecipient, Schedule,
         Goto, At, FreshOK, Of, IInv, TypeOK
    <3> QED BY <3>1, <3>2
  <2>4. \A f \in Events : work[s] = DispatchJob(f) => f = e /\ LoadNotification(s, e)
    BY <1>3, <1>8, KindOfRun, JobFacts DEF Append, FindNotification, FindRecipient, Schedule,
       At, HandleSteps
  <2>5. \A f \in Events : SentOK(f)'
    <3> SUFFICES ASSUME NEW f \in Events, f \notin mishap, sends[f] > 0, note[f] # "delivered"
                 PROVE  /\ job'[DispatchJob(f)] = "active"
                        /\ \A q \in Slots :
                             work[q] = DispatchJob(f) => pc'[q] = "markDelivered"
      BY <1>3, <2>1 DEF SentOK, DispatchJob
    <3>1. /\ job[DispatchJob(f)] = "active"
          /\ \A q \in Slots : work[q] = DispatchJob(f) => pc[q] = "markDelivered"
      BY DEF SentOK
    <3>2. work[s] # DispatchJob(f)
      BY <2>4, <3>1 DEF LoadNotification, At
    <3> QED BY <1>3, <1>7, <3>1, <3>2
  <2> QED BY <1>1, <1>4, <2>2, <2>3, <2>5
<1>9. CASE CreateNotification(s, e)
  <2>1. /\ pc[s] = "create" /\ pc'[s] = "schedule" /\ sends' = sends
        /\ note'[e] = "pending" /\ \A f \in Events \ {e} : note'[f] = note[f]
    BY <1>9 DEF CreateNotification, At, Goto, IInv, TypeOK
  <2>2. work[s] = EventJob(e)
    BY <1>3, <2>1, KindOfRun DEF HandleSteps
  <2>3. \A q \in Slots : FreshOK(q)'
    <3>1. FreshOK(s)'
      BY <2>1 DEF FreshOK
    <3>2. ASSUME NEW q \in Slots \ {s} PROVE FreshOK(q)'
      <4>1. Of(work[q]) = e /\ e \notin mishap => pc[q] \notin {"recipient", "create"}
        BY <1>3, <1>6, <2>2, OnlyRun, KindOfRun DEF HandleSteps
      <4>2. pc[q] # "idle" => Of(work[q]) \in Events
        BY KindOfRun
      <4> QED BY <1>3, <2>1, <4>1, <4>2 DEF FreshOK, Of
    <3> QED BY <3>1, <3>2
  <2>4. e \notin mishap => note[e] = "none" /\ sends[e] = 0
    BY <1>3, <1>5, <2>1 DEF FreshOK, IInv, TypeOK, EventOK
  <2>5. \A f \in Events : SentOK(f)'
    <3>1. SentOK(e)'
      BY <1>3, <2>1, <2>4 DEF SentOK
    <3>2. ASSUME NEW f \in Events \ {e} PROVE SentOK(f)'
      <4>1. work[s] # DispatchJob(f)
        BY <2>2, JobFacts
      <4> QED BY <1>3, <1>7, <2>1, <4>1 DEF SentOK, DispatchJob
    <3> QED BY <3>1, <3>2
  <2> QED BY <1>1, <1>4, <2>3, <2>5
<1>10. CASE Send(s, e) \/ MarkDelivered(s, e) \/ MarkFailed(s, e)
  <2>1. /\ pc[s] \in {"send", "markDelivered", "markFailed"}
        /\ \A f \in Events \ {e} : note'[f] = note[f] /\ sends'[f] = sends[f]
        /\ note[e] # "none"
    BY <1>3, <1>5, <1>10 DEF Send, MarkDelivered, MarkFailed, At, RunOK, DispatchSteps, IInv, TypeOK
  <2>2. work[s] = DispatchJob(e)
    BY <1>3, <2>1, KindOfRun DEF DispatchSteps
  <2>3. e \notin mishap => lock[work[s]] = s /\ job[work[s]] = "active"
    <3>1. LockOK(s)
      OBVIOUS
    <3>2. JobOK(work[s])
      BY <1>6 DEF IInv
    <3>3. s # Idle
      OBVIOUS
    <3> QED BY <1>3, <1>6, <3>1, <3>2, <3>3 DEF LockOK, JobOK
  <2>4. e \notin mishap => \A q \in Slots \ {s} : work[q] # work[s]
    BY <1>3, <1>6, OnlyRun
  <2>5. sends[e] > 0 => sends'[e] > 0
    BY <1>10 DEF Send, MarkDelivered, MarkFailed, IInv, TypeOK
  <2>6. \A q \in Slots \ {s} : FreshOK(q)'
    <3> SUFFICES ASSUME NEW q \in Slots \ {s} PROVE FreshOK(q)'
      OBVIOUS
    <3>1. pc[q] # "idle" => Of(work[q]) \in Events
      BY KindOfRun
    <3>2. CASE pc[q] = "idle"
      BY <1>3, <3>2 DEF FreshOK
    <3>3. CASE pc[q] # "idle" /\ Of(work[q]) # e
      BY <1>3, <2>1, <3>1, <3>3 DEF FreshOK, Of
    <3>4. CASE pc[q] # "idle" /\ Of(work[q]) = e
      <4>1. e \notin mishap => pc[q] \notin {"send", "markFailed"}
        BY <2>2, <2>4, <3>4, KindOfRun DEF DispatchSteps
      <4>2. e \notin mishap => pc[q] \notin {"recipient", "create"}
        BY <2>1, <3>4 DEF FreshOK
      <4> QED BY <1>3, <2>5, <3>4, <4>1, <4>2 DEF FreshOK, Of
    <3> QED BY <3>2, <3>3, <3>4
  <2>7. \A f \in Events \ {e} : SentOK(f)'
    <3> SUFFICES ASSUME NEW f \in Events \ {e} PROVE SentOK(f)'
      OBVIOUS
    <3>1. work[s] # DispatchJob(f)
      BY <2>2 DEF DispatchJob
    <3> QED BY <1>3, <1>7, <2>1, <3>1 DEF SentOK, DispatchJob
  <2>8. FreshOK(s)' /\ SentOK(e)'
    <3>1. CASE Send(s, e) /\ pc'[s] = "markDelivered"
      <4>1. /\ sends' = [sends EXCEPT ![e] = IF @ < 2 THEN @ + 1 ELSE 2] /\ note' = note
            /\ pc[s] = "send" /\ job' = job
        BY <3>1 DEF Send, Goto, At, queues, IInv, TypeOK
      <4>2. sends'[e] > 0 /\ (e \notin mishap => sends'[e] = 1)
        BY <1>3, <1>5, <4>1 DEF FreshOK, IInv, TypeOK
      <4>3. \A q \in Slots : e \notin mishap /\ work[q] = DispatchJob(e) => pc'[q] = "markDelivered"
        BY <2>2, <2>4, <3>1
      <4> QED BY <1>3, <2>2, <2>3, <3>1, <4>1, <4>2, <4>3 DEF FreshOK, SentOK, Of, DispatchJob
    <3>2. CASE Send(s, e) /\ pc'[s] # "markDelivered"
      <4>1. sends' = sends /\ note' = note /\ pc[s] = "send" /\ pc'[s] = "markFailed"
        BY <3>2 DEF Send, Goto, At, IInv, TypeOK
      <4> QED BY <1>3, <1>5, <4>1 DEF FreshOK, SentOK, Of
    <3>3. CASE MarkDelivered(s, e)
      <4>1. sends' = sends /\ note'[e] = "delivered" /\ pc[s] = "markDelivered" /\ pc'[s] = "complete"
        BY <3>3 DEF MarkDelivered, Goto, At, IInv, TypeOK
      <4> QED BY <1>3, <1>5, <4>1 DEF FreshOK, SentOK, Of
    <3>4. CASE MarkFailed(s, e)
      <4>1. sends' = sends /\ note'[e] = "failed" /\ pc[s] = "markFailed" /\ pc'[s] = "rethrow"
        BY <3>4 DEF MarkFailed, Goto, At, IInv, TypeOK
      <4> QED BY <1>3, <1>5, <4>1 DEF FreshOK, SentOK, Of
    <3> QED BY <1>10, <3>1, <3>2, <3>3, <3>4
  <2> QED BY <1>1, <1>4, <2>6, <2>7, <2>8
<1> QED BY <1>2, <1>8, <1>9, <1>10

-----------------------------------------------------------------------------
(* The inductive invariant of a notification's delivery. *)
THEOREM DeliveryInvariant == Spec => []DInv
<1>1. Init => DInv
  BY InitialStates DEF Init, DInv, LockOK, FreshOK, SentOK
<1>2. DInv /\ [Next]_vars => DInv'
  <2> SUFFICES ASSUME DInv, [Next]_vars PROVE DInv'
    OBVIOUS
  <2>1. CASE UNCHANGED vars
    <3>1. IInv'
      BY <2>1, Stutters DEF DInv
    <3> QED BY <2>1, <3>1 DEF vars, DInv, LockOK, FreshOK, SentOK, Of, DispatchJob
  <2>2. CASE \E s \in Slots : Run(s) \/ Crash(s)
    BY <2>2, DeliveryRunsComeAndGo, DeliveryUseCaseSteps DEF Run
  <2>3. CASE \E j \in Jobs, s \in Slots : Take(s, j)
    BY <2>3, DeliveryRunsComeAndGo
  <2>4. CASE \/ \E e \in Events : Publish(e) \/ Drop(e)
             \/ \E j \in Jobs : Promote(j) \/ Stall(j) \/ Remove(j)
    BY <2>4, DeliveryQueueSteps
  <2> QED BY <2>1, <2>2, <2>3, <2>4 DEF Next, Quiet
<1> QED BY <1>1, <1>2, PTL DEF Spec

(* Publishing an event again, handling it again, and trying its delivery again send its
   notification once, unless a run stalled or its delivery could not be saved. *)
THEOREM DeliveredOnce == Spec => []OneDeliveryWithoutMishap
<1>1. DInv => OneDeliveryWithoutMishap
  BY DEF DInv, IInv, TypeOK, SentOK, OneDeliveryWithoutMishap
<1> QED BY DeliveryInvariant, <1>1, PTL

LEMMA DeliveredStays ==
  ASSUME DInv, [Next]_vars, NEW e \in Events, note[e] = "delivered"
  PROVE  note'[e] = "delivered" \/ e \in mishap
<1> SUFFICES ASSUME note'[e] # "delivered", e \notin mishap
             PROVE  FALSE
  OBVIOUS
<1>1. PICK s \in Slots, f \in Events : CreateNotification(s, f) \/ MarkFailed(s, f)
  BY DEF vars, Next, Publish, Drop, Promote, Stall, Remove, Take, Run, Crash, Quiet,
     Complete, Throw, FailJob, Handle, Dispatch, Append, FindNotification, FindRecipient,
     Schedule, LoadNotification, Send, MarkDelivered, DInv, IInv, TypeOK
<1>2. f = e /\ e = Of(work[s]) /\ pc[s] \in {"create", "markFailed"}
  BY <1>1 DEF CreateNotification, MarkFailed, At, DInv, IInv, TypeOK
<1>3. FreshOK(s) /\ SentOK(e)
  BY DEF DInv
<1> QED BY <1>2, <1>3 DEF FreshOK, SentOK

(* And no such step takes a delivered notification back. *)
THEOREM DeliveredStaysDelivered == Spec => DeliveredIsFinal
<1>1. DInv /\ [Next]_vars =>
        [\A e \in Events : note[e] = "delivered" => note'[e] = "delivered" \/ e \in mishap]_vars
  BY DeliveredStays
<1> QED BY DeliveryInvariant, <1>1, PTL DEF Spec, DeliveredIsFinal

-----------------------------------------------------------------------------
(* A job that is completed has done its work: a run gets to its end only where the use
   case has nothing left to do, and what it found done stays so. *)

EventDone(e) == e \in audit /\ (e \in reachable => note[e] # "none")
DispatchDone(e) == note[e] = "delivered" \/ e \in mishap

DoneAt(s) ==
    pc[s] = "complete" =>
        /\ work[s] = EventJob(Of(work[s])) => EventDone(Of(work[s]))
        /\ work[s] = DispatchJob(Of(work[s])) => DispatchDone(Of(work[s]))

DoneBy(e) ==
    /\ job[EventJob(e)] = "completed" => EventDone(e)
    /\ job[DispatchJob(e)] = "completed" => DispatchDone(e)

WInv ==
    /\ DInv
    /\ \A s \in Slots : DoneAt(s)
    /\ \A e \in Events : DoneBy(e)

LEMMA DoneStays ==
  ASSUME DInv, [Next]_vars, NEW e \in Events
  PROVE  /\ EventDone(e) => EventDone(e)'
         /\ DispatchDone(e) => DispatchDone(e)'
<1>1. mishap \subseteq mishap' /\ audit \subseteq audit' /\ reachable' = reachable
  BY DEF vars, Next, Publish, Drop, Promote, Stall, Remove, Take, Run, Crash, Quiet,
     Complete, Throw, FailJob, Handle, Dispatch, Append, FindNotification, FindRecipient,
     CreateNotification, Schedule, LoadNotification, Send, MarkDelivered, MarkFailed, Goto
<1>2. note[e] # "none" => note'[e] # "none"
  BY DEF vars, Next, Publish, Drop, Promote, Stall, Remove, Take, Run, Crash, Quiet,
     Complete, Throw, FailJob, Handle, Dispatch, Append, FindNotification, FindRecipient,
     CreateNotification, Schedule, LoadNotification, Send, MarkDelivered, MarkFailed, Goto,
     DInv, IInv, TypeOK
<1> QED BY <1>1, <1>2, DeliveredStays DEF EventDone, DispatchDone

(* Steps that end no use case and complete no job. *)
LEMMA NothingIsCompleted ==
  ASSUME WInv, [Next]_vars,
         \A q \in Slots : pc'[q] = "complete" => pc[q] = "complete" /\ work'[q] = work[q],
         \A j \in Jobs : job'[j] = "completed" => job[j] = "completed"
  PROVE  (\A q \in Slots : DoneAt(q)') /\ \A e \in Events : DoneBy(e)'
<1> USE DEF WInv
<1>1. ASSUME NEW q \in Slots PROVE DoneAt(q)'
  <2>1. CASE pc'[q] # "complete"
    BY <2>1 DEF DoneAt
  <2>2. CASE pc'[q] = "complete"
    <3>1. work'[q] = work[q] /\ pc[q] = "complete" /\ Of(work[q]) \in Events /\ DoneAt(q)
      BY <2>2, KindOfRun
    <3> QED BY <3>1, DoneStays DEF DoneAt, Of, EventJob, DispatchJob, EventDone, DispatchDone
  <2> QED BY <2>1, <2>2
<1>2. ASSUME NEW e \in Events PROVE DoneBy(e)'
  <2>1. DoneBy(e) /\ EventJob(e) \in Jobs /\ DispatchJob(e) \in Jobs
    BY JobFacts
  <2> QED BY <2>1, DoneStays DEF DoneBy, EventJob, DispatchJob
<1> QED BY <1>1, <1>2

LEMMA UseCaseEnds ==
  ASSUME WInv, NEW s \in Slots, Handle(s) \/ Dispatch(s)
  PROVE  (\A q \in Slots : DoneAt(q)') /\ \A e \in Events : DoneBy(e)'
<1> USE DEF WInv
<1>0. [Next]_vars
  BY DEF Next, Run
<1>1. PICK e \in Events :
        \/ Append(s, e) \/ FindNotification(s, e) \/ FindRecipient(s, e)
        \/ CreateNotification(s, e) \/ Schedule(s, e)
        \/ LoadNotification(s, e) \/ Send(s, e) \/ MarkDelivered(s, e) \/ MarkFailed(s, e)
  BY DEF Handle, Dispatch
<1>2. /\ e = Of(work[s]) /\ work' = work /\ pc[s] \in HandleSteps \cup DispatchSteps
      /\ \A q \in Slots \ {s} : pc'[q] = pc[q]
      /\ \A j \in Jobs : job'[j] = "completed" => job[j] = "completed"
  BY <1>1 DEF Append, FindNotification, FindRecipient, CreateNotification, Schedule,
     LoadNotification, Send, MarkDelivered, MarkFailed, Goto, At, HandleSteps,
     DispatchSteps, queues, Add, DInv, IInv, TypeOK
<1>3. DoneAt(s)'
  <2> SUFFICES ASSUME pc'[s] = "complete" PROVE DoneAt(s)'
    BY DEF DoneAt
  <2>1. RunOK(s) /\ reachable \subseteq Notifying
    BY DEF DInv, IInv, TypeOK
  <2>2. CASE Append(s, e) \/ FindRecipient(s, e) \/ Schedule(s, e)
    <3>1. work[s] = EventJob(e) /\ EventJob(e) # DispatchJob(e)
      BY <1>2, <2>2, KindOfRun, JobFacts DEF Append, FindRecipient, Schedule, At, HandleSteps
    <3>2. EventDone(e)'
      <4>1. CASE Append(s, e)
        BY <2>1, <4>1 DEF Append, Goto, EventDone, DInv, IInv, TypeOK
      <4>2. CASE FindRecipient(s, e)
        BY <1>2, <2>1, <4>2 DEF FindRecipient, Goto, At, RunOK, HandleSteps, EventDone, DInv, IInv, TypeOK
      <4>3. CASE Schedule(s, e)
        BY <1>2, <2>1, <4>3 DEF Schedule, At, RunOK, HandleSteps, EventDone
      <4> QED BY <2>2, <4>1, <4>2, <4>3
    <3> QED BY <1>2, <3>1, <3>2 DEF DoneAt, Of, EventJob, DispatchJob, EventDone
  <2>3. CASE LoadNotification(s, e) \/ MarkDelivered(s, e)
    <3>1. work[s] = DispatchJob(e) /\ EventJob(e) # DispatchJob(e)
      BY <1>2, <2>3, KindOfRun, JobFacts DEF LoadNotification, MarkDelivered, At, DispatchSteps
    <3>2. note'[e] = "delivered"
      BY <2>3 DEF LoadNotification, MarkDelivered, Goto, DInv, IInv, TypeOK
    <3> QED BY <1>2, <3>1, <3>2 DEF DoneAt, Of, EventJob, DispatchJob, DispatchDone
  <2>4. ~(FindNotification(s, e) \/ CreateNotification(s, e) \/ Send(s, e) \/ MarkFailed(s, e))
    BY DEF FindNotification, CreateNotification, Send, MarkFailed, Goto, DInv, IInv, TypeOK
  <2> QED BY <1>1, <2>2, <2>3, <2>4
<1>4. ASSUME NEW q \in Slots \ {s} PROVE DoneAt(q)'
  <2>1. pc[q] # "idle" => Of(work[q]) \in Events
    BY KindOfRun
  <2>2. DoneAt(q)
    OBVIOUS
  <2> QED BY <1>0, <1>2, <2>1, <2>2, DoneStays
         DEF DoneAt, Of, EventJob, DispatchJob, EventDone, DispatchDone
<1>5. ASSUME NEW f \in Events PROVE DoneBy(f)'
  <2>1. DoneBy(f) /\ EventJob(f) \in Jobs /\ DispatchJob(f) \in Jobs
    BY JobFacts
  <2> QED BY <1>0, <1>2, <2>1, DoneStays DEF DoneBy, EventJob, DispatchJob
<1> QED BY <1>3, <1>4, <1>5

LEMMA RunsComplete ==
  ASSUME WInv, NEW s \in Slots, Complete(s)
  PROVE  (\A q \in Slots : DoneAt(q)') /\ \A e \in Events : DoneBy(e)'
<1> USE DEF WInv
<1> DEFINE j == work[s]
<1>0. [Next]_vars
  BY DEF Next, Run
<1>1. /\ UNCHANGED <<audit, reachable, note, mishap>>
      /\ \A q \in Slots \ {s} : work'[q] = work[q] /\ pc'[q] = pc[q]
      /\ pc'[s] = "idle" /\ pc[s] = "complete"
      /\ \A k \in Jobs \ {j} : job'[k] = job[k]
  BY DEF Complete, Leave, DInv, IInv, TypeOK
<1>2. \A q \in Slots : DoneAt(q)'
  BY <1>1 DEF DoneAt, EventDone, DispatchDone, Of, EventJob, DispatchJob
<1>3. ASSUME NEW e \in Events PROVE DoneBy(e)'
  <2>1. /\ DoneBy(e) /\ EventJob(e) \in Jobs /\ DispatchJob(e) \in Jobs
        /\ Of(DispatchJob(e)) = e /\ Of(EventJob(e)) = e
    BY JobFacts DEF EventJob, Of
  <2>2. j = EventJob(e) => EventDone(e)
    BY <1>1, <2>1 DEF DoneAt
  <2>3. j = DispatchJob(e) => DispatchDone(e)
    BY <1>1, <2>1 DEF DoneAt
  <2> QED BY <1>1, <2>1, <2>2, <2>3 DEF DoneBy, EventDone, DispatchDone, EventJob, DispatchJob
<1> QED BY <1>2, <1>3

(* The inductive invariant of what jobs and their runs have done. *)
THEOREM WorkInvariant == Spec => []WInv
<1>1. Init => DInv
  BY InitialStates DEF Init, DInv, LockOK, FreshOK, SentOK
<1>2. Init => WInv
  BY <1>1, JobFacts DEF Init, WInv, DoneAt, DoneBy
<1>3. WInv /\ DInv' /\ [Next]_vars => WInv'
  <2> SUFFICES ASSUME WInv, [Next]_vars
               PROVE  (\A q \in Slots : DoneAt(q)') /\ \A e \in Events : DoneBy(e)'
    BY DEF WInv
  <2> USE DEF WInv
  <2>1. CASE \E s \in Slots : Handle(s) \/ Dispatch(s)
    BY <2>1, UseCaseEnds
  <2>2. CASE \E s \in Slots : Complete(s)
    BY <2>2, RunsComplete
  <2>3. CASE \/ UNCHANGED vars
             \/ \E e \in Events : Publish(e) \/ Drop(e)
             \/ \E k \in Jobs : Promote(k) \/ Stall(k) \/ Remove(k)
    <3>1. work' = work /\ pc' = pc
      BY <2>3 DEF vars, Publish, Drop, Promote, Stall, Remove, slots
    <3>2. \A k \in Jobs : job'[k] = "completed" => job[k] = "completed"
      BY <2>3 DEF vars, Publish, Drop, Promote, Stall, Remove, Add, queues, DInv, IInv, TypeOK
    <3> QED BY <3>1, <3>2, NothingIsCompleted
  <2>4. CASE \E s \in Slots : Throw(s) \/ Crash(s) \/ \E k \in Jobs : Take(s, k)
    <3>1. PICK s \in Slots : Throw(s) \/ Crash(s) \/ \E k \in Jobs : Take(s, k)
      BY <2>4
    <3>2. /\ \A q \in Slots \ {s} : work'[q] = work[q] /\ pc'[q] = pc[q]
          /\ pc'[s] # "complete"
      BY <3>1 DEF Throw, FailJob, Crash, Leave, Take, DInv, IInv, TypeOK
    <3>3. \A k \in Jobs : job'[k] = "completed" => job[k] = "completed"
      BY <3>1 DEF Throw, FailJob, Crash, Take, queues, DInv, IInv, TypeOK
    <3> QED BY <3>2, <3>3, NothingIsCompleted
  <2> QED BY <2>1, <2>2, <2>3, <2>4 DEF Next, Run, Quiet
<1> QED BY DeliveryInvariant, <1>2, <1>3, PTL DEF Spec

(* BullMQ and the handlers: no dispatch job ever finds its notification missing, and no job
   is completed with its work undone, whatever is retried, stalled, removed from the queue
   or run twice. *)
THEOREM JobsAreTruthful == Spec => []JobsKeepTheirWord
<1>1. WInv => JobsKeepTheirWord
  BY DEF WInv, DInv, IInv, EventOK, RunOK, DoneBy, EventDone, DispatchDone, JobsKeepTheirWord
<1> QED BY WorkInvariant, <1>1, PTL

-----------------------------------------------------------------------------
LEMMA UseCaseStepsFollowTheRules ==
  ASSUME DInv, NEW s \in Slots, Handle(s) \/ Dispatch(s)
  PROVE  [D!Next]_(D!vars)
<1> USE DEF D!vars
<1>1. PICK e \in Events :
        \/ Append(s, e) \/ FindNotification(s, e) \/ FindRecipient(s, e)
        \/ CreateNotification(s, e) \/ Schedule(s, e)
        \/ LoadNotification(s, e) \/ Send(s, e) \/ MarkDelivered(s, e) \/ MarkFailed(s, e)
  BY DEF Handle, Dispatch
<1>2. RunOK(s) /\ FreshOK(s) /\ EventOK(e)
  BY DEF DInv, IInv
<1>3. e = Of(work[s])
  BY <1>1 DEF Append, FindNotification, FindRecipient, CreateNotification, Schedule,
     LoadNotification, Send, MarkDelivered, MarkFailed, At
<1>4. CASE FindNotification(s, e) \/ FindRecipient(s, e) \/ Schedule(s, e)
           \/ LoadNotification(s, e)
  BY <1>4 DEF FindNotification, FindRecipient, Schedule, LoadNotification, Goto
<1>5. CASE Append(s, e)
  <2>1. D!Audit(e)
    BY <1>5 DEF Append, Goto, D!Audit
  <2> QED BY <2>1 DEF D!Next
<1>6. CASE CreateNotification(s, e)
  <2>1. pc[s] = "create"
    BY <1>6 DEF CreateNotification, At
  <2>2. e \in audit /\ e \in reachable /\ (note[e] = "none" \/ e \in mishap)
    BY <1>2, <1>3, <2>1 DEF RunOK, FreshOK, HandleSteps
  <2>3. D!Save(e)
    BY <1>6, <2>2 DEF CreateNotification, Goto, D!Save
  <2> QED BY <2>3 DEF D!Next
<1>7. CASE Send(s, e)
  <2>1. pc[s] = "send"
    BY <1>7 DEF Send, At
  <2>2. D!Owed(e)
    BY <1>2, <1>3, <2>1 DEF RunOK, FreshOK, DispatchSteps, D!Owed
  <2>3. D!Send(e) \/ UNCHANGED D!vars
    BY <1>7, <2>2 DEF Send, Goto, D!Send
  <2> QED BY <2>3 DEF D!Next
<1>8. CASE MarkDelivered(s, e)
  <2>1. pc[s] = "markDelivered"
    BY <1>8 DEF MarkDelivered, At
  <2>2. note[e] # "none" /\ sends[e] > 0
    BY <1>2, <1>3, <2>1 DEF RunOK, FreshOK, DispatchSteps
  <2>3. D!Deliver(e)
    BY <1>8, <2>2 DEF MarkDelivered, Goto, D!Deliver
  <2> QED BY <2>3 DEF D!Next
<1>9. CASE MarkFailed(s, e)
  <2>1. pc[s] = "markFailed"
    BY <1>9 DEF MarkFailed, At
  <2>2. D!Owed(e)
    BY <1>2, <1>3, <2>1 DEF RunOK, FreshOK, DispatchSteps, D!Owed
  <2>3. D!Fail(e)
    BY <1>9, <2>2 DEF MarkFailed, Goto, D!Fail
  <2> QED BY <2>3 DEF D!Next
<1> QED BY <1>1, <1>4, <1>5, <1>6, <1>7, <1>8, <1>9

(* The queues, the retries and the crashes hide nothing else: the pipeline implements
   DeliveryRules.tla. *)
THEOREM PipelineImplementsDelivery == Spec => ImplementsDelivery
<1>1. Init => D!Init
  BY DEF Init, D!Init
<1>2. DInv /\ [Next]_vars => [D!Next]_(D!vars)
  <2> SUFFICES ASSUME DInv, [Next]_vars PROVE [D!Next]_(D!vars)
    OBVIOUS
  <2>1. ASSUME NEW s \in Slots, Throw(s) PROVE [D!Next]_(D!vars)
    <3>1. CASE pc[s] = "markDelivered"
      <4>1. Of(work[s]) \in Events
        BY <3>1, KindOfRun
      <4>2. D!GoWrong(Of(work[s]))
        BY <2>1, <3>1 DEF Throw, FailJob, D!GoWrong
      <4> QED BY <4>1, <4>2 DEF D!Next
    <3>2. CASE pc[s] # "markDelivered"
      BY <2>1, <3>2 DEF Throw, FailJob, D!vars
    <3> QED BY <3>1, <3>2
  <2>2. ASSUME NEW j \in Jobs, Stall(j) PROVE [D!Next]_(D!vars)
    <3>1. D!GoWrong(Of(j))
      BY <2>2 DEF Stall, slots, D!GoWrong
    <3> QED BY <3>1, JobFacts DEF D!Next
  <2>3. CASE \/ UNCHANGED vars
             \/ \E e \in Events : Publish(e) \/ Drop(e)
             \/ \E j \in Jobs : Promote(j) \/ Remove(j) \/ \E s \in Slots : Take(s, j)
             \/ \E s \in Slots : Complete(s) \/ Crash(s)
    BY <2>3 DEF vars, Publish, Drop, Promote, Remove, Take, Complete, Crash, D!vars
  <2>4. ASSUME NEW s \in Slots, Handle(s) \/ Dispatch(s) PROVE [D!Next]_(D!vars)
    BY <2>4, UseCaseStepsFollowTheRules
  <2> QED BY <2>1, <2>2, <2>3, <2>4 DEF Next, Run, Quiet
<1> QED BY DeliveryInvariant, <1>1, <1>2, PTL DEF Spec, ImplementsDelivery, D!Spec
=============================================================================

--------------------------- MODULE DeliveryRules ---------------------------
(***************************************************************************)
(* What the event pipeline promises of an event and of its notification,    *)
(* whatever queues, workers and retries lie between: audited before saved,   *)
(* saved before sent, sent before delivered, each of them once.  What went    *)
(* wrong in a way the code does not guard against (a run that stalled, a      *)
(* delivery that was not saved) is a mishap, and excuses repetitions; the     *)
(* order is kept even then.  EventPipeline.tla is the program.               *)
(***************************************************************************)
EXTENDS Integers

CONSTANTS Events,     \* ids of domain events
          Notifying   \* the events that are worth a notification

VARIABLES reachable,  \* the events whose recipient exists
          audit,      \* the events that are audited
          note,       \* status of each notification
          sends,      \* how often each was sent: 0, 1, or 2 for more
          mishap      \* the events that had a mishap

vars == <<reachable, audit, note, sends, mishap>>

Init ==
    /\ reachable \in SUBSET Notifying
    /\ audit = {} /\ mishap = {}
    /\ note = [e \in Events |-> "none"]
    /\ sends = [e \in Events |-> 0]

Audit(e) ==
    /\ audit' = audit \cup {e}
    /\ UNCHANGED <<reachable, note, sends, mishap>>

Save(e) ==
    /\ e \in audit /\ e \in reachable
    /\ note[e] = "none" \/ e \in mishap
    /\ note' = [note EXCEPT ![e] = "pending"]
    /\ UNCHANGED <<reachable, audit, sends, mishap>>

(* A notification is owed to its recipient until it was sent. *)
Owed(e) == note[e] # "none" /\ (sends[e] = 0 \/ e \in mishap)

Send(e) ==
    /\ Owed(e)
    /\ sends' = [sends EXCEPT ![e] = IF @ < 2 THEN @ + 1 ELSE 2]
    /\ UNCHANGED <<reachable, audit, note, mishap>>

Deliver(e) ==
    /\ note[e] # "none" /\ sends[e] > 0
    /\ note' = [note EXCEPT ![e] = "delivered"]
    /\ UNCHANGED <<reachable, audit, sends, mishap>>

Fail(e) ==
    /\ Owed(e)
    /\ note' = [note EXCEPT ![e] = "failed"]
    /\ UNCHANGED <<reachable, audit, sends, mishap>>

GoWrong(e) ==
    /\ mishap' = mishap \cup {e}
    /\ UNCHANGED <<reachable, audit, note, sends>>

Next ==
    \E e \in Events :
        Audit(e) \/ Save(e) \/ Send(e) \/ Deliver(e) \/ Fail(e) \/ GoWrong(e)

Spec == Init /\ [][Next]_vars
=============================================================================

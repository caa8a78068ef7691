------------------------------ MODULE EventQueue ------------------------------
(***************************************************************************)
(* UI events (ui_system_interface_utils.c): a component's event goes to    *)
(* the registered output callbacks; one that comes before ui_sys_init has  *)
(* set event_notify_initialized waits in kmsg_queue and is posted by the   *)
(* next purge.  The list is changed under a semaphore that its first user  *)
(* creates; that check, the flag, the test that the list is not empty and  *)
(* the callback table are read and written without any lock.               *)
(* A failed ASSERT stops the machine.                                      *)
(***************************************************************************)
EXTENDS Integers, Sequences, SequencesExt, FiniteSets

CONSTANTS
  Boot,              \* the thread that runs ui_sys_init
  Posters,           \* the component threads that notify the UI of events
  Uis,               \* the threads that register an output callback
  NoUi,              \* the NULL callback
  Starved,           \* the events whose queue entry cannot be allocated
  MAX_NUM_CALLBACKS, \* the size of saved_output_callbacks
  MaxEvents          \* bound: how many events each poster sends

Threads == {Boot} \cup Posters \cup Uis
Events == UNION {[by: {t}, n: 1..MaxEvents[t]] : t \in Posters}
NULL == [by |-> Boot, n |-> 0]
Slots == 1..MAX_NUM_CALLBACKS

ASSUME EventAssumption ==
  /\ Boot \notin Posters \cup Uis /\ Posters \cap Uis = {} /\ NoUi \notin Uis
  /\ Starved \subseteq Events
  /\ MAX_NUM_CALLBACKS \in Nat \ {0} /\ MaxEvents \in [Posters -> Nat]

VARIABLES
  event_notify_initialized,
  kmsg_queue,
  semaphore,                   \* kmsg_queue_semaphore: "none", "free" or "held"
  kmsg_queue_semaphore_created,
  saved_output_callbacks,
  live,      \* events whose data block is allocated and not disposed of
  sent,      \* how many events each poster has sent
  received,  \* what each UI's callback was called with
  pc,
  event,     \* the event a poster's call is about, until it is queued or posted
  op,        \* what a thread uses the semaphore for: "enqueue" or "dequeue"
  p,         \* the queue entry a thread took
  slot       \* where a thread is in saved_output_callbacks

notifying == <<event_notify_initialized, saved_output_callbacks, sent, received, slot>>
queueing == <<kmsg_queue, semaphore, kmsg_queue_semaphore_created>>
vars == <<notifying, queueing, live, pc, event, op, p>>

Init ==
  /\ event_notify_initialized = FALSE
  /\ kmsg_queue = <<>>
  /\ semaphore = "none"
  /\ kmsg_queue_semaphore_created = FALSE
  /\ saved_output_callbacks = [i \in Slots |-> NoUi]
  /\ live = {}
  /\ sent = [t \in Posters |-> 0]
  /\ received = [u \in Uis |-> <<>>]
  /\ pc = [t \in Threads |-> "idle"]
  /\ event = [t \in Threads |-> NULL]
  /\ op = [t \in Threads |-> "enqueue"]
  /\ p = [t \in Threads |-> NULL]
  /\ slot = [t \in Threads |-> 1]

Goto(t, label) == pc' = [pc EXCEPT ![t] = label]
Halted == \E t \in Threads : pc[t] = "ASSERT"
-----------------------------------------------------------------------------
(* ui_sys_init and the registration of output callbacks.                    *)

\* init_output_callbacks, then event_notify_init: raise the flag and purge.
InitOutputCallbacks ==
  /\ pc[Boot] = "idle"
  /\ saved_output_callbacks' = [i \in Slots |-> NoUi]
  /\ Goto(Boot, "init")
  /\ UNCHANGED <<event_notify_initialized, sent, received, slot, queueing, live, event, op, p>>

EventNotifyInit ==
  /\ pc[Boot] = "init"
  /\ event_notify_initialized' = TRUE
  /\ Goto(Boot, "purge")
  /\ UNCHANGED <<saved_output_callbacks, sent, received, slot, queueing, live, event, op, p>>

\* ui_sys_register_output_callback: look for an empty slot, then fill it.
RegisterOutputCallback(u) ==
  /\ pc[u] = "idle"
  /\ IF saved_output_callbacks[slot[u]] = NoUi
       THEN Goto(u, "save") /\ UNCHANGED slot
       ELSE IF slot[u] < MAX_NUM_CALLBACKS
         THEN slot' = [slot EXCEPT ![u] = @ + 1] /\ UNCHANGED pc
         ELSE Goto(u, "dropped") /\ UNCHANGED slot
  /\ UNCHANGED <<event_notify_initialized, saved_output_callbacks, sent, received,
                 queueing, live, event, op, p>>

SaveCallback(u) ==
  /\ pc[u] = "save"
  /\ saved_output_callbacks' = [saved_output_callbacks EXCEPT ![slot[u]] = u]
  /\ Goto(u, "registered")
  /\ UNCHANGED <<event_notify_initialized, sent, received, slot, queueing, live, event, op, p>>
-----------------------------------------------------------------------------
(* ui_sys_notify_ui_of_event.                                               *)

Notify(t) ==
  /\ pc[t] = "idle"
  /\ sent[t] < MaxEvents[t]
  /\ LET e == [by |-> t, n |-> sent[t] + 1]
     IN  /\ event' = [event EXCEPT ![t] = e]
         /\ live' = live \cup {e}
  /\ sent' = [sent EXCEPT ![t] = @ + 1]
  /\ Goto(t, "check")
  /\ UNCHANGED <<event_notify_initialized, saved_output_callbacks, received, slot, queueing, op, p>>

\* Read the flag; new_kmsg.  Without memory the event is dropped, its data not
\* disposed of.
CheckInitialized(t) ==
  /\ pc[t] = "check"
  /\ \/ event_notify_initialized /\ Goto(t, "purge") /\ UNCHANGED <<event, op>>
     \/ /\ ~event_notify_initialized
        /\ event[t] \notin Starved
        /\ Goto(t, "ensure") /\ op' = [op EXCEPT ![t] = "enqueue"]
        /\ UNCHANGED event
     \/ /\ ~event_notify_initialized
        /\ event[t] \in Starved
        /\ Goto(t, "idle") /\ event' = [event EXCEPT ![t] = NULL]
        /\ UNCHANGED op
  /\ UNCHANGED <<notifying, queueing, live, p>>
-----------------------------------------------------------------------------
(* The queue.                                                               *)

\* ensure_kmsg_queue_semaphore: the check, the creation, which fails if there
\* is one, and the flag.
EnsureSemaphore(t) ==
  /\ \/ /\ pc[t] = "ensure"
        /\ Goto(t, IF kmsg_queue_semaphore_created THEN "acquire" ELSE "create")
        /\ UNCHANGED <<semaphore, kmsg_queue_semaphore_created>>
     \/ /\ pc[t] = "create"
        /\ semaphore = "none"
        /\ semaphore' = "free"
        /\ Goto(t, "created")
        /\ UNCHANGED kmsg_queue_semaphore_created
     \/ /\ pc[t] = "create"
        /\ semaphore # "none"
        /\ Goto(t, "ASSERT")
        /\ UNCHANGED <<semaphore, kmsg_queue_semaphore_created>>
     \/ /\ pc[t] = "created"
        /\ kmsg_queue_semaphore_created' = TRUE
        /\ Goto(t, "acquire")
        /\ UNCHANGED semaphore
  /\ UNCHANGED <<kmsg_queue, notifying, live, event, op, p>>

\* Mutant: tx_semaphore_get does not wait.
AcquireAnyway(t) ==
  /\ pc[t] = "acquire"
  /\ semaphore' = "held"
  /\ Goto(t, "locked")
  /\ UNCHANGED <<kmsg_queue, kmsg_queue_semaphore_created, notifying, live, event, op, p>>

AcquireSemaphore(t) ==
  /\ pc[t] = "acquire"
  /\ semaphore = "free"
  /\ semaphore' = "held"
  /\ Goto(t, "locked")
  /\ UNCHANGED <<kmsg_queue, kmsg_queue_semaphore_created, notifying, live, event, op, p>>

\* Mutant: a new entry is put before the others.
EnqueueFirst(t) ==
  /\ pc[t] = "locked"
  /\ op[t] = "enqueue"
  /\ kmsg_queue' = <<event[t]>> \o kmsg_queue
  /\ event' = [event EXCEPT ![t] = NULL]
  /\ Goto(t, "release")
  /\ UNCHANGED <<notifying, semaphore, kmsg_queue_semaphore_created, live, op, p>>

Enqueue(t) ==
  /\ pc[t] = "locked"
  /\ op[t] = "enqueue"
  /\ kmsg_queue' = Append(kmsg_queue, event[t])
  /\ event' = [event EXCEPT ![t] = NULL]
  /\ Goto(t, "release")
  /\ UNCHANGED <<notifying, semaphore, kmsg_queue_semaphore_created, live, op, p>>

FirstEntry == IF kmsg_queue = <<>> THEN NULL ELSE Head(kmsg_queue)

\* Mutant: the head is taken but not unlinked.
DequeueKeep(t) ==
  /\ pc[t] = "locked"
  /\ op[t] = "dequeue"
  /\ p' = [p EXCEPT ![t] = FirstEntry]
  /\ Goto(t, "release")
  /\ UNCHANGED <<notifying, queueing, live, event, op>>

Dequeue(t) ==
  /\ pc[t] = "locked"
  /\ op[t] = "dequeue"
  /\ p' = [p EXCEPT ![t] = FirstEntry]
  /\ kmsg_queue' = IF kmsg_queue = <<>> THEN <<>> ELSE Tail(kmsg_queue)
  /\ Goto(t, "release")
  /\ UNCHANGED <<notifying, semaphore, kmsg_queue_semaphore_created, live, event, op>>

\* A dequeue is followed by ASSERT( p ).
AfterRelease(t) ==
  IF op[t] = "enqueue" THEN "idle" ELSE IF p[t] = NULL THEN "ASSERT" ELSE "post"

\* Mutant: the semaphore is not put back when the list is empty.
ReleaseIfNotEmpty(t) ==
  /\ pc[t] = "release"
  /\ semaphore' = IF kmsg_queue = <<>> THEN "held" ELSE "free"
  /\ Goto(t, AfterRelease(t))
  /\ UNCHANGED <<kmsg_queue, kmsg_queue_semaphore_created, notifying, live, event, op, p>>

ReleaseSemaphore(t) ==
  /\ pc[t] = "release"
  /\ semaphore' = "free"
  /\ Goto(t, AfterRelease(t))
  /\ UNCHANGED <<kmsg_queue, kmsg_queue_semaphore_created, notifying, live, event, op, p>>

\* What follows the purge: the init thread is done, a poster posts its event.
AfterPurge(t) == IF t = Boot THEN "done" ELSE "post"

\* purge_kmsg_queue: while the list is not empty ...
KmsgQueueNotEmpty(t) ==
  /\ pc[t] = "purge"
  /\ IF kmsg_queue # <<>>
       THEN Goto(t, "ensure") /\ op' = [op EXCEPT ![t] = "dequeue"]
       ELSE Goto(t, AfterPurge(t)) /\ UNCHANGED op
  /\ UNCHANGED <<notifying, queueing, live, event, p>>

\* Mutant: one entry is purged, not all.
DisposeKmsgOnce(t) ==
  /\ pc[t] = "posted"
  /\ p[t] # NULL
  /\ p' = [p EXCEPT ![t] = NULL]
  /\ Goto(t, AfterPurge(t))
  /\ UNCHANGED <<notifying, queueing, live, event, op>>

\* ... take an entry and, once it is posted, free it.
DisposeKmsg(t) ==
  /\ pc[t] = "posted"
  /\ p[t] # NULL
  /\ p' = [p EXCEPT ![t] = NULL]
  /\ Goto(t, "purge")
  /\ UNCHANGED <<notifying, queueing, live, event, op>>
-----------------------------------------------------------------------------
(* ui_sys_post_ui_event.                                                    *)

\* Mutant: a purging thread posts its own event in place of the entry's.
SubjectOwn(t) == IF event[t] # NULL THEN event[t] ELSE p[t]

Subject(t) == IF p[t] # NULL THEN p[t] ELSE event[t]

\* The message is built and the data block disposed of ...
PostUiEvent(t) ==
  /\ pc[t] = "post"
  /\ live' = live \ {Subject(t)}
  /\ Goto(t, "notify")
  /\ UNCHANGED <<notifying, queueing, event, op, p>>

\* Mutant: the walk over the table does not start at its beginning again.
NotifyCallbacksOn(t) ==
  /\ pc[t] = "notify"
  /\ LET u == saved_output_callbacks[slot[t]]
     IN  received' = IF u = NoUi THEN received
                     ELSE [received EXCEPT ![u] = Append(@, Subject(t))]
  /\ slot' = [slot EXCEPT ![t] = @ + 1]
  /\ Goto(t, IF slot[t] < MAX_NUM_CALLBACKS THEN "notify" ELSE "posted")
  /\ UNCHANGED <<event_notify_initialized, saved_output_callbacks, sent, queueing, live, event, op, p>>

\* ... and each registered callback is called.
NotifyCallbacks(t) ==
  /\ pc[t] = "notify"
  /\ LET u == saved_output_callbacks[slot[t]]
     IN  received' = IF u = NoUi THEN received
                     ELSE [received EXCEPT ![u] = Append(@, Subject(t))]
  /\ slot' = [slot EXCEPT ![t] = IF @ < MAX_NUM_CALLBACKS THEN @ + 1 ELSE 1]
  /\ Goto(t, IF slot[t] < MAX_NUM_CALLBACKS THEN "notify" ELSE "posted")
  /\ UNCHANGED <<event_notify_initialized, saved_output_callbacks, sent, queueing, live, event, op, p>>

\* A poster's own event is out: its call returns.
Return(t) ==
  /\ pc[t] = "posted"
  /\ p[t] = NULL
  /\ event' = [event EXCEPT ![t] = NULL]
  /\ Goto(t, "idle")
  /\ UNCHANGED <<notifying, queueing, live, op, p>>
-----------------------------------------------------------------------------
Step(t) ==
  \/ CheckInitialized(t) \/ EnsureSemaphore(t) \/ AcquireSemaphore(t) \/ Enqueue(t)
  \/ Dequeue(t) \/ ReleaseSemaphore(t) \/ KmsgQueueNotEmpty(t)
  \/ DisposeKmsg(t) \/ PostUiEvent(t) \/ NotifyCallbacks(t) \/ Return(t)

Next ==
  /\ ~Halted
  /\ \/ InitOutputCallbacks
     \/ EventNotifyInit
     \/ \E u \in Uis : RegisterOutputCallback(u) \/ SaveCallback(u)
     \/ \E t \in Posters : Notify(t)
     \/ \E t \in Posters \cup {Boot} : Step(t)

Spec == Init /\ [][Next]_vars

\* Started calls run on; a thread that waits for the semaphore gets its turn.
Fairness ==
  /\ WF_vars(~Halted /\ EventNotifyInit)
  /\ \A t \in Posters \cup {Boot} :
       WF_vars(~Halted /\ Step(t)) /\ SF_vars(~Halted /\ AcquireSemaphore(t))

FairSpec == Spec /\ Fairness
-----------------------------------------------------------------------------
TypeOK ==
  /\ event_notify_initialized \in BOOLEAN
  /\ kmsg_queue \in Seq(Events)
  /\ semaphore \in {"none", "free", "held"}
  /\ kmsg_queue_semaphore_created \in BOOLEAN
  /\ saved_output_callbacks \in [Slots -> Uis \cup {NoUi}]
  /\ live \subseteq Events
  /\ sent \in [Posters -> Nat] /\ \A t \in Posters : sent[t] <= MaxEvents[t]
  /\ received \in [Uis -> Seq(Events)]
  /\ pc \in [Threads -> {"idle", "init", "save", "registered", "dropped", "check",
                         "purge", "ensure", "create", "created", "acquire", "locked", "release",
                         "post", "notify", "posted", "done", "ASSERT"}]
  /\ event \in [Threads -> Events \cup {NULL}]
  /\ op \in [Threads -> {"enqueue", "dequeue"}]
  /\ p \in [Threads -> Events \cup {NULL}]
  /\ slot \in [Threads -> Slots]

\* At most one thread is between getting and putting the semaphore, whoever
\* created it (960-1014).
Locked(t) == pc[t] \in {"locked", "release"}
QueueExclusive ==
  /\ \A t, u \in Threads : Locked(t) /\ Locked(u) => t = u
  /\ (\E t \in Threads : Locked(t)) <=> semaphore = "held"

\* An event not yet posted is in one place: the call that sends it, the queue
\* or the thread that took it from the queue.  So its data block is disposed of
\* at most once, and only a starved event's is never disposed of.
EventOwnedOnce ==
  \A e \in Events :
    LET sending == {t \in Threads : event[t] = e}
        waiting == {i \in DOMAIN kmsg_queue : kmsg_queue[i] = e}
        taken == {t \in Threads : p[t] = e}
        holders == Cardinality(sending) + Cardinality(waiting) + Cardinality(taken)
    IN  /\ holders <= 1
        /\ e \in live \ Starved => holders = 1
        /\ waiting # {} => e \in live
        /\ \A t \in sending \cup taken : pc[t] = "post" /\ Subject(t) = e => e \in live

\* A UI is called with an event once, however many threads purge (1176-1200).
ReceivedOnce == \A u \in Uis : IsInjective(received[u])

\* An event goes out to the UIs only when none that its component sent before is
\* still in the queue, whatever the queue holds and whoever purges it (1126-1135,
\* 1182-1188, 1491).  So a component's events are overtaken at most in the hands of
\* another thread, between its dequeue and its call of the last callback.
InOrder ==
  \A t \in Threads : pc[t] \in {"post", "notify"} =>
    \A e \in ToSet(kmsg_queue) : e.by = Subject(t).by => e.n > Subject(t).n

\* "Send any UI events that may have been queued on to the UI": what is in the
\* queue when the init thread purges it is posted (1206).  (A starved event never
\* is.)
BootFlushes ==
  \A e \in Events \ Starved :
    e \in ToSet(kmsg_queue) /\ pc[Boot] = "purge" ~> e \notin live \/ Halted

\* No path leaves the semaphore taken: every call returns.  The threads send a
\* bounded number of events, so this is that they are all out again and again.
CallsReturn ==
  []<>(Halted \/ \A t \in Posters \cup {Boot} : pc[t] \in {"idle", "done"})

\* purge_kmsg_queue never takes an entry from an empty queue: ASSERT( p ) (1186).
PurgeFindsEntry ==
  \A t \in Threads : pc[t] = "release" /\ op[t] = "dequeue" => p[t] # NULL

\* What is purged from the queue is received by a UI (1206).
QueuedIsReceived ==
  \A t \in Threads : pc[t] = "posted" /\ p[t] # NULL =>
    \E u \in Uis : p[t] \in ToSet(received[u])

\* As a mailbox: an event is out while a thread has it to hand it to the callbacks,
\* which it owes to those it has not come to.
Has(t, e) ==
  \/ p[t] = e
  \/ event[t] = e /\ p[t] = NULL /\ pc[t] \in {"post", "notify", "posted"}

Stage(e) ==
  IF sent[e.by] < e.n THEN "new"
  ELSE IF \E t \in Threads : Has(t, e) THEN "out"
  ELSE IF event[e.by] = e THEN "sent"
  ELSE IF e \in ToSet(kmsg_queue) THEN "stored"
  ELSE "over"

Listening == {u \in Uis : \E i \in Slots : saved_output_callbacks[i] = u}
Owed(e) ==
  {u \in Listening : \E t \in Threads : Has(t, e) /\ pc[t] # "posted" /\ slot[t] <= slot[u]}

Mailbox == INSTANCE EventMailbox WITH
  Losable <- Starved,
  stage <- [e \in Events |-> Stage(e)],
  listening <- Listening,
  owed <- [e \in Events |-> Owed(e)],
  got <- received

\* A component's events come out in the order of their sending, none is lost but a
\* starved one, and each goes once to every UI that is registered from the time it
\* comes out: whichever threads purge the queue, a UI is in one slot, and the walk
\* over the table skips none (1126-1135, 1176-1200, 1481-1491).
ImplementsMailbox == Mailbox!Spec
=============================================================================

--------------------------- MODULE EventQueueProofs ---------------------------
(***************************************************************************)
(* What holds of the event queue for any number of posters, events, UIs    *)
(* and callback slots, however the threads interleave.  The invariants of  *)
(* EventQueue are not inductive; what they rest on is stated below, in     *)
(* parts: who holds what at which label (Hands), the order of a            *)
(* component's events (Ordered), which data blocks are allocated           *)
(* (Allocated), who is in the table of callbacks (Registered) and what a   *)
(* UI has already been called with (Delivered).  From the first, second    *)
(* and fourth follows that the queue is an EventMailbox.                   *)
(***************************************************************************)
EXTENDS EventQueue, FiniteSetTheorems, TLAPS

Workers == Posters \cup {Boot}
Queued == 1..Len(kmsg_queue)
Posting(t) == pc[t] \in {"post", "notify", "posted"}

\* A UI holds no event.  A poster holds its own last event from its call until
\* the event is queued or out; the init thread has none of its own.  An entry is
\* held from its dequeue until it is freed.
HandsOf(t) ==
  /\ pc[t] \notin {"save", "registered", "dropped"}
  /\ event[t] # NULL => t # Boot /\ event[t].by = t /\ event[t].n = sent[t]
  /\ pc[t] \in {"idle", "init", "done"} => event[t] = NULL
  /\ pc[t] = "release" /\ op[t] = "enqueue" => event[t] = NULL
  /\ pc[t] \in {"check", "purge", "ensure", "create", "created", "acquire", "locked"}
       \/ Posting(t) \/ (pc[t] = "release" /\ op[t] = "dequeue")
     => event[t] # NULL \/ t = Boot
  /\ t = Boot => /\ pc[t] # "check"
                 /\ pc[t] \in {"ensure", "create", "created", "acquire", "locked", "release"}
                      => op[t] = "dequeue"
                 /\ Posting(t) => p[t] # NULL
  /\ p[t] # NULL => Posting(t) \/ (pc[t] = "release" /\ op[t] = "dequeue")

Hands ==
  /\ \A u \in Uis : /\ pc[u] \in {"idle", "save", "registered", "dropped"}
                    /\ event[u] = NULL /\ p[u] = NULL
  /\ \A t \in Workers : HandsOf(t)

\* A component's events are in the queue in the order of their sending, and the
\* one it still holds is later than those.
QueueInOrder ==
  /\ \A i, j \in Queued : i < j /\ kmsg_queue[i].by = kmsg_queue[j].by
                          => kmsg_queue[i].n < kmsg_queue[j].n
  /\ \A i \in Queued : kmsg_queue[i].n <= sent[kmsg_queue[i].by]
  /\ \A i \in Queued : event[kmsg_queue[i].by] # NULL
                       => kmsg_queue[i].n < sent[kmsg_queue[i].by]

\* An entry that was taken is earlier than those still in the queue and than the
\* event its component holds, and no two threads took the same.
TakenInOrder ==
  /\ \A t \in Workers : p[t] # NULL =>
       /\ p[t].n <= sent[p[t].by]
       /\ event[p[t].by] # NULL => p[t].n < sent[p[t].by]
       /\ \A i \in Queued : kmsg_queue[i].by = p[t].by => p[t].n < kmsg_queue[i].n
  /\ \A t, u \in Workers : p[t] = p[u] /\ p[t] # NULL => t = u

\* A poster posts its own event when none of its earlier ones is queued.
OwnIsLast ==
  \A t \in Posters : Posting(t) /\ p[t] = NULL =>
    \A i \in Queued : kmsg_queue[i].by # t

Ordered == QueueInOrder /\ TakenInOrder /\ OwnIsLast

\* An allocated event is held or queued, unless it was starved; a queued one and
\* one that is held and not yet posted are allocated, one that is posted is not.
Posted(t) == pc[t] \in {"notify", "posted"}

Allocated ==
  /\ \A e \in live \ Starved :
       \/ \E t \in Workers : event[t] = e \/ p[t] = e
       \/ \E i \in Queued : kmsg_queue[i] = e
  /\ \A i \in Queued : kmsg_queue[i] \in live
  /\ \A t \in Workers :
       /\ event[t] # NULL => (Posted(t) /\ p[t] = NULL) \/ event[t] \in live
       /\ p[t] # NULL => Posted(t) \/ p[t] \in live
       /\ Posted(t) => Subject(t) \notin live

\* A callback is in the slot its UI found, and a UI has been called with an event
\* that is queued or held only if the thread that holds it is past that slot.
Past(t, u) == pc[t] = "posted" \/ (pc[t] = "notify" /\ slot[u] < slot[t])

Registered ==
  /\ \A i \in Slots : \A u \in Uis :
       saved_output_callbacks[i] = u => slot[u] = i /\ pc[u] = "registered"
  /\ \A u \in Uis : received[u] # <<>> => pc[u] = "registered"
  /\ \A t \in Workers : pc[t] # "notify" => slot[t] = 1

Delivered ==
  \A u \in Uis :
    /\ \A i, j \in 1..Len(received[u]) : received[u][i] = received[u][j] => i = j
    /\ \A i \in 1..Len(received[u]) :
         LET e == received[u][i]
         IN  /\ e.n <= sent[e.by]
             /\ \A k \in Queued : kmsg_queue[k] # e
             /\ \A t \in Workers : /\ event[t] = e => p[t] = NULL /\ Past(t, u)
                                   /\ p[t] = e => Past(t, u)
-----------------------------------------------------------------------------
(* The constants, and the types.                                            *)

\* An event is known by its sender and its number; NULL is none.
LEMMA EventFacts ==
  /\ NULL \notin Events
  /\ NULL.by = Boot /\ Boot \notin Posters /\ Posters \cap Uis = {} /\ Boot \notin Uis
  /\ NoUi \notin Uis
  /\ \A e \in Events : e.by \in Posters /\ e.n \in Nat
  /\ \A e, f \in Events : e.by = f.by /\ e.n = f.n => e = f
  /\ \A t \in Posters : \A n \in 1..MaxEvents[t] : [by |-> t, n |-> n] \in Events
  /\ 1 \in Slots /\ Slots \subseteq Nat
  /\ Threads = Workers \cup Uis /\ Workers \cap Uis = {}
BY EventAssumption DEF Events, NULL, Slots, Threads, Workers

\* The events of a sender are numbered from one.
LEMMA EventNumbers == \A e \in Events : \E t \in Posters : e.n \in 1..MaxEvents[t]
BY DEF Events

LEMMA InitTypes == Init => TypeOK /\ Hands
<1> SUFFICES ASSUME Init PROVE TypeOK /\ Hands
  OBVIOUS
<1>1. \A t \in Posters : 0 <= MaxEvents[t]
  BY EventAssumption
<1>2. TypeOK
  <2>1. <<>> \in Seq(Events)
    OBVIOUS
  <2>2. received \in [Uis -> Seq(Events)] /\ kmsg_queue \in Seq(Events)
    BY <2>1 DEF Init
  <2>3. sent \in [Posters -> Nat] /\ \A t \in Posters : sent[t] <= MaxEvents[t]
    BY <1>1 DEF Init
  <2> QED BY <2>2, <2>3, EventFacts DEF Init, TypeOK
<1>3. Hands
  BY EventFacts DEF Init, Hands, HandsOf, Posting
<1> QED BY <1>2, <1>3

\* The types of a queue after a step.
LEMMA QueueTypes ==
  ASSUME kmsg_queue \in Seq(Events)
  PROVE  /\ \A e \in Events : Append(kmsg_queue, e) \in Seq(Events)
         /\ FirstEntry \in Events \cup {NULL}
         /\ kmsg_queue # <<>> => Tail(kmsg_queue) \in Seq(Events)
BY DEF FirstEntry

LEMMA SentBound ==
  ASSUME TypeOK, NEW t \in Posters, sent[t] < MaxEvents[t]
  PROVE  sent[t] + 1 \in Nat /\ sent[t] + 1 <= MaxEvents[t]
<1>1. sent[t] \in Nat /\ MaxEvents[t] \in Nat
  BY EventAssumption DEF TypeOK
<1> QED BY <1>1

LEMMA StepTypes ==
  ASSUME TypeOK, Hands, [Next]_vars
  PROVE  TypeOK' /\ Hands'
<1> USE EventFacts DEF TypeOK, notifying, queueing, Goto
<1>1. CASE InitOutputCallbacks
  BY <1>1 DEF InitOutputCallbacks, Hands, HandsOf, Posting, Workers
<1>2. CASE EventNotifyInit
  BY <1>2 DEF EventNotifyInit, Hands, HandsOf, Posting, Workers
<1>3. ASSUME NEW u \in Uis, RegisterOutputCallback(u)
      PROVE  TypeOK' /\ Hands'
  <2>1. TypeOK'
    <3>1. slot[u] \in Slots /\ (slot[u] < MAX_NUM_CALLBACKS => slot[u] + 1 \in Slots)
      BY EventAssumption DEF Slots
    <3>2. slot' \in [Threads -> Slots]
      BY <1>3, <3>1, SMTT(60) DEF RegisterOutputCallback
    <3>3. UNCHANGED <<event_notify_initialized, kmsg_queue, semaphore, kmsg_queue_semaphore_created,
                      saved_output_callbacks, live, sent, received, event, op, p>>
      BY <1>3 DEF RegisterOutputCallback
    <3>4. pc' = pc \/ pc' = [pc EXCEPT ![u] = "save"] \/ pc' = [pc EXCEPT ![u] = "dropped"]
      BY <1>3 DEF RegisterOutputCallback
    <3> QED BY <3>2, <3>3, <3>4
  <2>2. \A w \in Workers : HandsOf(w)'
    BY <1>3 DEF RegisterOutputCallback, Hands, HandsOf, Posting
  <2>3. \A w \in Uis : pc'[w] \in {"idle", "save", "registered", "dropped"}
    BY <1>3 DEF RegisterOutputCallback, Hands
  <2> QED BY <1>3, <2>1, <2>2, <2>3 DEF RegisterOutputCallback, Hands
<1>4. ASSUME NEW u \in Uis, SaveCallback(u)
      PROVE  TypeOK' /\ Hands'
  BY <1>4 DEF SaveCallback, Hands, HandsOf, Posting
<1>5. ASSUME NEW t \in Posters, Notify(t)
      PROVE  TypeOK' /\ Hands'
  <2>1. TypeOK'
    <3>1. sent[t] + 1 \in Nat /\ sent[t] + 1 <= MaxEvents[t]
      BY <1>5, SentBound DEF Notify
    <3>2. [by |-> t, n |-> sent[t] + 1] \in Events
      BY <3>1, EventAssumption
    <3> QED BY <1>5, <3>1, <3>2 DEF Notify
  <2>2. ASSUME NEW w \in Workers PROVE HandsOf(w)'
    <3>1. CASE w = t
      BY <1>5, <3>1 DEF Notify, Hands, HandsOf, Posting
    <3>2. CASE w # t
      BY <1>5, <3>2 DEF Notify, Hands, HandsOf, Posting
    <3> QED BY <3>1, <3>2
  <2>3. \A u \in Uis : pc'[u] = pc[u] /\ event'[u] = event[u] /\ p'[u] = p[u]
    BY <1>5 DEF Notify
  <2> QED BY <2>1, <2>2, <2>3 DEF Hands
<1>6. ASSUME NEW t \in Workers, CheckInitialized(t)
      PROVE  TypeOK' /\ Hands'
  <2>1. TypeOK'
    BY <1>6, ZenonT(60) DEF CheckInitialized
  <2>2. ASSUME NEW w \in Workers PROVE HandsOf(w)'
    <3>1. CASE w = t
      BY <1>6, <3>1 DEF CheckInitialized, Hands, HandsOf, Posting
    <3>2. CASE w # t
      BY <1>6, <3>2 DEF CheckInitialized, Hands, HandsOf, Posting
    <3> QED BY <3>1, <3>2
  <2>3. \A u \in Uis : pc'[u] = pc[u] /\ event'[u] = event[u] /\ p'[u] = p[u]
    BY <1>6 DEF CheckInitialized
  <2> QED BY <2>1, <2>2, <2>3 DEF Hands
<1>7. ASSUME NEW t \in Workers, EnsureSemaphore(t)
      PROVE  TypeOK' /\ Hands'
  <2>1. TypeOK'
    BY <1>7, ZenonT(60) DEF EnsureSemaphore
  <2>2. ASSUME NEW w \in Workers PROVE HandsOf(w)'
    <3>1. CASE w = t
      <4>1. /\ pc[t] \in {"ensure", "create", "created"}
            /\ pc'[t] \in {"create", "created", "acquire", "ASSERT"}
            /\ UNCHANGED <<event, op, p, sent>>
        BY <1>7 DEF EnsureSemaphore
      <4> QED BY <3>1, <4>1 DEF Hands, HandsOf, Posting
    <3>2. CASE w # t
      BY <1>7, <3>2 DEF EnsureSemaphore, Hands, HandsOf, Posting
    <3> QED BY <3>1, <3>2
  <2>3. \A u \in Uis : pc'[u] = pc[u] /\ event'[u] = event[u] /\ p'[u] = p[u]
    BY <1>7 DEF EnsureSemaphore
  <2> QED BY <2>1, <2>2, <2>3 DEF Hands
<1>8. ASSUME NEW t \in Workers, AcquireSemaphore(t)
      PROVE  TypeOK' /\ Hands'
  BY <1>8 DEF AcquireSemaphore, Hands, HandsOf, Posting
<1>9. ASSUME NEW t \in Workers, Enqueue(t)
      PROVE  TypeOK' /\ Hands'
  BY <1>9, QueueTypes DEF Enqueue, Hands, HandsOf, Posting
<1>10. ASSUME NEW t \in Workers, Dequeue(t)
       PROVE  TypeOK' /\ Hands'
  BY <1>10, QueueTypes DEF Dequeue, Hands, HandsOf, Posting
<1>11. ASSUME NEW t \in Workers, ReleaseSemaphore(t)
       PROVE  TypeOK' /\ Hands'
  BY <1>11 DEF ReleaseSemaphore, AfterRelease, Hands, HandsOf, Posting
<1>12. ASSUME NEW t \in Workers, KmsgQueueNotEmpty(t)
       PROVE  TypeOK' /\ Hands'
  <2>1. TypeOK'
    BY <1>12, ZenonT(60) DEF KmsgQueueNotEmpty, AfterPurge
  <2>2. ASSUME NEW w \in Workers PROVE HandsOf(w)'
    <3>1. CASE w = t
      BY <1>12, <3>1 DEF KmsgQueueNotEmpty, AfterPurge, Hands, HandsOf, Posting
    <3>2. CASE w # t
      BY <1>12, <3>2 DEF KmsgQueueNotEmpty, AfterPurge, Hands, HandsOf, Posting
    <3> QED BY <3>1, <3>2
  <2>3. \A u \in Uis : pc'[u] = pc[u] /\ event'[u] = event[u] /\ p'[u] = p[u]
    BY <1>12 DEF KmsgQueueNotEmpty, AfterPurge
  <2> QED BY <2>1, <2>2, <2>3 DEF Hands
<1>13. ASSUME NEW t \in Workers, DisposeKmsg(t)
       PROVE  TypeOK' /\ Hands'
  BY <1>13 DEF DisposeKmsg, Hands, HandsOf, Posting
<1>14. ASSUME NEW t \in Workers, PostUiEvent(t)
       PROVE  TypeOK' /\ Hands'
  BY <1>14 DEF PostUiEvent, Hands, HandsOf, Posting
<1>15. ASSUME NEW t \in Workers, NotifyCallbacks(t)
       PROVE  TypeOK' /\ Hands'
  BY <1>15, EventAssumption DEF NotifyCallbacks, Subject, Hands, HandsOf, Posting, Slots
<1>16. ASSUME NEW t \in Workers, Return(t)
       PROVE  TypeOK' /\ Hands'
  BY <1>16 DEF Return, Hands, HandsOf, Posting
<1>17. CASE UNCHANGED vars
  BY <1>17 DEF vars, Hands, HandsOf, Posting
<1> QED
  BY <1>1, <1>2, <1>3, <1>4, <1>5, <1>6, <1>7, <1>8, <1>9, <1>10, <1>11, <1>12, <1>13,
     <1>14, <1>15, <1>16, <1>17 DEF Next, Step, Workers

\* Every variable holds a value of its type, in every state of every run; in
\* particular what a thread appends to the queue, and what it calls a callback
\* with, is an event and never the NULL it holds before and after (1126-1188).
THEOREM TypeCorrect == Spec => []TypeOK
<1>1. Init => TypeOK /\ Hands
  BY InitTypes
<1>2. TypeOK /\ Hands /\ [Next]_vars => TypeOK' /\ Hands'
  BY StepTypes
<1> QED BY <1>1, <1>2, PTL DEF Spec
-----------------------------------------------------------------------------
(* The semaphore.                                                           *)

\* What a step does to the semaphore and to the threads that have it.
LEMMA LockSteps ==
  ASSUME TypeOK, [Next]_vars
  PROVE  \/ /\ semaphore' = semaphore \/ (semaphore = "none" /\ semaphore' = "free")
            /\ \A w \in Threads : Locked(w)' <=> Locked(w)
         \/ \E t \in Threads :
              /\ semaphore = "free" /\ semaphore' = "held"
              /\ pc' = [pc EXCEPT ![t] = "locked"]
         \/ \E t \in Threads :
              /\ Locked(t) /\ semaphore' = "free"
              /\ ~Locked(t)' /\ \A w \in Threads \ {t} : pc'[w] = pc[w]
<1> USE EventFacts DEF TypeOK, notifying, queueing, Goto, Locked
<1> DEFINE Same == semaphore' = semaphore \/ (semaphore = "none" /\ semaphore' = "free")
           Kept == \A w \in Threads : Locked(w)' <=> Locked(w)
<1>1. CASE InitOutputCallbacks \/ EventNotifyInit \/ \E u \in Uis : SaveCallback(u)
  BY <1>1 DEF InitOutputCallbacks, EventNotifyInit, SaveCallback
<1>2. ASSUME NEW u \in Uis, RegisterOutputCallback(u) PROVE Same /\ Kept
  BY <1>2 DEF RegisterOutputCallback
<1>3. ASSUME NEW t \in Posters, Notify(t) PROVE Same /\ Kept
  BY <1>3 DEF Notify
<1>4. ASSUME NEW t \in Workers, CheckInitialized(t) PROVE Same /\ Kept
  BY <1>4 DEF CheckInitialized
<1>5. ASSUME NEW t \in Workers, EnsureSemaphore(t) PROVE Same /\ Kept
  BY <1>5 DEF EnsureSemaphore
<1>6. ASSUME NEW t \in Workers, Enqueue(t) \/ Dequeue(t) PROVE Same /\ Kept
  BY <1>6 DEF Enqueue, Dequeue
<1>7. ASSUME NEW t \in Workers, KmsgQueueNotEmpty(t) PROVE Same /\ Kept
  BY <1>7 DEF KmsgQueueNotEmpty, AfterPurge
<1>8. ASSUME NEW t \in Workers, DisposeKmsg(t) \/ PostUiEvent(t) \/ Return(t) PROVE Same /\ Kept
  BY <1>8 DEF DisposeKmsg, PostUiEvent, Return
<1>9. ASSUME NEW t \in Workers, NotifyCallbacks(t) PROVE Same /\ Kept
  BY <1>9 DEF NotifyCallbacks
<1>10. ASSUME NEW t \in Workers, AcquireSemaphore(t)
       PROVE  /\ semaphore = "free" /\ semaphore' = "held"
              /\ pc' = [pc EXCEPT ![t] = "locked"]
  BY <1>10 DEF AcquireSemaphore
<1>11. ASSUME NEW t \in Workers, ReleaseSemaphore(t)
       PROVE  /\ Locked(t) /\ semaphore' = "free"
              /\ ~Locked(t)' /\ \A w \in Threads \ {t} : pc'[w] = pc[w]
  BY <1>11 DEF ReleaseSemaphore, AfterRelease
<1>12. CASE UNCHANGED vars
  BY <1>12 DEF vars
<1> QED
  BY <1>1, <1>2, <1>3, <1>4, <1>5, <1>6, <1>7, <1>8, <1>9, <1>10, <1>11, <1>12, ZenonT(60)
  DEF Next, Step, Workers

LEMMA StepExclusive ==
  ASSUME TypeOK, QueueExclusive, [Next]_vars
  PROVE  QueueExclusive'
<1>1. CASE /\ semaphore' = semaphore \/ (semaphore = "none" /\ semaphore' = "free")
           /\ \A w \in Threads : Locked(w)' <=> Locked(w)
  BY <1>1 DEF QueueExclusive
<1>2. ASSUME NEW t \in Threads, semaphore = "free", semaphore' = "held",
             pc' = [pc EXCEPT ![t] = "locked"]
      PROVE  QueueExclusive'
  <2>1. \A w \in Threads : ~Locked(w)
    BY <1>2 DEF QueueExclusive
  <2>2. \A w \in Threads : Locked(w)' <=> w = t
    BY <1>2, <2>1 DEF Locked, TypeOK
  <2> QED BY <1>2, <2>2 DEF QueueExclusive
<1>3. ASSUME NEW t \in Threads, Locked(t), semaphore' = "free", ~Locked(t)',
             \A w \in Threads \ {t} : pc'[w] = pc[w]
      PROVE  QueueExclusive'
  <2>1. \A w \in Threads : ~Locked(w)'
    BY <1>3 DEF QueueExclusive, Locked
  <2> QED BY <1>3, <2>1 DEF QueueExclusive
<1> QED BY <1>1, <1>2, <1>3, LockSteps

\* The semaphore is held exactly when one thread is between getting and putting
\* it, and then it is one thread only, although the code creates the semaphore
\* behind an unlocked check: whichever thread creates it, no other can have
\* gone past the check into the queue (960-1014).
THEOREM QueueIsExclusive == Spec => []QueueExclusive
<1>1. Init => QueueExclusive
  BY EventFacts DEF Init, QueueExclusive, Locked
<1>2. TypeOK /\ QueueExclusive /\ [Next]_vars => QueueExclusive'
  BY StepExclusive
<1> QED BY <1>1, <1>2, TypeCorrect, PTL DEF Spec
-----------------------------------------------------------------------------
(* Steps that only move a thread on.                                        *)

\* The steps of a worker that neither send, queue, take, free nor hand out an
\* event; a starved one may be dropped, which is then nowhere.
Control(t) ==
  \/ CheckInitialized(t) \/ EnsureSemaphore(t) \/ AcquireSemaphore(t)
  \/ ReleaseSemaphore(t) \/ KmsgQueueNotEmpty(t)

LEMMA ControlSteps ==
  ASSUME TypeOK, Hands, NEW t \in Workers, Control(t)
  PROVE  /\ UNCHANGED <<notifying, kmsg_queue, live, p>>
         /\ \/ event' = event
            \/ event[t] \in Starved /\ p[t] = NULL /\ event' = [event EXCEPT ![t] = NULL]
         /\ \A w \in Threads \ {t} : pc'[w] = pc[w]
         /\ ~Posting(t)
         /\ pc'[t] \notin {"notify", "posted"}
         /\ pc'[t] = "post" => p[t] # NULL \/ kmsg_queue = <<>>
<1> USE EventFacts DEF TypeOK, notifying, queueing, Goto
<1>1. CASE CheckInitialized(t)
  BY <1>1, SMTT(60) DEF CheckInitialized, Hands, HandsOf, Posting
<1>2. CASE EnsureSemaphore(t)
  BY <1>2 DEF EnsureSemaphore, Posting
<1>3. CASE AcquireSemaphore(t)
  BY <1>3 DEF AcquireSemaphore, Posting
<1>4. CASE ReleaseSemaphore(t)
  BY <1>4 DEF ReleaseSemaphore, AfterRelease, Posting
<1>5. CASE KmsgQueueNotEmpty(t)
  BY <1>5 DEF KmsgQueueNotEmpty, AfterPurge, Posting
<1> QED BY <1>1, <1>2, <1>3, <1>4, <1>5 DEF Control

\* The steps of the threads that register, and of the init thread before its purge.
LEMMA RegisterSteps ==
  ASSUME TypeOK, Hands,
         \/ InitOutputCallbacks \/ EventNotifyInit
         \/ \E u \in Uis : RegisterOutputCallback(u) \/ SaveCallback(u)
  PROVE  /\ UNCHANGED <<kmsg_queue, live, sent, received, event, op, p>>
         /\ \A w \in Workers : pc'[w] = pc[w] \/ (pc[w] \in {"idle", "init"} /\ pc'[w] \in {"init", "purge"})
<1> USE EventFacts DEF TypeOK, notifying, queueing, Goto
<1>1. CASE InitOutputCallbacks
  BY <1>1 DEF InitOutputCallbacks, Workers
<1>2. CASE EventNotifyInit
  BY <1>2 DEF EventNotifyInit, Workers
<1>3. ASSUME NEW u \in Uis, RegisterOutputCallback(u) \/ SaveCallback(u)
      PROVE  /\ UNCHANGED <<kmsg_queue, live, sent, received, event, op, p>>
             /\ \A w \in Workers : pc'[w] = pc[w]
  BY <1>3 DEF RegisterOutputCallback, SaveCallback
<1> QED BY <1>1, <1>2, <1>3

\* The queue after an append and after a dequeue, place by place.
LEMMA AppendedPlaces ==
  ASSUME TypeOK, NEW e \in Events, kmsg_queue' = Append(kmsg_queue, e)
  PROVE  /\ Queued' = 1..Len(kmsg_queue) + 1 /\ Queued = 1..Len(kmsg_queue) /\ Len(kmsg_queue) \in Nat
         /\ \A i \in Queued : kmsg_queue'[i] = kmsg_queue[i]
         /\ kmsg_queue'[Len(kmsg_queue) + 1] = e
         /\ \A i \in Queued' : i \in Queued \/ i = Len(kmsg_queue) + 1
BY DEF TypeOK, Queued

LEMMA DequeuedPlaces ==
  ASSUME TypeOK, kmsg_queue # <<>>, kmsg_queue' = Tail(kmsg_queue)
  PROVE  /\ 1 \in Queued /\ FirstEntry = kmsg_queue[1] /\ kmsg_queue[1] \in Events
         /\ Queued \subseteq Nat
         /\ \A i \in Queued' : i \in Nat /\ i + 1 \in Queued /\ 1 < i + 1 /\ kmsg_queue'[i] = kmsg_queue[i + 1]
         /\ \A i \in Queued : i = 1 \/ i - 1 \in Queued'
BY DEF TypeOK, Queued, FirstEntry

\* What is queued is an event, and so has a sender and a number.
LEMMA QueuedIsEvent ==
  ASSUME TypeOK
  PROVE  \A i \in Queued : kmsg_queue[i] \in Events /\ kmsg_queue[i].by \in Posters /\ kmsg_queue[i].n \in Nat
<1>1. \A i \in Queued : kmsg_queue[i] \in Events
  BY DEF TypeOK, Queued
<1> QED BY <1>1, EventFacts
-----------------------------------------------------------------------------
(* The order of the events.                                                 *)

\* The types that comparisons of events rest on.
LEMMA HeldTypes ==
  ASSUME TypeOK
  PROVE  /\ Queued \subseteq Nat
         /\ \A i \in Queued : kmsg_queue[i].by \in Posters /\ kmsg_queue[i].n \in Nat
         /\ \A t \in Workers : p[t] # NULL => p[t].by \in Posters /\ p[t].n \in Nat
         /\ \A t \in Posters : sent[t] \in Nat
         /\ Posters \subseteq Workers /\ Workers \subseteq Threads
<1>1. \A t \in Workers : p[t] # NULL => p[t] \in Events
  BY EventFacts DEF TypeOK
<1>2. \A t \in Posters : sent[t] \in Nat
  BY DEF TypeOK
<1> QED BY <1>1, <1>2, QueuedIsEvent, EventFacts DEF Queued, Workers

LEMMA StepOrdered ==
  ASSUME TypeOK, Hands, Ordered, [Next]_vars
  PROVE  Ordered'
<1> DEFINE Idle == /\ UNCHANGED <<kmsg_queue, sent, event, p>>
                   /\ \A w \in Posters : Posting(w)' => Posting(w)
<1>1. ASSUME Idle PROVE Ordered'
  <2>1. Queued' = Queued
    BY <1>1 DEF Queued
  <2> QED BY <1>1, <2>1 DEF Ordered, QueueInOrder, TakenInOrder, OwnIsLast
<1>2. CASE \/ InitOutputCallbacks \/ EventNotifyInit
           \/ \E u \in Uis : RegisterOutputCallback(u) \/ SaveCallback(u)
  <2>1. Idle
    BY <1>2, RegisterSteps, HeldTypes DEF Posting
  <2> QED BY <1>1, <2>1
<1>3. ASSUME NEW t \in Posters, Notify(t) PROVE Ordered'
  <2>1. /\ UNCHANGED <<kmsg_queue, p>> /\ Queued' = Queued
        /\ sent'[t] = sent[t] + 1 /\ \A w \in Posters \ {t} : sent'[w] = sent[w]
        /\ event'[t] # NULL
        /\ \A w \in Threads \ {t} : event'[w] = event[w] /\ pc'[w] = pc[w]
        /\ ~Posting(t)'
    BY <1>3, HeldTypes DEF TypeOK, Notify, notifying, queueing, Queued, Posting, Goto, NULL
  <2>2. QueueInOrder'
    BY <2>1, HeldTypes DEF Ordered, QueueInOrder
  <2>3. TakenInOrder'
    BY <2>1, HeldTypes DEF Ordered, TakenInOrder
  <2>4. OwnIsLast'
    BY <2>1, HeldTypes DEF Ordered, OwnIsLast, Posting
  <2> QED BY <2>2, <2>3, <2>4 DEF Ordered
<1>4. ASSUME NEW t \in Workers, Control(t) PROVE Ordered'
  <2>1. /\ UNCHANGED <<kmsg_queue, sent, p>> /\ Queued' = Queued
        /\ \A w \in Threads : event'[w] # NULL => event[w] # NULL
        /\ ~Posting(t) /\ (Posting(t)' => p[t] # NULL \/ kmsg_queue = <<>>)
        /\ \A w \in Threads \ {t} : pc'[w] = pc[w]
    BY <1>4, ControlSteps DEF Queued, TypeOK, Posting, notifying
  <2>2. QueueInOrder' /\ TakenInOrder'
    BY <2>1, HeldTypes DEF Ordered, QueueInOrder, TakenInOrder
  <2>3. kmsg_queue = <<>> => Queued = {}
    BY DEF Queued
  <2>4. OwnIsLast'
    BY <2>1, <2>3, HeldTypes DEF Ordered, OwnIsLast, Posting
  <2> QED BY <2>2, <2>4 DEF Ordered
<1>5. ASSUME NEW t \in Workers, Enqueue(t) PROVE Ordered'
  <2>1. /\ t \in Posters /\ event[t] \in Events /\ event[t].by = t /\ event[t].n = sent[t]
        /\ event[t] # NULL
        /\ event'[t] = NULL /\ \A w \in Threads \ {t} : event'[w] = event[w]
        /\ UNCHANGED <<sent, p>>
        /\ ~Posting(t)' /\ \A w \in Threads \ {t} : pc'[w] = pc[w]
    BY <1>5, EventFacts DEF TypeOK, Enqueue, Hands, HandsOf, Posting, Workers, Goto, notifying
  <2> DEFINE last == Len(kmsg_queue) + 1
  <2>2. /\ \A i \in Queued' : i \in Nat /\ (i \in Queued \/ i = last)
        /\ \A i \in Queued : i < last /\ kmsg_queue'[i] = kmsg_queue[i]
        /\ kmsg_queue'[last].by = t /\ kmsg_queue'[last].n = sent[t]
    <3>1. kmsg_queue' = Append(kmsg_queue, event[t])
      BY <1>5 DEF Enqueue
    <3> QED BY <2>1, <3>1, AppendedPlaces
  <2> HIDE DEF last
  <2>3. QueueInOrder'
    BY <2>1, <2>2, HeldTypes DEF Ordered, QueueInOrder
  <2>4. TakenInOrder'
    BY <2>1, <2>2, HeldTypes DEF Ordered, TakenInOrder
  <2>5. OwnIsLast'
    BY <2>1, <2>2, HeldTypes DEF Ordered, OwnIsLast, Posting
  <2> QED BY <2>3, <2>4, <2>5 DEF Ordered
<1>6. ASSUME NEW t \in Workers, Dequeue(t) PROVE Ordered'
  <2>1. /\ p'[t] = FirstEntry /\ \A w \in Threads \ {t} : p'[w] = p[w]
        /\ UNCHANGED <<sent, event>>
        /\ ~Posting(t)' /\ \A w \in Threads \ {t} : pc'[w] = pc[w]
    BY <1>6, HeldTypes DEF TypeOK, Dequeue, Posting, Goto, notifying
  <2>2. CASE kmsg_queue = <<>>
    <3>1. kmsg_queue' = kmsg_queue /\ Queued' = Queued /\ FirstEntry = NULL
      BY <1>6, <2>2 DEF Dequeue, Queued, FirstEntry
    <3> QED BY <2>1, <3>1, HeldTypes DEF Ordered, QueueInOrder, TakenInOrder, OwnIsLast, Posting
  <2>3. CASE kmsg_queue # <<>>
    <3>1. /\ 1 \in Queued /\ FirstEntry = kmsg_queue[1] /\ FirstEntry \in Events
          /\ \A i \in Queued' : i \in Nat /\ i + 1 \in Queued /\ 1 < i + 1 /\ kmsg_queue'[i] = kmsg_queue[i + 1]
      BY <1>6, <2>3, DequeuedPlaces DEF Dequeue
    <3>2. QueueInOrder'
      BY <2>1, <3>1, HeldTypes DEF Ordered, QueueInOrder
    <3>3. \A v \in Workers : p[v] # FirstEntry
      BY <3>1, HeldTypes, EventFacts DEF Ordered, TakenInOrder
    <3>4. TakenInOrder'
      <4>1. ASSUME NEW w \in Workers, p'[w] # NULL
            PROVE  /\ p'[w].n <= sent[p'[w].by]
                   /\ event[p'[w].by] # NULL => p'[w].n < sent[p'[w].by]
                   /\ \A i \in Queued' : kmsg_queue'[i].by = p'[w].by => p'[w].n < kmsg_queue'[i].n
        <5>1. CASE w = t
          BY <2>1, <3>1, <4>1, <5>1, HeldTypes DEF Ordered, QueueInOrder
        <5>2. CASE w # t
          BY <2>1, <3>1, <4>1, <5>2, HeldTypes DEF Ordered, TakenInOrder
        <5> QED BY <5>1, <5>2
      <4>2. ASSUME NEW w \in Workers, NEW u \in Workers, p'[w] = p'[u], p'[w] # NULL
            PROVE  w = u
        BY <2>1, <3>3, <4>2, HeldTypes DEF Ordered, TakenInOrder
      <4> QED BY <2>1, <4>1, <4>2 DEF TakenInOrder
    <3>5. OwnIsLast'
      BY <2>1, <3>1, HeldTypes DEF Ordered, OwnIsLast, Posting
    <3> QED BY <3>2, <3>4, <3>5 DEF Ordered
  <2> QED BY <2>2, <2>3
<1>7. ASSUME NEW t \in Workers, DisposeKmsg(t) PROVE Ordered'
  <2>1. /\ UNCHANGED <<kmsg_queue, sent, event>> /\ Queued' = Queued
        /\ p'[t] = NULL /\ \A w \in Threads \ {t} : p'[w] = p[w]
        /\ ~Posting(t)' /\ \A w \in Threads \ {t} : pc'[w] = pc[w]
    BY <1>7, HeldTypes DEF TypeOK, DisposeKmsg, Queued, Posting, Goto, notifying, queueing
  <2> QED BY <2>1, HeldTypes DEF Ordered, QueueInOrder, TakenInOrder, OwnIsLast, Posting
<1>8. ASSUME NEW t \in Workers, PostUiEvent(t) \/ NotifyCallbacks(t) PROVE Ordered'
  <2>1. Idle
    BY <1>8, HeldTypes DEF TypeOK, PostUiEvent, NotifyCallbacks, Posting, Goto, notifying, queueing
  <2> QED BY <1>1, <2>1
<1>9. ASSUME NEW t \in Workers, Return(t) PROVE Ordered'
  <2>1. /\ UNCHANGED <<kmsg_queue, sent, p>> /\ Queued' = Queued
        /\ event'[t] = NULL /\ \A w \in Threads \ {t} : event'[w] = event[w]
        /\ ~Posting(t)' /\ \A w \in Threads \ {t} : pc'[w] = pc[w]
    BY <1>9, HeldTypes DEF TypeOK, Return, Queued, Posting, Goto, notifying, queueing
  <2> QED BY <2>1, HeldTypes DEF Ordered, QueueInOrder, TakenInOrder, OwnIsLast, Posting
<1>10. CASE UNCHANGED vars
  <2>1. Idle
    BY <1>10 DEF vars, Posting, notifying, queueing
  <2> QED BY <1>1, <2>1
<1> QED
  BY <1>2, <1>3, <1>4, <1>5, <1>6, <1>7, <1>8, <1>9, <1>10 DEF Next, Step, Workers, Control

LEMMA InitOrdered == Init => Ordered
BY EventFacts DEF Init, Ordered, QueueInOrder, TakenInOrder, OwnIsLast, Queued, Posting

\* An event goes out to the UIs only when none that its component sent before is
\* still in the queue, whichever threads purge it: what is dequeued is earlier
\* than all the queue still holds of its component, and a component posts its own
\* event only once it has seen the queue empty (1126-1135, 1182-1188, 1491).
THEOREM EventsInOrder == Spec => []InOrder
<1>1. TypeOK /\ Hands /\ Ordered => InOrder
  <2> SUFFICES ASSUME TypeOK, Hands, Ordered, NEW t \in Threads, pc[t] \in {"post", "notify"},
                      NEW e \in ToSet(kmsg_queue), e.by = Subject(t).by
               PROVE  e.n > Subject(t).n
    BY DEF InOrder
  <2>1. PICK i \in Queued : e = kmsg_queue[i]
    BY DEF ToSet, Queued, TypeOK
  <2>2. t \in Workers
    BY EventFacts DEF Hands
  <2>3. CASE p[t] # NULL
    <3>1. p[t] \in Events /\ Subject(t) = p[t]
      BY <2>2, <2>3, EventFacts DEF TypeOK, Subject
    <3> QED BY <2>1, <2>2, <2>3, <3>1, EventFacts, QueuedIsEvent DEF Ordered, TakenInOrder
  <2>4. CASE p[t] = NULL
    <3>1. t \in Posters /\ Subject(t).by = t
      BY <2>2, <2>4 DEF Hands, HandsOf, Posting, Subject, Workers
    <3> QED BY <2>1, <2>4, <3>1 DEF Ordered, OwnIsLast, Posting
  <2> QED BY <2>3, <2>4
<1>2. TypeOK /\ Hands /\ Ordered /\ [Next]_vars => TypeOK' /\ Hands' /\ Ordered'
  BY StepTypes, StepOrdered
<1>3. Init => TypeOK /\ Hands /\ Ordered
  BY InitTypes, InitOrdered
<1> QED BY <1>1, <1>2, <1>3, PTL DEF Spec
-----------------------------------------------------------------------------
(* Whose an event is, and its data block.                                   *)

\* No two threads, and no thread and the queue, hold the same event.
LEMMA HeldOnce ==
  ASSUME TypeOK, Hands, Ordered
  PROVE  /\ \A t, w \in Workers : event[t] = event[w] /\ event[t] # NULL => t = w
         /\ \A t, w \in Workers : p[t] = p[w] /\ p[t] # NULL => t = w
         /\ \A t, w \in Workers : event[t] = p[w] => event[t] = NULL
         /\ \A i, j \in Queued : kmsg_queue[i] = kmsg_queue[j] => i = j
         /\ \A i \in Queued : \A t \in Workers : kmsg_queue[i] # event[t] /\ kmsg_queue[i] # p[t]
<1>1. \A t \in Workers : event[t] # NULL => t \in Posters /\ event[t].by = t /\ event[t].n = sent[t]
  BY DEF Hands, HandsOf, Workers
<1>2. \A i \in Queued : kmsg_queue[i] # NULL
  BY QueuedIsEvent, EventFacts
<1>3. \A i, j \in Queued : i = j \/ i < j \/ j < i
  BY DEF Queued
<1>4. \A i, j \in Queued : kmsg_queue[i] = kmsg_queue[j] => i = j
  BY <1>3, HeldTypes DEF Ordered, QueueInOrder
<1> QED BY <1>1, <1>2, <1>4, HeldTypes DEF Ordered, QueueInOrder, TakenInOrder

\* The subject of a thread that posts is an event it alone has.
LEMMA SubjectFacts ==
  ASSUME TypeOK, Hands, Ordered, NEW t \in Workers, Posting(t)
  PROVE  /\ Subject(t) \in Events /\ Subject(t).n <= sent[Subject(t).by]
         /\ \A i \in Queued : kmsg_queue[i] # Subject(t)
         /\ \A w \in Workers : /\ event[w] = Subject(t) => w = t /\ p[t] = NULL
                               /\ p[w] = Subject(t) => w = t
<1>1. CASE p[t] # NULL
  <2>1. Subject(t) = p[t] /\ p[t] \in Events
    BY <1>1, EventFacts DEF Subject, TypeOK
  <2> QED BY <1>1, <2>1, HeldOnce DEF Ordered, TakenInOrder
<1>2. CASE p[t] = NULL
  <2>1. /\ Subject(t) = event[t] /\ event[t] # NULL /\ event[t] \in Events
        /\ event[t].by = t /\ event[t].n = sent[t] /\ sent[t] \in Nat
    BY <1>2, EventFacts DEF Subject, TypeOK, Hands, HandsOf, Workers
  <2>2. event[t].n <= sent[t]
    BY <2>1
  <2> QED BY <1>2, <2>1, <2>2, HeldOnce
<1> QED BY <1>1, <1>2

LEMMA LiveIsEvent == TypeOK => NULL \notin live
BY EventFacts DEF TypeOK

LEMMA StepAllocated ==
  ASSUME TypeOK, Hands, Ordered, Allocated, [Next]_vars
  PROVE  Allocated'
<1> DEFINE Idle == /\ UNCHANGED <<live, kmsg_queue, event, p>>
                   /\ \A w \in Workers : Posted(w)' <=> Posted(w)
<1>1. ASSUME Idle PROVE Allocated'
  <2>1. Queued' = Queued /\ \A w \in Workers : Subject(w)' = Subject(w)
    BY <1>1 DEF Queued, Subject
  <2> QED BY <1>1, <2>1 DEF Allocated
<1>2. CASE \/ InitOutputCallbacks \/ EventNotifyInit
           \/ \E u \in Uis : RegisterOutputCallback(u) \/ SaveCallback(u)
  <2>1. Idle
    BY <1>2, RegisterSteps, HeldTypes DEF Posted
  <2> QED BY <1>1, <2>1
<1>3. ASSUME NEW t \in Posters, Notify(t) PROVE Allocated'
  <2> DEFINE e == [by |-> t, n |-> sent[t] + 1]
  <2>1. /\ UNCHANGED <<kmsg_queue, p>> /\ Queued' = Queued
        /\ live' = live \cup {e}
        /\ event[t] = NULL /\ event'[t] = e
        /\ \A w \in Threads \ {t} : event'[w] = event[w] /\ pc'[w] = pc[w]
        /\ ~Posted(t)' /\ ~Posted(t)
    BY <1>3, HeldTypes DEF TypeOK, Notify, notifying, queueing, Queued, Posted, Goto, Hands, HandsOf
  <2>2. e.by = t /\ e.n > sent[t]
    BY HeldTypes
  <2> HIDE DEF e
  <2>3. ASSUME NEW w \in Workers, Posted(w)' PROVE Subject(w)' \notin live'
    <3>1. w # t /\ Posting(w) /\ Posted(w) /\ Subject(w)' = Subject(w)
      BY <2>1, <2>3, HeldTypes DEF Posted, Posting, Subject
    <3>2. Subject(w) # e
      BY <2>2, <3>1, SubjectFacts, HeldTypes, EventFacts
    <3> QED BY <2>1, <3>1, <3>2 DEF Allocated
  <2>4. \A f \in live \ Starved : \/ \E w \in Workers : event'[w] = f \/ p[w] = f
                                  \/ \E i \in Queued : kmsg_queue[i] = f
    BY <2>1, HeldTypes, LiveIsEvent DEF Allocated
  <2>5. \A f \in live' \ Starved : \/ \E w \in Workers : event'[w] = f \/ p'[w] = f
                                   \/ \E i \in Queued' : kmsg_queue'[i] = f
    BY <2>1, <2>4, HeldTypes
  <2>6. ASSUME NEW w \in Workers
        PROVE  /\ event'[w] # NULL => (Posted(w)' /\ p'[w] = NULL) \/ event'[w] \in live'
               /\ p'[w] # NULL => Posted(w)' \/ p'[w] \in live'
    BY <2>1, HeldTypes DEF Allocated, Posted
  <2> QED BY <2>1, <2>3, <2>5, <2>6 DEF Allocated
<1>4. ASSUME NEW t \in Workers, Control(t) PROVE Allocated'
  <2>1. /\ UNCHANGED <<kmsg_queue, live, p>> /\ Queued' = Queued
        /\ \A w \in Workers : event'[w] = event[w] \/ (event[w] \in Starved /\ event'[w] = NULL)
        /\ \A w \in Workers \ {t} : event'[w] = event[w] /\ Posted(w)' = Posted(w)
        /\ ~Posted(t)' /\ ~Posted(t)
    BY <1>4, ControlSteps, HeldTypes DEF Queued, TypeOK, Posted, Posting
  <2>2. \A w \in Workers \ {t} : Subject(w)' = Subject(w)
    BY <2>1 DEF Subject
  <2> QED BY <2>1, <2>2 DEF Allocated
<1>5. ASSUME NEW t \in Workers, Enqueue(t) PROVE Allocated'
  <2>1. /\ event[t] \in Events /\ event[t] # NULL
        /\ event'[t] = NULL /\ \A w \in Threads \ {t} : event'[w] = event[w]
        /\ UNCHANGED <<live, p>>
        /\ ~Posted(t)' /\ ~Posted(t) /\ \A w \in Threads \ {t} : pc'[w] = pc[w]
    BY <1>5, EventFacts, HeldTypes DEF TypeOK, Enqueue, Hands, HandsOf, Posted, Workers, Goto, notifying
  <2> DEFINE last == Len(kmsg_queue) + 1
  <2>2. /\ \A i \in Queued' : i \in Queued \/ i = last
        /\ \A i \in Queued : i \in Queued' /\ kmsg_queue'[i] = kmsg_queue[i]
        /\ last \in Queued' /\ kmsg_queue'[last] = event[t]
    <3>1. kmsg_queue' = Append(kmsg_queue, event[t])
      BY <1>5 DEF Enqueue
    <3> QED BY <2>1, <3>1, AppendedPlaces
  <2> HIDE DEF last
  <2>3. \A w \in Workers \ {t} : Subject(w)' = Subject(w) /\ Posted(w)' = Posted(w)
    BY <2>1, HeldTypes DEF Subject, Posted
  <2> QED BY <2>1, <2>2, <2>3, HeldTypes DEF Allocated
<1>6. ASSUME NEW t \in Workers, Dequeue(t) PROVE Allocated'
  <2>1. /\ p[t] = NULL /\ p'[t] = FirstEntry /\ \A w \in Threads \ {t} : p'[w] = p[w]
        /\ UNCHANGED <<live, event>>
        /\ ~Posted(t)' /\ ~Posted(t) /\ \A w \in Threads \ {t} : pc'[w] = pc[w]
    <3>1. pc[t] = "locked" /\ p[t] = NULL
      BY <1>6 DEF Dequeue, Posting, Hands, HandsOf
    <3> QED BY <1>6, <3>1, HeldTypes DEF TypeOK, Dequeue, Posted, Goto, notifying
  <2>2. \A w \in Workers \ {t} : Subject(w)' = Subject(w) /\ Posted(w)' = Posted(w)
    BY <2>1, HeldTypes DEF Subject, Posted
  <2>3. CASE kmsg_queue = <<>>
    <3>1. kmsg_queue' = kmsg_queue /\ Queued' = Queued /\ FirstEntry = NULL
      BY <1>6, <2>3 DEF Dequeue, Queued, FirstEntry
    <3> QED BY <2>1, <2>2, <3>1, HeldTypes DEF Allocated
  <2>4. CASE kmsg_queue # <<>>
    <3>1. /\ 1 \in Queued /\ FirstEntry = kmsg_queue[1] /\ FirstEntry \in Events
          /\ \A i \in Queued' : i + 1 \in Queued /\ kmsg_queue'[i] = kmsg_queue[i + 1]
          /\ \A i \in Queued : i = 1 \/ \E j \in Queued' : kmsg_queue'[j] = kmsg_queue[i]
      <4>1. kmsg_queue' = Tail(kmsg_queue)
        BY <1>6, <2>4 DEF Dequeue
      <4>2. \A i \in Queued : i \in Nat /\ (i = 1 \/ (i - 1 \in Queued' /\ (i - 1) + 1 = i))
        BY <2>4, <4>1, DequeuedPlaces
      <4> QED BY <2>4, <4>1, <4>2, DequeuedPlaces
    <3>2. FirstEntry \in live /\ FirstEntry # NULL
      BY <3>1, EventFacts DEF Allocated
    <3>3. \A e \in live \ Starved : \/ \E w \in Workers : event[w] = e \/ p'[w] = e
                                    \/ \E i \in Queued' : kmsg_queue'[i] = e
      <4> SUFFICES ASSUME NEW e \in live \ Starved
                   PROVE  \/ \E w \in Workers : event[w] = e \/ p'[w] = e
                          \/ \E i \in Queued' : kmsg_queue'[i] = e
        OBVIOUS
      <4>1. CASE \E w \in Workers : event[w] = e \/ p[w] = e
        BY <2>1, <4>1, HeldTypes, LiveIsEvent
      <4>2. CASE \E i \in Queued : kmsg_queue[i] = e
        BY <2>1, <3>1, <4>2
      <4> QED BY <4>1, <4>2 DEF Allocated
    <3>4. \A i \in Queued' : kmsg_queue'[i] \in live
      BY <3>1 DEF Allocated
    <3> QED BY <2>1, <2>2, <3>2, <3>3, <3>4, HeldTypes DEF Allocated
  <2> QED BY <2>3, <2>4
<1>7. ASSUME NEW t \in Workers, DisposeKmsg(t) PROVE Allocated'
  <2>1. /\ UNCHANGED <<kmsg_queue, live, event>> /\ Queued' = Queued
        /\ p[t] # NULL /\ p'[t] = NULL /\ \A w \in Threads \ {t} : p'[w] = p[w]
        /\ Posted(t) /\ ~Posted(t)' /\ \A w \in Threads \ {t} : pc'[w] = pc[w]
    BY <1>7, HeldTypes DEF TypeOK, DisposeKmsg, Queued, Posted, Goto, notifying, queueing
  <2>2. p[t] \notin live
    BY <2>1 DEF Allocated, Subject
  <2>3. \A w \in Workers \ {t} : Subject(w)' = Subject(w) /\ Posted(w)' = Posted(w)
    BY <2>1, HeldTypes DEF Subject, Posted
  <2> QED BY <2>1, <2>2, <2>3, HeldTypes DEF Allocated
<1>8. ASSUME NEW t \in Workers, PostUiEvent(t) PROVE Allocated'
  <2>1. /\ UNCHANGED <<kmsg_queue, event, p>> /\ Queued' = Queued
        /\ live' = live \ {Subject(t)}
        /\ Posting(t) /\ ~Posted(t) /\ Posted(t)' /\ \A w \in Threads \ {t} : pc'[w] = pc[w]
    BY <1>8, HeldTypes DEF TypeOK, PostUiEvent, Queued, Posted, Posting, Goto, notifying, queueing
  <2>2. \A w \in Workers : Subject(w)' = Subject(w) /\ (w # t => Posted(w)' = Posted(w))
    BY <2>1, HeldTypes DEF Subject, Posted
  <2>3. ASSUME NEW w \in Workers
        PROVE  /\ event[w] # NULL => (Posted(w)' /\ p[w] = NULL) \/ event[w] \in live'
               /\ p[w] # NULL => Posted(w)' \/ p[w] \in live'
    BY <2>1, <2>2, SubjectFacts DEF Allocated
  <2>4. \A i \in Queued : kmsg_queue[i] \in live'
    BY <2>1, SubjectFacts DEF Allocated
  <2> QED BY <2>1, <2>2, <2>3, <2>4 DEF Allocated
<1>9. ASSUME NEW t \in Workers, NotifyCallbacks(t) PROVE Allocated'
  <2>1. Idle
    BY <1>9, HeldTypes DEF TypeOK, NotifyCallbacks, Posted, Goto, queueing
  <2> QED BY <1>1, <2>1
<1>10. ASSUME NEW t \in Workers, Return(t) PROVE Allocated'
  <2>1. /\ UNCHANGED <<kmsg_queue, live, p>> /\ Queued' = Queued /\ p[t] = NULL
        /\ event'[t] = NULL /\ \A w \in Threads \ {t} : event'[w] = event[w]
        /\ Posted(t) /\ ~Posted(t)' /\ \A w \in Threads \ {t} : pc'[w] = pc[w]
    BY <1>10, HeldTypes DEF TypeOK, Return, Queued, Posted, Goto, notifying, queueing
  <2>2. event[t] \notin live
    BY <2>1 DEF Allocated, Subject
  <2>3. \A w \in Workers \ {t} : Subject(w)' = Subject(w) /\ Posted(w)' = Posted(w)
    BY <2>1, HeldTypes DEF Subject, Posted
  <2> QED BY <2>1, <2>2, <2>3, HeldTypes DEF Allocated
<1>11. CASE UNCHANGED vars
  <2>1. Idle
    BY <1>11 DEF vars, Posted, notifying, queueing
  <2> QED BY <1>1, <2>1
<1> QED
  BY <1>2, <1>3, <1>4, <1>5, <1>6, <1>7, <1>8, <1>9, <1>10, <1>11 DEF Next, Step, Workers, Control

\* The size of a set of at most one element.
LEMMA AtMostOne ==
  ASSUME NEW S, \A a, b \in S : a = b
  PROVE  /\ S = {} => Cardinality(S) = 0
         /\ S # {} => Cardinality(S) = 1
<1>1. S = {} => Cardinality(S) = 0
  BY FS_EmptySet
<1>2. ASSUME S # {} PROVE Cardinality(S) = 1
  <2>1. PICK a \in S : S = {a}
    BY <1>2
  <2> QED BY <2>1, FS_Singleton
<1> QED BY <1>1, <1>2

\* The data block of an event is in exactly one place from its sending to its
\* posting - the call, the queue or the thread that took it - unless its entry
\* could not be allocated, and then in none: it is disposed of at most once, and
\* only by the thread that posts it (1104-1135, 1182-1190, 1468-1494).
THEOREM EventsOwnedOnce == Spec => []EventOwnedOnce
<1>1. TypeOK /\ Hands /\ Ordered /\ Allocated => EventOwnedOnce
  <2> SUFFICES ASSUME TypeOK, Hands, Ordered, Allocated, NEW e \in Events
               PROVE  LET sending == {t \in Threads : event[t] = e}
                          waiting == {i \in DOMAIN kmsg_queue : kmsg_queue[i] = e}
                          taken == {t \in Threads : p[t] = e}
                          holders == Cardinality(sending) + Cardinality(waiting) + Cardinality(taken)
                      IN  /\ holders <= 1
                          /\ e \in live \ Starved => holders = 1
                          /\ waiting # {} => e \in live
                          /\ \A t \in sending \cup taken : pc[t] = "post" /\ Subject(t) = e => e \in live
    BY DEF EventOwnedOnce
  <2> DEFINE sending == {t \in Threads : event[t] = e}
             waiting == {i \in DOMAIN kmsg_queue : kmsg_queue[i] = e}
             taken == {t \in Threads : p[t] = e}
  <2>1. e # NULL /\ DOMAIN kmsg_queue = Queued
    BY EventFacts DEF TypeOK, Queued
  <2>2. sending = {t \in Workers : event[t] = e} /\ taken = {t \in Workers : p[t] = e}
    BY <2>1, EventFacts DEF Hands
  <2>3. /\ \A a, b \in sending : a = b
        /\ \A a, b \in waiting : a = b
        /\ \A a, b \in taken : a = b
        /\ sending = {} \/ (waiting = {} /\ taken = {})
        /\ waiting = {} \/ taken = {}
    BY <2>1, <2>2, HeldOnce
  <2>4. e \in live \ Starved => sending # {} \/ waiting # {} \/ taken # {}
    BY <2>1, <2>2 DEF Allocated
  <2>5. waiting # {} => e \in live
    BY <2>1 DEF Allocated
  <2>6. ASSUME NEW t \in sending \cup taken, pc[t] = "post", Subject(t) = e
        PROVE  e \in live
    BY <2>1, <2>2, <2>6 DEF Allocated, Posted, Subject
  <2> HIDE DEF sending, waiting, taken
  <2>7. /\ Cardinality(sending) = IF sending = {} THEN 0 ELSE 1
        /\ Cardinality(waiting) = IF waiting = {} THEN 0 ELSE 1
        /\ Cardinality(taken) = IF taken = {} THEN 0 ELSE 1
    BY <2>3, AtMostOne
  <2>8. /\ Cardinality(sending) + Cardinality(waiting) + Cardinality(taken) <= 1
        /\ e \in live \ Starved =>
             Cardinality(sending) + Cardinality(waiting) + Cardinality(taken) = 1
    BY <2>3, <2>4, <2>7
  <2> USE DEF sending, waiting, taken
  <2> QED BY <2>5, <2>6, <2>8
<1>2. TypeOK /\ Hands /\ Ordered /\ Allocated /\ [Next]_vars
        => TypeOK' /\ Hands' /\ Ordered' /\ Allocated'
  BY StepTypes, StepOrdered, StepAllocated
<1>3. Init => Allocated
  BY EventFacts DEF Init, Allocated, Queued, Posted
<1>4. Init => TypeOK /\ Hands /\ Ordered /\ Allocated
  BY <1>3, InitTypes, InitOrdered
<1> QED BY <1>1, <1>2, <1>4, PTL DEF Spec
-----------------------------------------------------------------------------
(* What the UIs are called with.                                            *)

\* The table after a registration, and the walk over it.
LEMMA StepRegistered ==
  ASSUME TypeOK, Hands, Registered, [Next]_vars
  PROVE  Registered'
<1> DEFINE Idle == /\ UNCHANGED <<saved_output_callbacks, received, slot>>
                   /\ \A u \in Uis : pc'[u] = pc[u]
                   /\ \A w \in Workers : pc'[w] = "notify" <=> pc[w] = "notify"
<1> USE EventFacts
<1>1. ASSUME Idle PROVE Registered'
  BY <1>1 DEF Registered
<1>2. CASE InitOutputCallbacks
  <2>1. /\ \A i \in Slots : saved_output_callbacks'[i] \notin Uis
        /\ UNCHANGED <<received, slot>>
        /\ \A u \in Uis : pc'[u] = pc[u]
        /\ \A w \in Workers : pc'[w] # "notify" => pc[w] # "notify"
    BY <1>2 DEF InitOutputCallbacks, TypeOK, Goto
  <2> QED BY <2>1 DEF Registered
<1>3. CASE EventNotifyInit
  <2>1. Idle
    BY <1>3 DEF EventNotifyInit, TypeOK, Goto
  <2> QED BY <1>1, <2>1
<1>4. ASSUME NEW u \in Uis, RegisterOutputCallback(u) PROVE Registered'
  <2>1. /\ UNCHANGED <<saved_output_callbacks, received>>
        /\ pc[u] = "idle" /\ \A w \in Threads \ {u} : pc'[w] = pc[w] /\ slot'[w] = slot[w]
    BY <1>4 DEF RegisterOutputCallback, TypeOK, Goto
  <2> QED BY <2>1 DEF Registered
<1>5. ASSUME NEW u \in Uis, SaveCallback(u) PROVE Registered'
  <2>1. /\ UNCHANGED <<slot, received>>
        /\ saved_output_callbacks'[slot[u]] = u
        /\ \A i \in Slots \ {slot[u]} : saved_output_callbacks'[i] = saved_output_callbacks[i]
        /\ pc'[u] = "registered" /\ \A w \in Threads \ {u} : pc'[w] = pc[w]
    BY <1>5 DEF SaveCallback, TypeOK, Goto
  <2> QED BY <2>1 DEF Registered
<1>6. ASSUME NEW t \in Workers, Control(t) PROVE Registered'
  <2>1. Idle
    BY <1>6, ControlSteps DEF notifying, Posting
  <2> QED BY <1>1, <2>1
<1>7. ASSUME NEW t \in Posters, Notify(t) PROVE Registered'
  <2>1. Idle
    BY <1>7 DEF Notify, TypeOK, Goto
  <2> QED BY <1>1, <2>1
<1>8. ASSUME NEW t \in Workers, Enqueue(t) \/ Dequeue(t) \/ DisposeKmsg(t) \/ Return(t)
      PROVE  Registered'
  <2>1. Idle
    BY <1>8 DEF Enqueue, Dequeue, DisposeKmsg, Return, TypeOK, Goto, notifying
  <2> QED BY <1>1, <2>1
<1>9. ASSUME NEW t \in Workers, PostUiEvent(t) PROVE Registered'
  <2>1. /\ UNCHANGED <<saved_output_callbacks, received, slot>>
        /\ \A u \in Uis : pc'[u] = pc[u]
        /\ \A w \in Workers : pc'[w] # "notify" => pc[w] # "notify"
        /\ pc[t] # "notify"
    BY <1>9 DEF PostUiEvent, TypeOK, Goto, notifying
  <2> QED BY <1>9, <2>1 DEF Registered
<1>10. ASSUME NEW t \in Workers, NotifyCallbacks(t) PROVE Registered'
  <2>1. /\ UNCHANGED saved_output_callbacks /\ \A w \in Threads \ {t} : pc'[w] = pc[w] /\ slot'[w] = slot[w]
        /\ pc'[t] = IF slot[t] < MAX_NUM_CALLBACKS THEN "notify" ELSE "posted"
        /\ slot'[t] = IF slot[t] < MAX_NUM_CALLBACKS THEN slot[t] + 1 ELSE 1
        /\ \A u \in Uis : received'[u] = received[u] \/ u = saved_output_callbacks[slot[t]]
        /\ slot[t] \in Slots
    BY <1>10 DEF NotifyCallbacks, TypeOK, Goto
  <2>2. \A i \in Slots, u \in Uis : saved_output_callbacks'[i] = u => slot'[u] = i /\ pc'[u] = "registered"
    BY <2>1 DEF Registered
  <2>3. ASSUME NEW u \in Uis, received'[u] # <<>> PROVE pc'[u] = "registered"
    <3>1. pc'[u] = pc[u]
      BY <2>1, EventFacts
    <3>2. received[u] # <<>> \/ u = saved_output_callbacks[slot[t]]
      BY <2>1, <2>3
    <3>3. pc[u] = "registered"
      <4>1. received[u] # <<>> => pc[u] = "registered"
        BY DEF Registered
      <4>2. \A i \in Slots : saved_output_callbacks[i] = u => pc[u] = "registered"
        BY DEF Registered
      <4> QED BY <2>1, <3>2, <4>1, <4>2
    <3> QED BY <3>1, <3>3
  <2>4. \A w \in Workers : pc'[w] # "notify" => slot'[w] = 1
    BY <2>1 DEF Registered
  <2> QED BY <2>2, <2>3, <2>4 DEF Registered
<1>11. CASE UNCHANGED vars
  <2>1. Idle
    BY <1>11 DEF vars, notifying
  <2> QED BY <1>1, <2>1
<1> QED
  BY <1>2, <1>3, <1>4, <1>5, <1>6, <1>7, <1>8, <1>9, <1>10, <1>11 DEF Next, Step, Workers, Control

\* What a UI received is an event.
LEMMA ReceivedIsEvent ==
  ASSUME TypeOK, NEW u \in Uis
  PROVE  \A i \in 1..Len(received[u]) :
           /\ received[u][i] \in Events /\ received[u][i] # NULL
           /\ received[u][i].by \in Posters /\ received[u][i].n \in Nat
<1>1. received[u] \in Seq(Events)
  BY DEF TypeOK
<1>2. \A i \in 1..Len(received[u]) : received[u][i] \in Events
  BY <1>1
<1> QED BY <1>2, EventFacts

LEMMA StepDelivered ==
  ASSUME TypeOK, Hands, Ordered, Registered, Delivered, [Next]_vars
  PROVE  Delivered'
<1> DEFINE Once(u) == \A i, j \in 1..Len(received[u]) : received[u][i] = received[u][j] => i = j
           Out(u, e) == /\ e.n <= sent[e.by]
                        /\ \A k \in Queued : kmsg_queue[k] # e
                        /\ \A t \in Workers : /\ event[t] = e => p[t] = NULL /\ Past(t, u)
                                              /\ p[t] = e => Past(t, u)
<1> USE HeldTypes
<1>1. Delivered <=> \A u \in Uis : Once(u) /\ \A i \in 1..Len(received[u]) : Out(u, received[u][i])
  BY DEF Delivered
<1>2. Delivered' <=> \A u \in Uis : Once(u)' /\ \A i \in 1..Len(received'[u]) : Out(u, received[u][i])'
  BY DEF Delivered
<1>3. ASSUME UNCHANGED received,
             \A u \in Uis : \A i \in 1..Len(received[u]) :
               Out(u, received[u][i]) => Out(u, received[u][i])'
      PROVE  Delivered'
  BY <1>1, <1>2, <1>3
<1> HIDE DEF Once, Out
<1> DEFINE Idle == /\ UNCHANGED <<received, sent, kmsg_queue, event, p>>
                   /\ \A u \in Uis : received[u] # <<>> =>
                        \A w \in Workers : Past(w, u) => Past(w, u)'
<1>4. ASSUME Idle PROVE Delivered'
  <2>1. Queued' = Queued /\ \A u \in Uis : \A i \in 1..Len(received[u]) : received[u] # <<>>
    BY <1>4 DEF Queued
  <2> QED BY <1>3, <1>4, <2>1 DEF Out
<1>5. CASE \/ InitOutputCallbacks \/ EventNotifyInit
           \/ \E u \in Uis : RegisterOutputCallback(u) \/ SaveCallback(u)
  <2>1. ASSUME NEW u \in Uis, received[u] # <<>>
        PROVE  slot'[u] = slot[u] /\ \A w \in Workers : slot'[w] = slot[w]
    <3>1. pc[u] = "registered"
      BY <2>1 DEF Registered
    <3> QED BY <1>5, <2>1, <3>1, EventFacts
            DEF InitOutputCallbacks, EventNotifyInit, RegisterOutputCallback, SaveCallback, TypeOK
  <2>2. Idle
    BY <1>5, <2>1, RegisterSteps DEF Past
  <2> QED BY <1>4, <2>2
<1>6. ASSUME NEW t \in Posters, Notify(t) PROVE Delivered'
  <2>1. /\ UNCHANGED <<received, kmsg_queue, p, slot>> /\ Queued' = Queued
        /\ sent'[t] = sent[t] + 1 /\ \A w \in Posters \ {t} : sent'[w] = sent[w]
        /\ event'[t].by = t /\ event'[t].n = sent[t] + 1
        /\ \A w \in Threads \ {t} : event'[w] = event[w] /\ pc'[w] = pc[w]
        /\ pc[t] = "idle"
    BY <1>6 DEF TypeOK, Notify, queueing, Queued, Goto
  <2>2. ASSUME NEW u \in Uis, NEW i \in 1..Len(received[u]), Out(u, received[u][i])
        PROVE  Out(u, received[u][i])'
    <3> DEFINE e == received[u][i]
    <3>1. e.by \in Posters /\ e.n \in Nat /\ e.n <= sent[e.by] /\ \A k \in Queued : kmsg_queue[k] # e
      BY <2>2, ReceivedIsEvent DEF Out
    <3>2. e.n <= sent'[e.by]
      BY <2>1, <3>1
    <3>3. event'[t] # e /\ p[t] # e
      BY <2>1, <2>2, <3>1, SMTT(60) DEF Out, Past
    <3>4. \A w \in Workers \ {t} : Past(w, u)' = Past(w, u)
      BY <2>1 DEF Past
    <3>5. e' = e
      BY <2>1
    <3> QED BY <2>1, <2>2, <3>1, <3>2, <3>3, <3>4, <3>5 DEF Out
  <2> QED BY <1>3, <2>1, <2>2
<1>7. ASSUME NEW t \in Workers, Control(t) PROVE Delivered'
  <2>1. /\ UNCHANGED <<received, sent, slot, kmsg_queue, p>> /\ Queued' = Queued
        /\ \A w \in Workers : event'[w] = event[w] \/ event'[w] = NULL
        /\ \A w \in Workers \ {t} : event'[w] = event[w] /\ pc'[w] = pc[w]
        /\ pc[t] \notin {"notify", "posted"}
    BY <1>7, ControlSteps DEF Queued, TypeOK, Posting, notifying
  <2> QED BY <1>3, <2>1, ReceivedIsEvent DEF Out, Past
<1>8. ASSUME NEW t \in Workers, Enqueue(t) PROVE Delivered'
  <2>1. /\ event[t] \in Events /\ event'[t] = NULL
        /\ \A w \in Threads \ {t} : event'[w] = event[w] /\ pc'[w] = pc[w]
        /\ UNCHANGED <<received, sent, slot, p>>
        /\ pc[t] = "locked"
    BY <1>8, EventFacts DEF TypeOK, Enqueue, Hands, HandsOf, Posting, Workers, Goto, notifying
  <2> DEFINE last == Len(kmsg_queue) + 1
  <2>2. /\ \A i \in Queued' : i \in Queued \/ i = last
        /\ \A i \in Queued : kmsg_queue'[i] = kmsg_queue[i]
        /\ kmsg_queue'[last] = event[t]
    <3>1. kmsg_queue' = Append(kmsg_queue, event[t])
      BY <1>8 DEF Enqueue
    <3> QED BY <2>1, <3>1, AppendedPlaces
  <2> HIDE DEF last
  <2> QED BY <1>3, <2>1, <2>2, ReceivedIsEvent DEF Out, Past
<1>9. ASSUME NEW t \in Workers, Dequeue(t) PROVE Delivered'
  <2>1. /\ p'[t] = FirstEntry
        /\ \A w \in Threads \ {t} : p'[w] = p[w] /\ pc'[w] = pc[w]
        /\ UNCHANGED <<received, sent, slot, event>>
        /\ pc[t] = "locked"
    BY <1>9 DEF TypeOK, Dequeue, Goto, notifying
  <2>2. /\ FirstEntry = NULL \/ \E i \in Queued : FirstEntry = kmsg_queue[i]
        /\ \A i \in Queued' : \E j \in Queued : kmsg_queue'[i] = kmsg_queue[j]
    <3>1. CASE kmsg_queue = <<>>
      BY <1>9, <3>1 DEF Dequeue, Queued, FirstEntry
    <3>2. CASE kmsg_queue # <<>>
      <4>1. kmsg_queue' = Tail(kmsg_queue)
        BY <1>9, <3>2 DEF Dequeue
      <4> QED BY <3>2, <4>1, DequeuedPlaces
    <3> QED BY <3>1, <3>2
  <2> QED BY <1>3, <2>1, <2>2, ReceivedIsEvent DEF Out, Past
<1>10. ASSUME NEW t \in Workers, DisposeKmsg(t) PROVE Delivered'
  <2>1. /\ UNCHANGED <<received, sent, slot, kmsg_queue, event>> /\ Queued' = Queued
        /\ p[t] # NULL /\ p'[t] = NULL
        /\ \A w \in Threads \ {t} : p'[w] = p[w] /\ pc'[w] = pc[w]
    BY <1>10 DEF TypeOK, DisposeKmsg, Queued, Goto, notifying, queueing
  <2> QED BY <1>3, <2>1, ReceivedIsEvent DEF Out, Past
<1>11. ASSUME NEW t \in Workers, PostUiEvent(t) PROVE Delivered'
  <2>1. Idle
    BY <1>11 DEF TypeOK, PostUiEvent, Goto, notifying, queueing, Past
  <2> QED BY <1>4, <2>1
<1>12. ASSUME NEW t \in Workers, NotifyCallbacks(t) PROVE Delivered'
  <2>1. /\ UNCHANGED <<sent, kmsg_queue, event, p>> /\ Queued' = Queued
        /\ pc[t] = "notify" /\ slot[t] \in Slots
        /\ pc'[t] = IF slot[t] < MAX_NUM_CALLBACKS THEN "notify" ELSE "posted"
        /\ slot'[t] = IF slot[t] < MAX_NUM_CALLBACKS THEN slot[t] + 1 ELSE 1
        /\ \A w \in Threads \ {t} : slot'[w] = slot[w] /\ pc'[w] = pc[w]
    BY <1>12 DEF TypeOK, NotifyCallbacks, Goto, queueing, Queued
  <2>2. \A w \in Workers : \A v \in Uis : Past(w, v) => Past(w, v)'
    <3>1. \A v \in Uis : v # t /\ v \in Threads /\ slot[v] \in Nat /\ slot[t] \in Nat
      BY <2>1, EventFacts, ZenonT(60) DEF TypeOK
    <3> QED BY <2>1, <3>1 DEF Past
  <2>3. ASSUME NEW v \in Uis, NEW f, Out(v, f) PROVE Out(v, f)'
    BY <2>1, <2>2, <2>3 DEF Out
  <2>4. CASE saved_output_callbacks[slot[t]] = NoUi
    <3>1. received' = received
      BY <1>12, <2>4 DEF NotifyCallbacks
    <3> QED BY <1>3, <2>3, <3>1
  <2>5. ASSUME NEW u \in Uis, saved_output_callbacks[slot[t]] = u,
               NEW e \in Events, Subject(t) = e
        PROVE  Delivered'
    <3>1. /\ e.n <= sent[e.by]
          /\ \A i \in Queued : kmsg_queue[i] # e
          /\ \A w \in Workers : /\ event[w] = e => w = t /\ p[t] = NULL
                                /\ p[w] = e => w = t
      BY <2>1, <2>5, SubjectFacts DEF Posting
    <3>2. slot[u] = slot[t] /\ slot[u] \in Nat /\ u # t /\ u \in Threads
      <4>1. slot[u] = slot[t]
        BY <2>1, <2>5 DEF Registered
      <4>2. slot[t] \in Nat
        BY <2>1, EventFacts
      <4>3. u # t /\ u \in Threads
        BY EventFacts
      <4> QED BY <4>1, <4>2, <4>3
    <3>3. ~Past(t, u) /\ Past(t, u)'
      BY <2>1, <3>2 DEF Past
    <3>4. (event[t] = e /\ p[t] = NULL) \/ p[t] = e
      BY <2>5 DEF Subject
    <3>5. received'[u] = Append(received[u], e) /\ \A v \in Uis \ {u} : received'[v] = received[v]
      BY <1>12, <2>5, EventFacts DEF NotifyCallbacks, TypeOK
    <3> DEFINE last == Len(received[u]) + 1
    <3>6. /\ \A i \in 1..Len(received'[u]) : i \in 1..Len(received[u]) \/ i = last
          /\ \A i \in 1..Len(received[u]) : received'[u][i] = received[u][i]
          /\ received'[u][last] = e
      <4>1. received[u] \in Seq(Events)
        BY DEF TypeOK
      <4> QED BY <3>5, <4>1
    <3> HIDE DEF last
    <3>7. \A i \in 1..Len(received[u]) : received[u][i] # e
      BY <1>1, <3>3, <3>4 DEF Out
    <3>8. Once(u)'
      BY <1>1, <3>6, <3>7 DEF Once
    <3>9. Out(u, e)'
      BY <2>1, <3>1, <3>3 DEF Out
    <3>10. ASSUME NEW i \in 1..Len(received'[u]) PROVE Out(u, received[u][i])'
      <4>1. CASE i \in 1..Len(received[u])
        <5>1. Out(u, received[u][i])
          BY <1>1, <4>1
        <5>2. Out(u, received'[u][i])
          BY <3>6, <4>1, <5>1
        <5> QED BY <2>1, <2>2, <5>2 DEF Out
      <4>2. CASE i = last
        BY <3>6, <3>9, <4>2 DEF Out
      <4> QED BY <3>6, <4>1, <4>2
    <3>11. ASSUME NEW v \in Uis \ {u}
           PROVE  Once(v)' /\ \A i \in 1..Len(received'[v]) : Out(v, received[v][i])'
      <4>1. received'[v] = received[v] /\ Once(v)
        BY <1>1, <3>5
      <4>2. Once(v)'
        BY <4>1 DEF Once
      <4>3. ASSUME NEW i \in 1..Len(received'[v]) PROVE Out(v, received[v][i])'
        BY <1>1, <2>1, <2>2, <4>1 DEF Out
      <4> QED BY <4>2, <4>3
    <3> QED BY <1>2, <3>8, <3>10, <3>11
  <2>6. saved_output_callbacks[slot[t]] \in Uis \cup {NoUi} /\ Subject(t) \in Events
    BY <2>1, SubjectFacts DEF TypeOK, Posting
  <2> QED BY <2>4, <2>5, <2>6
<1>13. ASSUME NEW t \in Workers, Return(t) PROVE Delivered'
  <2>1. /\ UNCHANGED <<received, sent, slot, kmsg_queue, p>> /\ Queued' = Queued
        /\ p[t] = NULL /\ event'[t] = NULL
        /\ \A w \in Threads \ {t} : event'[w] = event[w] /\ pc'[w] = pc[w]
    BY <1>13 DEF TypeOK, Return, Queued, Goto, notifying, queueing
  <2> QED BY <1>3, <2>1, ReceivedIsEvent DEF Out, Past
<1>14. CASE UNCHANGED vars
  <2>1. Idle
    BY <1>14 DEF vars, notifying, queueing, Past
  <2> QED BY <1>4, <2>1
<1> QED
  BY <1>5, <1>6, <1>7, <1>8, <1>9, <1>10, <1>11, <1>12, <1>13, <1>14
  DEF Next, Step, Workers, Control

\* A UI is called with an event once, however many threads purge and whenever it
\* registers: each entry is in one thread's hands, a walk over the table goes past
\* each slot once, and a UI fills one slot only (1126-1135, 1176-1200).
THEOREM EventsReceivedOnce == Spec => []ReceivedOnce
<1> DEFINE IInv == TypeOK /\ Hands /\ Ordered /\ Registered /\ Delivered
<1>1. IInv => ReceivedOnce
  <2> SUFFICES ASSUME IInv, NEW u \in Uis PROVE IsInjective(received[u])
    BY DEF ReceivedOnce
  <2>1. DOMAIN received[u] = 1..Len(received[u])
    BY DEF TypeOK
  <2> QED BY <2>1 DEF Delivered, IsInjective
<1>2. IInv /\ [Next]_vars => IInv'
  BY StepTypes, StepOrdered, StepRegistered, StepDelivered
<1>3. Init => Registered /\ Delivered
  BY EventFacts DEF Init, Registered, Delivered
<1>4. Init => IInv
  BY <1>3, InitTypes, InitOrdered
<1> HIDE DEF IInv
<1> QED BY <1>1, <1>2, <1>4, PTL DEF Spec
-----------------------------------------------------------------------------
(* The mailbox.                                                             *)

InQueue(e) == \E i \in Queued : kmsg_queue[i] = e
Unsent(e) == sent[e.by] < e.n
Ahead(t) == IF pc[t] = "posted" THEN {} ELSE {u \in Listening : slot[t] <= slot[u]}
OwnIsOut(t) == p[t] = NULL /\ Posting(t)

\* The stage of each event, by where it is: one that is not sent is nowhere, and
\* none is in two places.
StagesByPlace ==
  /\ \A e \in Events : Unsent(e) =>
       /\ Stage(e) = "new" /\ Owed(e) = {} /\ ~InQueue(e)
       /\ \A t \in Workers : event[t] # e /\ p[t] # e
  /\ \A e \in Events, t \in Workers : event[t] = e =>
       /\ t \in Posters /\ e.by = t /\ e.n = sent[t]
       /\ Stage(e) = IF OwnIsOut(t) THEN "out" ELSE "sent"
       /\ Owed(e) = IF OwnIsOut(t) THEN Ahead(t) ELSE {}
  /\ \A e \in Events, t \in Workers : p[t] = e => Stage(e) = "out" /\ Owed(e) = Ahead(t)
  /\ \A e \in Events : InQueue(e) => Stage(e) = "stored" /\ Owed(e) = {}
  /\ \A e \in Events :
       ~Unsent(e) /\ ~InQueue(e) /\ (\A t \in Workers : event[t] # e /\ p[t] # e)
         => Stage(e) = "over" /\ Owed(e) = {}
  /\ \A e \in Events : /\ Stage(e) = "new" => Unsent(e)
                       /\ Stage(e) = "sent" => event[e.by] = e
                       /\ Stage(e) = "stored" => InQueue(e)

LEMMA Stages ==
  ASSUME TypeOK, Hands, Ordered
  PROVE  StagesByPlace
<1>1. \A e : e \in ToSet(kmsg_queue) <=> InQueue(e)
  BY DEF ToSet, InQueue, Queued, TypeOK
<1>2. \A t \in Threads : \A e \in Events : Has(t, e) <=>
        t \in Workers /\ (p[t] = e \/ (event[t] = e /\ OwnIsOut(t)))
  BY EventFacts DEF Has, OwnIsOut, Posting, Hands
<1>3. \A e \in Events : InQueue(e) =>
        /\ ~Unsent(e)
        /\ \A t \in Workers : event[t] # e /\ p[t] # e
  BY HeldOnce, HeldTypes DEF InQueue, Unsent, Ordered, QueueInOrder
<1>4. \A t \in Workers : event[t] # NULL =>
        /\ t \in Posters /\ event[t] \in Events /\ event[t].by = t /\ event[t].n = sent[t]
        /\ ~Unsent(event[t])
        /\ \A w \in Workers : p[w] # event[t] /\ (event[w] = event[t] => w = t)
  <2> SUFFICES ASSUME NEW t \in Workers, event[t] # NULL
               PROVE  /\ t \in Posters /\ event[t] \in Events /\ event[t].by = t /\ event[t].n = sent[t]
                      /\ ~Unsent(event[t])
                      /\ \A w \in Workers : p[w] # event[t] /\ (event[w] = event[t] => w = t)
    OBVIOUS
  <2>1. t \in Posters /\ event[t] \in Events /\ event[t].by = t /\ event[t].n = sent[t]
    BY EventFacts DEF Hands, HandsOf, Workers, TypeOK
  <2>2. sent[t] \in Nat
    BY <2>1, HeldTypes
  <2>3. ~Unsent(event[t])
    BY <2>1, <2>2 DEF Unsent
  <2> QED BY <2>1, <2>3, HeldOnce
<1>5. \A t \in Workers : p[t] # NULL =>
        /\ p[t] \in Events /\ ~Unsent(p[t])
        /\ \A w \in Workers : event[w] # p[t] /\ (p[w] = p[t] => w = t)
  <2> SUFFICES ASSUME NEW t \in Workers, p[t] # NULL
               PROVE  /\ p[t] \in Events /\ ~Unsent(p[t])
                      /\ \A w \in Workers : event[w] # p[t] /\ (p[w] = p[t] => w = t)
    OBVIOUS
  <2>1. p[t] \in Events /\ p[t].by \in Posters /\ p[t].n \in Nat
    BY EventFacts DEF TypeOK
  <2>2. p[t].n <= sent[p[t].by] /\ sent[p[t].by] \in Nat
    BY <2>1, HeldTypes DEF Ordered, TakenInOrder
  <2>3. ~Unsent(p[t])
    BY <2>1, <2>2 DEF Unsent
  <2> QED BY <2>1, <2>3, HeldOnce
<1>6. \A e \in Events : e # NULL /\ e.by \in Workers
  BY EventFacts DEF Workers
<1> DEFINE Held(e) == \E t \in Threads : Has(t, e)
<1>7. ASSUME NEW e \in Events
      PROVE  /\ Stage(e) = IF Unsent(e) THEN "new" ELSE IF Held(e) THEN "out"
                           ELSE IF event[e.by] = e THEN "sent"
                           ELSE IF InQueue(e) THEN "stored" ELSE "over"
             /\ Owed(e) = {u \in Listening : \E t \in Threads :
                             Has(t, e) /\ pc[t] # "posted" /\ slot[t] <= slot[u]}
             /\ ~Held(e) => Owed(e) = {}
  BY <1>1 DEF Stage, Owed, Unsent
<1>8. ASSUME NEW e \in Events, NEW t \in Workers, Has(t, e),
             \A w \in Threads : Has(w, e) => w = t
      PROVE  Owed(e) = Ahead(t)
  <2>1. Owed(e) = {u \in Listening : pc[t] # "posted" /\ slot[t] <= slot[u]}
    BY <1>7, <1>8, EventFacts
  <2> QED BY <2>1 DEF Ahead
<1>13. ASSUME NEW e \in Events
       PROVE  /\ Stage(e) = "new" => Unsent(e)
              /\ Stage(e) = "sent" => event[e.by] = e
              /\ Stage(e) = "stored" => InQueue(e)
  BY <1>7
<1> HIDE DEF Held
<1>9. ASSUME NEW e \in Events, Unsent(e)
      PROVE  /\ Stage(e) = "new" /\ Owed(e) = {} /\ ~InQueue(e)
             /\ \A t \in Workers : event[t] # e /\ p[t] # e
  <2>1. \A t \in Workers : event[t] # e /\ p[t] # e
    BY <1>4, <1>5, <1>6, <1>9
  <2>2. ~Held(e)
    BY <1>2, <2>1 DEF Held
  <2> QED BY <1>3, <1>7, <1>9, <2>1, <2>2
<1>10. ASSUME NEW t \in Workers, event[t] # NULL
       PROVE  /\ Stage(event[t]) = IF OwnIsOut(t) THEN "out" ELSE "sent"
              /\ Owed(event[t]) = IF OwnIsOut(t) THEN Ahead(t) ELSE {}
  <2> DEFINE e == event[t]
  <2>1. e \in Events /\ e.by = t /\ ~Unsent(e) /\ t \in Threads
    BY <1>4, <1>10, EventFacts
  <2>2. \A w \in Threads : Has(w, e) <=> w = t /\ OwnIsOut(t)
    BY <1>2, <1>4, <1>10, <2>1
  <2>3. Held(e) <=> OwnIsOut(t)
    BY <2>1, <2>2 DEF Held
  <2>4. OwnIsOut(t) => Owed(e) = Ahead(t)
    BY <1>8, <2>1, <2>2
  <2> HIDE DEF e
  <2>5. Stage(e) = IF OwnIsOut(t) THEN "out" ELSE "sent"
    BY <1>7, <2>1, <2>3 DEF e
  <2> QED BY <1>7, <2>1, <2>3, <2>4, <2>5 DEF e
<1>11. ASSUME NEW t \in Workers, p[t] # NULL
       PROVE  Stage(p[t]) = "out" /\ Owed(p[t]) = Ahead(t)
  <2>1. \A w \in Threads : Has(w, p[t]) <=> w = t
    BY <1>2, <1>5, <1>11, EventFacts
  <2>2. Held(p[t]) /\ p[t] \in Events /\ ~Unsent(p[t])
    BY <1>5, <1>11, <2>1, EventFacts DEF Held
  <2>3. Owed(p[t]) = Ahead(t)
    BY <1>8, <2>1, <2>2, EventFacts
  <2> QED BY <1>7, <2>2, <2>3
<1>12. ASSUME NEW e \in Events, \A t \in Workers : event[t] # e /\ p[t] # e, ~Unsent(e)
       PROVE  /\ Stage(e) = IF InQueue(e) THEN "stored" ELSE "over"
              /\ Owed(e) = {}
  <2>1. ~Held(e)
    BY <1>2, <1>12 DEF Held
  <2> QED BY <1>6, <1>7, <1>12, <2>1
<1> QED BY <1>3, <1>4, <1>6, <1>9, <1>10, <1>11, <1>12, <1>13 DEF StagesByPlace

LEMMA StagesNext == (TypeOK /\ Hands /\ Ordered => StagesByPlace)'
<1>1. TypeOK /\ Hands /\ Ordered => StagesByPlace
  BY Stages
<1> QED BY <1>1, PTL

\* A step of t leaves the stage of an event it has nothing to do with.
LEMMA StageKept ==
  ASSUME TypeOK, TypeOK', NEW t \in Workers, NEW f \in Events,
         \A w \in Threads \ {t} : /\ event'[w] = event[w] /\ p'[w] = p[w]
                                  /\ pc'[w] = pc[w] /\ slot'[w] = slot[w],
         event[t] # f, event'[t] # f, p[t] # f, p'[t] # f,
         Unsent(f)' <=> Unsent(f), InQueue(f)' <=> InQueue(f),
         UNCHANGED saved_output_callbacks
  PROVE  Stage(f)' = Stage(f) /\ Owed(f)' = Owed(f)
<1>1. (f \in ToSet(kmsg_queue) <=> InQueue(f)) /\ (f \in ToSet(kmsg_queue') <=> InQueue(f)')
  BY DEF ToSet, InQueue, Queued, TypeOK
<1>2. \A w \in Threads : Has(w, f)' <=> Has(w, f)
  BY DEF Has
<1>3. ~Has(t, f) /\ ~Has(t, f)'
  BY DEF Has
<1>4. (event'[f.by] = f <=> event[f.by] = f)
  BY EventFacts DEF Workers
<1>5. Stage(f)' = Stage(f)
  BY <1>1, <1>2, <1>4 DEF Stage, Unsent
<1>6. Listening' = Listening
  BY DEF Listening
<1>7. \A u \in Listening : slot'[u] = slot[u]
  BY EventFacts DEF Listening
<1>8. \A u \in Listening : \A w \in Threads :
        (Has(w, f) /\ pc[w] # "posted" /\ slot[w] <= slot[u])
          <=> (Has(w, f)' /\ pc'[w] # "posted" /\ slot'[w] <= slot'[u])
  BY <1>2, <1>3, <1>7
<1>9. Owed(f)' = Owed(f)
  BY <1>6, <1>8 DEF Owed
<1> QED BY <1>5, <1>9

LEMMA MailboxKept ==
  ASSUME \A f \in Events : Stage(f)' = Stage(f) /\ Owed(f)' = Owed(f),
         UNCHANGED <<saved_output_callbacks, received>>
  PROVE  UNCHANGED Mailbox!mailbox
<1>1. Listening' = Listening
  BY DEF Listening
<1>2. [f \in Events |-> Stage(f)]' = [f \in Events |-> Stage(f)]
  OBVIOUS
<1>3. [f \in Events |-> Owed(f)]' = [f \in Events |-> Owed(f)]
  OBVIOUS
<1> QED BY <1>1, <1>2, <1>3 DEF Mailbox!mailbox

LEMMA MailboxMoves ==
  ASSUME NEW e \in Events, \A f \in Events \ {e} : Stage(f)' = Stage(f),
         NEW from, Stage(e) \in from
  PROVE  Mailbox!Move(e, from, Stage(e)')
<1>1. [f \in Events |-> Stage(f)]' = [[f \in Events |-> Stage(f)] EXCEPT ![e] = Stage(e)']
  OBVIOUS
<1> QED BY <1>1 DEF Mailbox!Move

LEMMA MailboxOwes ==
  ASSUME NEW e \in Events, \A f \in Events \ {e} : Owed(f)' = Owed(f)
  PROVE  /\ [f \in Events |-> Owed(f)]' = [[f \in Events |-> Owed(f)] EXCEPT ![e] = Owed(e)']
         /\ Owed(e)' = Owed(e) => [f \in Events |-> Owed(f)]' = [f \in Events |-> Owed(f)]
OBVIOUS

\* The steps of the mailbox, event by event.
LEMMA MailboxActions ==
  ASSUME NEW e \in Events,
         \A f \in Events \ {e} : Stage(f)' = Stage(f) /\ Owed(f)' = Owed(f),
         UNCHANGED <<saved_output_callbacks, received>>
  PROVE  /\ /\ Stage(e) = "new" /\ Stage(e)' = "sent" /\ Owed(e)' = Owed(e)
            /\ \A f \in Events : f.by = e.by /\ f.n < e.n => Stage(f) \notin {"new", "sent"}
            => Mailbox!Send(e)
         /\ Stage(e) = "sent" /\ Stage(e)' = "stored" /\ Owed(e)' = Owed(e) => Mailbox!Store(e)
         /\ Stage(e) = "sent" /\ Stage(e)' = "over" /\ Owed(e)' = Owed(e) /\ e \in Starved
            => Mailbox!Lose(e)
         /\ /\ Stage(e) \in {"sent", "stored"} /\ Stage(e)' = "out" /\ Owed(e)' = Listening
            /\ \A f \in Events : f.by = e.by /\ f.n < e.n => Stage(f) # "stored"
            => Mailbox!Take(e)
         /\ Stage(e) = "out" /\ Stage(e)' = "over" /\ Owed(e) = {} /\ Owed(e)' = {}
            => Mailbox!Finish(e)
<1>1. Listening' = Listening
  BY DEF Listening
<1>2. ASSUME NEW from, Stage(e) \in from PROVE Mailbox!Move(e, from, Stage(e)')
  BY <1>2, MailboxMoves
<1>3. ASSUME Stage(e) = "new", Stage(e)' = "sent", Owed(e)' = Owed(e),
             \A f \in Events : f.by = e.by /\ f.n < e.n => Stage(f) \notin {"new", "sent"}
      PROVE  Mailbox!Send(e)
  <2>1. Mailbox!Move(e, {"new"}, "sent")
    BY <1>2, <1>3
  <2>2. [f \in Events |-> Owed(f)]' = [f \in Events |-> Owed(f)]
    BY <1>3, MailboxOwes
  <2>3. \A f \in Mailbox!Earlier(e) : [g \in Events |-> Stage(g)][f] \notin {"new", "sent"}
    BY <1>3 DEF Mailbox!Earlier
  <2> QED BY <1>1, <2>1, <2>2, <2>3 DEF Mailbox!Send
<1>4. ASSUME Stage(e) = "sent", Stage(e)' = "stored", Owed(e)' = Owed(e)
      PROVE  Mailbox!Store(e)
  <2>1. Mailbox!Move(e, {"sent"}, "stored")
    BY <1>2, <1>4
  <2>2. [f \in Events |-> Owed(f)]' = [f \in Events |-> Owed(f)]
    BY <1>4, MailboxOwes
  <2> QED BY <1>1, <2>1, <2>2 DEF Mailbox!Store
<1>5. ASSUME Stage(e) = "sent", Stage(e)' = "over", Owed(e)' = Owed(e), e \in Starved
      PROVE  Mailbox!Lose(e)
  <2>1. Mailbox!Move(e, {"sent"}, "over")
    BY <1>2, <1>5
  <2>2. [f \in Events |-> Owed(f)]' = [f \in Events |-> Owed(f)]
    BY <1>5, MailboxOwes
  <2> QED BY <1>1, <1>5, <2>1, <2>2 DEF Mailbox!Lose
<1>6. ASSUME Stage(e) \in {"sent", "stored"}, Stage(e)' = "out", Owed(e)' = Listening,
             \A f \in Events : f.by = e.by /\ f.n < e.n => Stage(f) # "stored"
      PROVE  Mailbox!Take(e)
  <2>1. Mailbox!Move(e, {"sent", "stored"}, "out")
    BY <1>2, <1>6
  <2>2. [f \in Events |-> Owed(f)]' = [[f \in Events |-> Owed(f)] EXCEPT ![e] = Listening]
    BY <1>6, MailboxOwes
  <2>3. \A f \in Mailbox!Earlier(e) : [g \in Events |-> Stage(g)][f] # "stored"
    BY <1>6 DEF Mailbox!Earlier
  <2> QED BY <1>1, <2>1, <2>2, <2>3 DEF Mailbox!Take
<1>7. ASSUME Stage(e) = "out", Stage(e)' = "over", Owed(e) = {}, Owed(e)' = {}
      PROVE  Mailbox!Finish(e)
  <2>1. Mailbox!Move(e, {"out"}, "over")
    BY <1>2, <1>7
  <2>2. [f \in Events |-> Owed(f)]' = [f \in Events |-> Owed(f)]
    BY <1>7, MailboxOwes
  <2> QED BY <1>1, <1>7, <2>1, <2>2 DEF Mailbox!Finish
<1> QED BY <1>3, <1>4, <1>5, <1>6, <1>7

\* Only t's own event and the entry it took can change their stage with pc[t].
LEMMA OthersKept ==
  ASSUME TypeOK, Hands, Ordered, TypeOK', Hands', Ordered', NEW t \in Workers,
         \A w \in Threads \ {t} : /\ event'[w] = event[w] /\ p'[w] = p[w]
                                  /\ pc'[w] = pc[w] /\ slot'[w] = slot[w],
         UNCHANGED <<saved_output_callbacks, sent, kmsg_queue>>
  PROVE  \A f \in Events : event[t] # f /\ event'[t] # f /\ p[t] # f /\ p'[t] # f
           => Stage(f)' = Stage(f) /\ Owed(f)' = Owed(f)
<1>1. \A f : (Unsent(f)' <=> Unsent(f)) /\ (InQueue(f)' <=> InQueue(f))
  BY DEF Unsent, InQueue, Queued
<1> QED BY <1>1, StageKept

LEMMA SlotIsFirst ==
  ASSUME TypeOK, Registered, NEW t \in Workers, pc[t] \notin {"notify", "posted"}
  PROVE  Ahead(t) = Listening
<1>1. slot[t] = 1
  BY DEF Registered
<1>2. \A u \in Listening : slot[u] \in Slots
  BY EventFacts DEF Listening, TypeOK
<1>3. \A i \in Slots : 1 <= i
  BY DEF Slots
<1> QED BY <1>1, <1>2, <1>3 DEF Ahead

\* What a step of control does to the mailbox: a thread that has seen the queue
\* empty goes on with its own event, a starved event is lost, or nothing.
LEMMA MailboxControl ==
  ASSUME TypeOK, Hands, Ordered, Registered, TypeOK', Hands', Ordered', Registered',
         NEW t \in Workers, Control(t)
  PROVE  \/ UNCHANGED Mailbox!mailbox
         \/ \E e \in Events : Mailbox!Lose(e) \/ Mailbox!Take(e)
<1>1. StagesByPlace /\ StagesByPlace'
  BY Stages, StagesNext
<1>2. /\ UNCHANGED <<saved_output_callbacks, received, sent, slot, kmsg_queue, p>>
      /\ \A w \in Threads \ {t} : event'[w] = event[w] /\ pc'[w] = pc[w]
      /\ event' = event \/ (event[t] \in Starved /\ p[t] = NULL /\ event'[t] = NULL)
      /\ ~Posting(t) /\ pc'[t] \notin {"notify", "posted"}
      /\ pc'[t] = "post" => p[t] # NULL \/ kmsg_queue = <<>>
  BY ControlSteps DEF notifying, TypeOK
<1>3. \A f \in Events : event[t] # f /\ event'[t] # f /\ p[t] # f
        => Stage(f)' = Stage(f) /\ Owed(f)' = Owed(f)
  BY <1>2, OthersKept
<1>4. /\ pc[t] \notin {"notify", "posted"} /\ NULL \notin Events
      /\ event[t] # NULL => event[t] \in Events
      /\ p[t] # NULL => p[t] \in Events
  BY <1>2, EventFacts DEF Posting, TypeOK
<1>5. Listening' = Listening
  BY <1>2 DEF Listening
<1>6. Ahead(t) = Listening /\ Ahead(t)' = Listening
  <2>1. (TypeOK /\ Registered /\ pc[t] \notin {"notify", "posted"} => Ahead(t) = Listening)
    BY SlotIsFirst
  <2>2. slot'[t] = slot[t] /\ \A u \in Listening : slot'[u] = slot[u]
    BY <1>2
  <2>3. Ahead(t)' = Ahead(t)
    BY <1>2, <1>4, <1>5, <2>2 DEF Ahead
  <2> QED BY <1>4, <2>1, <2>3
<1>7. \A e \in Events : p[t] = e => /\ Stage(e) = "out" /\ Stage(e)' = "out"
                                   /\ Owed(e) = Listening /\ Owed(e)' = Listening
  BY <1>1, <1>2, <1>6 DEF StagesByPlace
<1>8. \A e \in Events : event[t] = e => Stage(e) = "sent" /\ Owed(e) = {}
  BY <1>1, <1>2 DEF StagesByPlace, OwnIsOut
<1>9. CASE event' # event
  <2>1. PICK e \in Events : e = event[t]
    BY <1>2, <1>9, EventAssumption
  <2>2. e \in Starved /\ e # NULL /\ event'[t] = NULL /\ p[t] = NULL /\ p'[t] = NULL
    BY <1>2, <1>4, <1>9, <2>1
  <2>3. \A w \in Workers : event'[w] # e /\ p'[w] # e
    BY <1>2, <2>1, <2>2, HeldOnce, HeldTypes
  <2>4. ~InQueue(e)' /\ ~Unsent(e)'
    <3>1. ~InQueue(e)
      BY <2>1, HeldOnce DEF InQueue
    <3>2. ~Unsent(e)
      BY <1>1, <2>1 DEF StagesByPlace
    <3> QED BY <1>2, <3>1, <3>2 DEF InQueue, Unsent, Queued
  <2>5. Stage(e)' = "over" /\ Owed(e)' = {}
    BY <1>1, <2>3, <2>4 DEF StagesByPlace
  <2>6. \A f \in Events \ {e} : Stage(f)' = Stage(f) /\ Owed(f)' = Owed(f)
    BY <1>3, <1>4, <2>1, <2>2
  <2>7. Stage(e) = "sent" /\ Owed(e) = {}
    BY <1>8, <2>1
  <2>8. Mailbox!Lose(e)
    BY <1>2, <2>2, <2>5, <2>6, <2>7, MailboxActions
  <2> QED BY <2>8
<1>10. CASE event' = event /\ ~(pc'[t] = "post" /\ p[t] = NULL)
  <2>1. ~OwnIsOut(t)'
    BY <1>2, <1>10 DEF OwnIsOut, Posting
  <2>2. \A e \in Events : event[t] = e => Stage(e)' = "sent" /\ Owed(e)' = {}
    BY <1>1, <1>10, <2>1 DEF StagesByPlace
  <2>3. ASSUME NEW f \in Events PROVE Stage(f)' = Stage(f) /\ Owed(f)' = Owed(f)
    <3>1. CASE f = event[t]
      BY <1>8, <2>2, <3>1
    <3>2. CASE f = p[t]
      BY <1>7, <3>2
    <3> QED BY <1>3, <1>10, <3>1, <3>2
  <2> QED BY <1>2, <2>3, MailboxKept
<1>11. CASE event' = event /\ pc'[t] = "post" /\ p[t] = NULL
  <2>1. event[t] # NULL
    <3>1. Posting(t)' /\ p'[t] = NULL
      BY <1>2, <1>11 DEF Posting
    <3>2. HandsOf(t)'
      BY DEF Hands
    <3> QED BY <1>4, <1>11, <3>1, <3>2 DEF HandsOf
  <2>2. PICK e \in Events : e = event[t]
    BY <1>4, <2>1
  <2>3. OwnIsOut(t)' /\ event'[t] = e
    BY <1>2, <1>11, <2>2 DEF OwnIsOut, Posting
  <2>4. Stage(e)' = "out" /\ Owed(e)' = Listening
    BY <1>1, <1>6, <2>3 DEF StagesByPlace
  <2>5. kmsg_queue = <<>>
    BY <1>2, <1>11
  <2>6. \A f \in Events : Stage(f) # "stored"
    BY <1>1, <2>5 DEF StagesByPlace, InQueue, Queued
  <2>7. \A f \in Events \ {e} : Stage(f)' = Stage(f) /\ Owed(f)' = Owed(f)
    BY <1>3, <1>4, <1>11, <2>2
  <2>8. Stage(e) = "sent"
    BY <1>8, <2>2
  <2>9. Mailbox!Take(e)
    BY <1>2, <2>4, <2>6, <2>7, <2>8, MailboxActions
  <2> QED BY <2>9
<1> QED BY <1>9, <1>10, <1>11

LEMMA MailboxSends ==
  ASSUME TypeOK, Hands, Ordered, TypeOK', Hands', Ordered', NEW t \in Posters, Notify(t)
  PROVE  \E e \in Events : Mailbox!Send(e)
<1>1. StagesByPlace /\ StagesByPlace'
  BY Stages, StagesNext
<1>2. sent[t] + 1 \in 1..MaxEvents[t] /\ sent[t] \in Nat
  BY SentBound DEF Notify, TypeOK
<1> DEFINE e == [by |-> t, n |-> sent[t] + 1]
<1>3. e \in Events /\ e.by = t /\ e.n = sent[t] + 1
  BY <1>2, EventFacts
<1>4. PICK d \in Events : d = e
  BY <1>3
<1>5. /\ UNCHANGED <<kmsg_queue, p, slot, saved_output_callbacks, received>>
      /\ sent' = [sent EXCEPT ![t] = @ + 1]
      /\ event' = [event EXCEPT ![t] = d]
      /\ pc[t] = "idle" /\ pc' = [pc EXCEPT ![t] = "check"]
  BY <1>4 DEF Notify, Goto, queueing
<1> HIDE DEF e
<1>6. /\ sent'[t] = sent[t] + 1 /\ \A w \in Posters \ {t} : sent'[w] = sent[w]
      /\ event'[t] = d /\ pc'[t] = "check"
      /\ \A w \in Threads \ {t} : event'[w] = event[w] /\ pc'[w] = pc[w] /\ p'[w] = p[w] /\ slot'[w] = slot[w]
  BY <1>5, HeldTypes DEF TypeOK
<1>7. t \in Workers /\ event[t] = NULL /\ p[t] = NULL /\ p'[t] = NULL /\ NULL \notin Events
  BY <1>5, EventFacts DEF Hands, HandsOf, Workers, Posting
<1>8. ASSUME NEW f \in Events \ {d} PROVE Stage(f)' = Stage(f) /\ Owed(f)' = Owed(f)
  <2>1. f.by \in Posters /\ f.n \in Nat /\ sent[f.by] \in Nat
    BY EventFacts, HeldTypes
  <2>2. f.by = t => f.n # sent[t] + 1
    BY <1>3, <1>4, EventFacts
  <2>3. Unsent(f)' <=> Unsent(f)
    <3>1. CASE f.by = t
      BY <1>2, <1>6, <2>1, <2>2, <3>1 DEF Unsent
    <3>2. CASE f.by # t
      BY <1>6, <2>1, <3>2 DEF Unsent
    <3> QED BY <3>1, <3>2
  <2>4. InQueue(f)' <=> InQueue(f)
    BY <1>5 DEF InQueue, Queued
  <2> QED BY <1>5, <1>6, <1>7, <2>3, <2>4, StageKept
<1>9. Stage(d) = "new" /\ Owed(d) = {}
  <2>1. Unsent(d)
    BY <1>2, <1>3, <1>4 DEF Unsent
  <2> QED BY <1>1, <2>1 DEF StagesByPlace
<1>10. Stage(d)' = "sent" /\ Owed(d)' = {}
  <2>1. ~OwnIsOut(t)'
    BY <1>6 DEF OwnIsOut, Posting
  <2> QED BY <1>1, <1>6, <1>7, <2>1 DEF StagesByPlace
<1>11. \A f \in Events : f.by = d.by /\ f.n < d.n => Stage(f) \notin {"new", "sent"}
  <2> SUFFICES ASSUME NEW f \in Events, f.by = d.by, f.n < d.n
               PROVE  Stage(f) # "new" /\ Stage(f) # "sent"
    OBVIOUS
  <2>1. f.by = t /\ f.n \in Nat /\ f.n < sent[t] + 1
    BY <1>3, <1>4, EventFacts
  <2>2. ~Unsent(f)
    BY <1>2, <2>1 DEF Unsent
  <2>3. event[f.by] # f
    BY <1>7, <2>1
  <2> QED BY <1>1, <2>2, <2>3 DEF StagesByPlace
<1> QED BY <1>5, <1>8, <1>9, <1>10, <1>11, MailboxActions

LEMMA MailboxStores ==
  ASSUME TypeOK, Hands, Ordered, TypeOK', Hands', Ordered', NEW t \in Workers, Enqueue(t)
  PROVE  \E e \in Events : Mailbox!Store(e)
<1>1. StagesByPlace /\ StagesByPlace'
  BY Stages, StagesNext
<1>2. event[t] # NULL /\ p[t] = NULL /\ NULL \notin Events /\ event[t] \in Events /\ pc[t] = "locked"
  BY EventFacts DEF Enqueue, Hands, HandsOf, Posting, TypeOK
<1>3. PICK e \in Events : e = event[t]
  BY <1>2
<1>4. /\ event'[t] = NULL /\ pc'[t] = "release"
      /\ \A w \in Threads \ {t} : event'[w] = event[w] /\ pc'[w] = pc[w] /\ p'[w] = p[w] /\ slot'[w] = slot[w]
      /\ UNCHANGED <<saved_output_callbacks, received, sent, p>>
      /\ kmsg_queue' = Append(kmsg_queue, e)
  BY <1>3, EventFacts DEF Enqueue, Goto, notifying, TypeOK
<1>5. \A f : InQueue(f)' <=> InQueue(f) \/ f = e
  BY <1>4, AppendedPlaces DEF InQueue
<1>6. ASSUME NEW f \in Events \ {e} PROVE Stage(f)' = Stage(f) /\ Owed(f)' = Owed(f)
  <2>1. Unsent(f)' <=> Unsent(f)
    BY <1>4 DEF Unsent
  <2> QED BY <1>2, <1>3, <1>4, <1>5, <2>1, StageKept
<1>7. Stage(e) = "sent" /\ Owed(e) = {}
  <2>1. ~OwnIsOut(t)
    BY <1>2 DEF OwnIsOut, Posting
  <2> QED BY <1>1, <1>3, <2>1 DEF StagesByPlace
<1>8. Stage(e)' = "stored" /\ Owed(e)' = {}
  BY <1>1, <1>5 DEF StagesByPlace
<1> QED BY <1>4, <1>6, <1>7, <1>8, MailboxActions

LEMMA MailboxTakes ==
  ASSUME TypeOK, Hands, Ordered, Registered, TypeOK', Hands', Ordered', Registered',
         NEW t \in Workers, Dequeue(t)
  PROVE  UNCHANGED Mailbox!mailbox \/ \E e \in Events : Mailbox!Take(e)
<1>1. StagesByPlace /\ StagesByPlace'
  BY Stages, StagesNext
<1>2. p[t] = NULL /\ NULL \notin Events /\ pc[t] = "locked"
  BY EventFacts DEF Dequeue, Hands, HandsOf, Posting
<1>3. /\ p'[t] = FirstEntry /\ pc'[t] = "release"
      /\ \A w \in Threads \ {t} : event'[w] = event[w] /\ pc'[w] = pc[w] /\ p'[w] = p[w] /\ slot'[w] = slot[w]
      /\ UNCHANGED <<saved_output_callbacks, received, sent, slot, event>>
  BY EventFacts DEF Dequeue, Goto, notifying, TypeOK
<1>4. \A f : Unsent(f)' <=> Unsent(f)
  BY <1>3 DEF Unsent
<1>5. ASSUME NEW f \in Events, event[t] = f PROVE Stage(f)' = Stage(f) /\ Owed(f)' = Owed(f)
  <2>1. ~OwnIsOut(t) /\ ~OwnIsOut(t)'
    BY <1>2, <1>3 DEF OwnIsOut, Posting
  <2>2. event'[t] = f
    BY <1>3, <1>5
  <2> QED BY <1>1, <1>5, <2>1, <2>2 DEF StagesByPlace
<1>6. CASE kmsg_queue = <<>>
  <2>1. kmsg_queue' = kmsg_queue /\ FirstEntry = NULL
    BY <1>6 DEF Dequeue, FirstEntry
  <2>2. ASSUME NEW f \in Events PROVE Stage(f)' = Stage(f) /\ Owed(f)' = Owed(f)
    <3>1. InQueue(f)' <=> InQueue(f)
      BY <2>1 DEF InQueue, Queued
    <3> QED BY <1>2, <1>3, <1>4, <1>5, <2>1, <3>1, StageKept
  <2> QED BY <1>3, <2>2, MailboxKept
<1>7. CASE kmsg_queue # <<>>
  <2>1. kmsg_queue' = Tail(kmsg_queue)
    BY <1>7 DEF Dequeue
  <2>2. /\ 1 \in Queued /\ kmsg_queue[1] = FirstEntry /\ FirstEntry \in Events
        /\ \A i \in Queued' : i + 1 \in Queued /\ kmsg_queue'[i] = kmsg_queue[i + 1]
        /\ \A i \in Queued : i = 1 \/ i - 1 \in Queued'
        /\ Queued \subseteq Nat
    BY <1>7, <2>1, DequeuedPlaces
  <2>3. PICK e \in Events : e = FirstEntry
    BY <2>2
  <2>4. ASSUME NEW f \in Events, f # e PROVE InQueue(f)' <=> InQueue(f)
    <3>1. ASSUME NEW i \in Queued', kmsg_queue'[i] = f PROVE InQueue(f)
      BY <2>2, <3>1 DEF InQueue
    <3>2. ASSUME NEW i \in Queued, kmsg_queue[i] = f
          PROVE  \E j \in Queued' : kmsg_queue'[j] = f
      <4>1. i # 1 /\ i \in Nat
        BY <2>2, <2>3, <2>4, <3>2
      <4>2. i - 1 \in Queued' /\ (i - 1) + 1 = i
        BY <2>2, <4>1
      <4> QED BY <2>2, <3>2, <4>2
    <3> QED BY <3>1, <3>2 DEF InQueue
  <2>5. event[t] # e
    BY <2>2, <2>3, HeldOnce
  <2>6. ASSUME NEW f \in Events \ {e} PROVE Stage(f)' = Stage(f) /\ Owed(f)' = Owed(f)
    <3>1. InQueue(f)' <=> InQueue(f)
      BY <2>4
    <3> QED BY <1>2, <1>3, <1>4, <1>5, <2>3, <3>1, StageKept
  <2>7. Stage(e) = "stored"
    BY <1>1, <2>2, <2>3 DEF StagesByPlace, InQueue
  <2>8. Stage(e)' = "out" /\ Owed(e)' = Listening
    <3>1. Stage(e)' = "out" /\ Owed(e)' = Ahead(t)'
      BY <1>1, <1>3, <2>3 DEF StagesByPlace
    <3>2. Ahead(t)' = Ahead(t)
      <4>1. Listening' = Listening /\ Listening \subseteq Uis
        BY <1>3 DEF Listening
      <4> QED BY <1>2, <1>3, <4>1 DEF Ahead
    <3> QED BY <1>2, <3>1, <3>2, SlotIsFirst
  <2>9. \A f \in Events : f.by = e.by /\ f.n < e.n => Stage(f) # "stored"
    <3> SUFFICES ASSUME NEW f \in Events, f.by = e.by, f.n < e.n, Stage(f) = "stored" PROVE FALSE
      OBVIOUS
    <3>1. PICK i \in Queued : kmsg_queue[i] = f
      BY <1>1 DEF StagesByPlace, InQueue
    <3>2. f.n \in Nat /\ e.n \in Nat /\ i \in Nat
      BY <2>2, EventFacts
    <3>3. i # 1
      BY <2>2, <2>3, <3>1, <3>2
    <3>4. 1 < i
      BY <3>2, <3>3 DEF Queued
    <3>5. e.n < f.n
      BY <2>2, <2>3, <3>1, <3>4 DEF Ordered, QueueInOrder
    <3> QED BY <3>2, <3>5
  <2> QED BY <1>3, <2>6, <2>7, <2>8, <2>9, MailboxActions
<1> QED BY <1>6, <1>7

LEMMA MailboxFinishes ==
  ASSUME TypeOK, Hands, Ordered, TypeOK', Hands', Ordered',
         NEW t \in Workers, DisposeKmsg(t) \/ Return(t)
  PROVE  \E e \in Events : Mailbox!Finish(e)
<1>1. StagesByPlace /\ StagesByPlace'
  BY Stages, StagesNext
<1>2. /\ pc[t] = "posted" /\ Posting(t) /\ NULL \notin Events
      /\ \A w \in Threads \ {t} : event'[w] = event[w] /\ pc'[w] = pc[w] /\ p'[w] = p[w] /\ slot'[w] = slot[w]
      /\ UNCHANGED <<saved_output_callbacks, received, sent, kmsg_queue>>
      /\ ~Posting(t)'
  BY EventFacts DEF DisposeKmsg, Return, Goto, notifying, queueing, TypeOK, Posting
<1>3. PICK e \in Events : e = Subject(t)
  BY <1>2, SubjectFacts
<1>4. /\ ~InQueue(e)
      /\ \A w \in Workers : (event[w] = e => w = t /\ p[t] = NULL) /\ (p[w] = e => w = t)
      /\ ~Unsent(e)
  <2>1. e.n <= sent[e.by] /\ e.n \in Nat /\ sent[e.by] \in Nat
    BY <1>2, <1>3, SubjectFacts, EventFacts, HeldTypes
  <2> QED BY <1>2, <1>3, <2>1, SubjectFacts DEF InQueue, Unsent
<1>5. Ahead(t) = {}
  BY <1>2 DEF Ahead
<1>6. /\ \A f \in Events \ {e} : Stage(f)' = Stage(f) /\ Owed(f)' = Owed(f)
      /\ Stage(e) = "out" /\ Owed(e) = {} /\ event'[t] # e /\ p'[t] # e
  <2>1. CASE DisposeKmsg(t)
    <3>1. p[t] = e /\ p'[t] = NULL /\ UNCHANGED event
      BY <1>3, <2>1, EventFacts DEF DisposeKmsg, Subject, TypeOK
    <3>2. Stage(e) = "out" /\ Owed(e) = {} /\ event[t] # e
      BY <1>1, <1>2, <1>4, <1>5, <3>1 DEF StagesByPlace
    <3>3. ASSUME NEW f \in Events, event[t] = f PROVE Stage(f)' = Stage(f) /\ Owed(f)' = Owed(f)
      <4>1. ~OwnIsOut(t) /\ ~OwnIsOut(t)'
        BY <1>2, <3>1, EventFacts DEF OwnIsOut
      <4>2. event'[t] = f
        BY <3>1, <3>3
      <4>3. Stage(f) = "sent" /\ Owed(f) = {}
        BY <1>1, <3>3, <4>1 DEF StagesByPlace
      <4>4. Stage(f)' = "sent" /\ Owed(f)' = {}
        BY <1>1, <4>1, <4>2 DEF StagesByPlace
      <4> QED BY <4>3, <4>4
    <3> QED BY <1>2, <3>1, <3>2, <3>3, OthersKept
  <2>2. CASE Return(t)
    <3>1. p[t] = NULL /\ event[t] = e /\ event'[t] = NULL /\ p'[t] = NULL
      BY <1>3, <2>2, EventFacts DEF Return, Subject, TypeOK
    <3>2. OwnIsOut(t)
      BY <1>2, <3>1 DEF OwnIsOut
    <3>3. Stage(e) = "out" /\ Owed(e) = {}
      BY <1>1, <1>5, <3>1, <3>2 DEF StagesByPlace
    <3> QED BY <1>2, <3>1, <3>3, OthersKept
  <2> QED BY <2>1, <2>2
<1>7. Stage(e)' = "over" /\ Owed(e)' = {}
  <2>1. \A w \in Workers : event'[w] # e /\ p'[w] # e
    BY <1>2, <1>4, <1>6, HeldTypes
  <2>2. ~InQueue(e)' /\ ~Unsent(e)'
    BY <1>2, <1>4 DEF InQueue, Unsent, Queued
  <2> QED BY <1>1, <2>1, <2>2 DEF StagesByPlace
<1> QED BY <1>2, <1>6, <1>7, MailboxActions

\* A step of t that only moves it among the labels at which it posts, before it
\* calls the callbacks, moves no event.
LEMMA MailboxPosts ==
  ASSUME TypeOK, Hands, Ordered, Registered, TypeOK', Hands', Ordered', NEW t \in Workers,
         PostUiEvent(t)
  PROVE  UNCHANGED Mailbox!mailbox
<1>1. StagesByPlace /\ StagesByPlace'
  BY Stages, StagesNext
<1>2. /\ pc[t] = "post" /\ pc'[t] = "notify"
      /\ UNCHANGED <<saved_output_callbacks, received, sent, kmsg_queue, event, p, slot>>
      /\ \A w \in Threads \ {t} : pc'[w] = pc[w]
  BY EventFacts DEF PostUiEvent, Goto, notifying, queueing, TypeOK
<1>3. Listening' = Listening
  BY <1>2 DEF Listening
<1>4. Ahead(t)' = Ahead(t)
  BY <1>2, <1>3 DEF Ahead
<1>5. OwnIsOut(t)' <=> OwnIsOut(t)
  BY <1>2 DEF OwnIsOut, Posting
<1>6. ASSUME NEW f \in Events, event[t] = f PROVE Stage(f)' = Stage(f) /\ Owed(f)' = Owed(f)
  <2>1. event'[t] = f
    BY <1>2, <1>6
  <2>2. CASE OwnIsOut(t)
    <3>1. Stage(f) = "out" /\ Owed(f) = Ahead(t)
      BY <1>1, <1>6, <2>2 DEF StagesByPlace
    <3>2. Stage(f)' = "out" /\ Owed(f)' = Ahead(t)'
      BY <1>1, <1>5, <2>1, <2>2 DEF StagesByPlace
    <3> QED BY <1>4, <3>1, <3>2
  <2>3. CASE ~OwnIsOut(t)
    <3>1. Stage(f) = "sent" /\ Owed(f) = {}
      BY <1>1, <1>6, <2>3 DEF StagesByPlace
    <3>2. Stage(f)' = "sent" /\ Owed(f)' = {}
      BY <1>1, <1>5, <2>1, <2>3 DEF StagesByPlace
    <3> QED BY <3>1, <3>2
  <2> QED BY <2>2, <2>3
<1>7. ASSUME NEW f \in Events, p[t] = f PROVE Stage(f)' = Stage(f) /\ Owed(f)' = Owed(f)
  <2>1. p'[t] = f
    BY <1>2, <1>7
  <2>2. Stage(f) = "out" /\ Owed(f) = Ahead(t)
    BY <1>1, <1>7 DEF StagesByPlace
  <2>3. Stage(f)' = "out" /\ Owed(f)' = Ahead(t)'
    BY <1>1, <2>1 DEF StagesByPlace
  <2> QED BY <1>4, <2>2, <2>3
<1>8. ASSUME NEW f \in Events PROVE Stage(f)' = Stage(f) /\ Owed(f)' = Owed(f)
  BY <1>2, <1>6, <1>7, OthersKept
<1> QED BY <1>2, <1>8, MailboxKept

\* A call of a callback: the UI is owed the event, and no more after it.
LEMMA MailboxCalls ==
  ASSUME TypeOK, Hands, Ordered, Registered, TypeOK', Hands', Ordered', Registered',
         NEW t \in Workers, NotifyCallbacks(t)
  PROVE  UNCHANGED Mailbox!mailbox \/ \E e \in Events, u \in Uis : Mailbox!Call(e, u)
<1>1. StagesByPlace /\ StagesByPlace'
  BY Stages, StagesNext
<1> DEFINE u == saved_output_callbacks[slot[t]]
<1>2. /\ pc[t] = "notify" /\ slot[t] \in Slots /\ u \in Uis \cup {NoUi}
      /\ pc'[t] = IF slot[t] < MAX_NUM_CALLBACKS THEN "notify" ELSE "posted"
      /\ slot'[t] = IF slot[t] < MAX_NUM_CALLBACKS THEN slot[t] + 1 ELSE 1
      /\ UNCHANGED <<saved_output_callbacks, sent, kmsg_queue, event, p>>
      /\ \A w \in Threads \ {t} : pc'[w] = pc[w] /\ slot'[w] = slot[w]
      /\ received' = IF u = NoUi THEN received ELSE [received EXCEPT ![u] = Append(@, Subject(t))]
  BY EventFacts DEF NotifyCallbacks, Goto, queueing, TypeOK
<1>3. PICK e \in Events : e = Subject(t)
  BY <1>2, SubjectFacts DEF Posting
<1>4. Listening' = Listening /\ Listening \subseteq Uis
  BY <1>2 DEF Listening
<1>5. \A v \in Listening : /\ slot[v] \in Slots /\ slot'[v] = slot[v]
                          /\ saved_output_callbacks[slot[v]] = v
  <2> SUFFICES ASSUME NEW v \in Listening
               PROVE  slot[v] \in Slots /\ slot'[v] = slot[v] /\ saved_output_callbacks[slot[v]] = v
    OBVIOUS
  <2>1. v \in Uis /\ v \in Threads /\ v # t
    BY <1>4, EventFacts
  <2>2. PICK i \in Slots : saved_output_callbacks[i] = v
    BY DEF Listening
  <2>3. slot[v] = i
    BY <2>1, <2>2 DEF Registered
  <2> QED BY <1>2, <2>1, <2>2, <2>3
<1> HIDE DEF u
<1>6. Ahead(t)' = Ahead(t) \ {u}
  <2>1. Ahead(t) = {v \in Listening : slot[t] <= slot[v]}
    BY <1>2 DEF Ahead
  <2>2. \A v \in Listening : slot[v] = slot[t] <=> v = u
    <3>1. \A v \in Listening : slot[v] = slot[t] => v = u
      BY <1>5 DEF u
    <3>2. \A v \in Listening : v = u => slot[v] = slot[t]
      BY <1>2, <1>4 DEF u, Registered
    <3> QED BY <3>1, <3>2
  <2>3. \A v \in Listening : slot[v] \in 1..MAX_NUM_CALLBACKS
    BY <1>5 DEF Slots
  <2>4. slot[t] \in 1..MAX_NUM_CALLBACKS /\ MAX_NUM_CALLBACKS \in Nat
    BY <1>2, EventAssumption DEF Slots
  <2>5. CASE slot[t] < MAX_NUM_CALLBACKS
    <3>1. Ahead(t)' = {v \in Listening : slot[t] + 1 <= slot[v]}
      BY <1>2, <1>4, <1>5, <2>5 DEF Ahead
    <3>2. \A v \in Listening : slot[t] + 1 <= slot[v] <=> slot[t] <= slot[v] /\ slot[v] # slot[t]
      BY <2>3, <2>4
    <3> QED BY <2>1, <2>2, <3>1, <3>2
  <2>6. CASE ~(slot[t] < MAX_NUM_CALLBACKS)
    <3>1. Ahead(t)' = {}
      BY <1>2, <2>6 DEF Ahead
    <3>2. \A v \in Listening : slot[t] <= slot[v] => slot[v] = slot[t]
      BY <2>3, <2>4, <2>6
    <3> QED BY <2>1, <2>2, <3>1, <3>2
  <2> QED BY <2>5, <2>6
<1>7. /\ Stage(e) = "out" /\ Stage(e)' = "out"
      /\ Owed(e) = Ahead(t) /\ Owed(e)' = Ahead(t)'
      /\ \A f \in Events \ {e} : Stage(f)' = Stage(f) /\ Owed(f)' = Owed(f)
  <2>1. CASE p[t] # NULL
    <3>1. p[t] = e /\ p'[t] = e
      BY <1>2, <1>3, <2>1 DEF Subject
    <3>2. Stage(e) = "out" /\ Owed(e) = Ahead(t)
      BY <1>1, <3>1 DEF StagesByPlace
    <3>3. Stage(e)' = "out" /\ Owed(e)' = Ahead(t)'
      BY <1>1, <3>1 DEF StagesByPlace
    <3>4. ASSUME NEW f \in Events, event[t] = f PROVE Stage(f)' = Stage(f) /\ Owed(f)' = Owed(f)
      <4>1. ~OwnIsOut(t) /\ ~OwnIsOut(t)'
        BY <1>2, <2>1 DEF OwnIsOut
      <4>2. event'[t] = f
        BY <1>2, <3>4
      <4>3. Stage(f) = "sent" /\ Owed(f) = {}
        BY <1>1, <3>4, <4>1 DEF StagesByPlace
      <4>4. Stage(f)' = "sent" /\ Owed(f)' = {}
        BY <1>1, <4>1, <4>2 DEF StagesByPlace
      <4> QED BY <4>3, <4>4
    <3>5. ASSUME NEW f \in Events \ {e} PROVE Stage(f)' = Stage(f) /\ Owed(f)' = Owed(f)
      BY <1>2, <3>1, <3>4, OthersKept
    <3> QED BY <3>2, <3>3, <3>5
  <2>2. CASE p[t] = NULL
    <3>1. event[t] = e /\ event'[t] = e /\ p'[t] = NULL /\ NULL \notin Events
      BY <1>2, <1>3, <2>2, EventFacts DEF Subject
    <3>2. OwnIsOut(t) /\ OwnIsOut(t)'
      BY <1>2, <2>2 DEF OwnIsOut, Posting
    <3>3. Stage(e) = "out" /\ Owed(e) = Ahead(t)
      BY <1>1, <3>1, <3>2 DEF StagesByPlace
    <3>4. Stage(e)' = "out" /\ Owed(e)' = Ahead(t)'
      BY <1>1, <3>1, <3>2 DEF StagesByPlace
    <3>5. ASSUME NEW f \in Events \ {e} PROVE Stage(f)' = Stage(f) /\ Owed(f)' = Owed(f)
      BY <1>2, <2>2, <3>1, OthersKept
    <3> QED BY <3>3, <3>4, <3>5
  <2> QED BY <2>1, <2>2
<1>8. CASE u = NoUi
  <2>1. NoUi \notin Listening
    BY <1>4, EventAssumption
  <2>2. Ahead(t) \subseteq Listening
    BY DEF Ahead
  <2>3. Ahead(t)' = Ahead(t)
    BY <1>6, <1>8, <2>1, <2>2
  <2>4. \A f \in Events : Stage(f)' = Stage(f) /\ Owed(f)' = Owed(f)
    BY <1>7, <2>3
  <2> QED BY <1>2, <1>8, <2>4, MailboxKept
<1>9. CASE u # NoUi
  <2>1. u \in Uis /\ u \in Ahead(t)
    <3>1. u \in Uis
      BY <1>2, <1>9
    <3>2. u \in Listening /\ slot[u] = slot[t]
      BY <1>2, <3>1 DEF Listening, Registered, u
    <3>3. slot[t] <= slot[u]
      BY <1>2, <3>2, EventFacts DEF Slots
    <3> QED BY <1>2, <3>1, <3>2, <3>3 DEF Ahead
  <2>2. Owed(e)' = Owed(e) \ {u} /\ u \in Owed(e)
    BY <1>6, <1>7, <2>1
  <2>3. received' = [received EXCEPT ![u] = Append(@, e)]
    BY <1>2, <1>3, <1>9
  <2>4. [f \in Events |-> Owed(f)]' = [[f \in Events |-> Owed(f)] EXCEPT ![e] = @ \ {u}]
    BY <1>7, <2>2, MailboxOwes
  <2>5. [f \in Events |-> Stage(f)]' = [f \in Events |-> Stage(f)]
    BY <1>7
  <2>6. Mailbox!Call(e, u)
    BY <1>4, <1>7, <2>2, <2>3, <2>4, <2>5 DEF Mailbox!Call
  <2> QED BY <2>1, <2>6
<1> QED BY <1>8, <1>9

LEMMA StageSame ==
  ASSUME NEW f \in Events, UNCHANGED <<sent, event, kmsg_queue>>,
         \A w \in Threads : Has(w, f)' <=> Has(w, f)
  PROVE  Stage(f)' = Stage(f)
BY DEF Stage, Has

LEMMA StageOut ==
  ASSUME NEW f \in Events, ~Unsent(f), NEW w \in Threads, Has(w, f)
  PROVE  Stage(f) = "out"
BY DEF Stage, Unsent, Has

\* A UI that comes is owed the events whose walk has not come to its slot; it has
\* got none before.
LEMMA MailboxListens ==
  ASSUME TypeOK, Hands, Ordered, Registered,
         \/ InitOutputCallbacks \/ EventNotifyInit
         \/ \E u \in Uis : RegisterOutputCallback(u) \/ SaveCallback(u)
  PROVE  Mailbox!Listen
<1>1. StagesByPlace
  BY Stages
<1>2. /\ UNCHANGED <<kmsg_queue, sent, received, event, p>>
      /\ \A w \in Workers : pc'[w] = pc[w] \/ (~Posting(w) /\ ~Posting(w)')
  BY RegisterSteps DEF Posting
<1>3. /\ \A w \in Workers : slot'[w] = slot[w]
      /\ \A v \in Listening : pc[v] = "registered" /\ slot'[v] = slot[v]
      /\ \A v \in Listening' \ Listening : received[v] = <<>> /\ slot'[v] = slot[v]
      /\ Listening' \subseteq Uis
  <2>1. \A v \in Listening : pc[v] = "registered" /\ v \in Uis /\ v \in Threads
    BY EventFacts DEF Listening, Registered
  <2>2. CASE InitOutputCallbacks
    <3>1. UNCHANGED slot /\ Listening' = {}
      BY <2>2, EventAssumption DEF InitOutputCallbacks, Listening
    <3> QED BY <2>1, <3>1
  <2>3. CASE EventNotifyInit
    <3>1. UNCHANGED slot /\ Listening' = Listening
      BY <2>3 DEF EventNotifyInit, Listening
    <3> QED BY <2>1, <3>1
  <2>4. ASSUME NEW u \in Uis, RegisterOutputCallback(u)
        PROVE  /\ \A w \in Threads \ {u} : slot'[w] = slot[w]
               /\ pc[u] = "idle" /\ Listening' = Listening
    BY <2>4 DEF RegisterOutputCallback, Listening, TypeOK
  <2>5. ASSUME NEW u \in Uis, SaveCallback(u)
        PROVE  /\ UNCHANGED slot
               /\ pc[u] = "save" /\ Listening' \subseteq Listening \cup {u}
    BY <2>5 DEF SaveCallback, Listening, TypeOK
  <2>6. \A w \in Workers : w \in Threads /\ w \notin Uis
    BY EventFacts DEF Workers
  <2>7. CASE \E u \in Uis : RegisterOutputCallback(u)
    <3>1. PICK u \in Uis : RegisterOutputCallback(u)
      BY <2>7
    <3>2. /\ \A w \in Threads \ {u} : slot'[w] = slot[w]
          /\ pc[u] = "idle" /\ Listening' = Listening
      BY <2>4, <3>1
    <3> QED BY <2>1, <2>6, <3>2
  <2>8. CASE \E u \in Uis : SaveCallback(u)
    <3>1. PICK u \in Uis : SaveCallback(u)
      BY <2>8
    <3>2. UNCHANGED slot /\ pc[u] = "save" /\ Listening' \subseteq Listening \cup {u}
      BY <2>5, <3>1
    <3>3. received[u] = <<>>
      BY <3>2 DEF Registered
    <3> QED BY <2>1, <3>2, <3>3
  <2> QED BY <2>2, <2>3, <2>7, <2>8
<1>4. \A f \in Events, w \in Threads : Has(w, f) => w \in Workers /\ (event[w] = f \/ p[w] = f)
  BY EventFacts DEF Has, Hands
<1>5. \A f \in Events, w \in Uis : event[w] # f /\ p[w] # f
  BY EventFacts DEF Hands
<1>6. \A f \in Events, w \in Threads : Has(w, f)' <=> Has(w, f)
  <2> SUFFICES ASSUME NEW f \in Events, NEW w \in Threads PROVE Has(w, f)' <=> Has(w, f)
    OBVIOUS
  <2>1. CASE w \in Workers
    BY <1>2, <2>1 DEF Has, Posting
  <2>2. CASE w \in Uis
    BY <1>2, <1>5, <2>2 DEF Has
  <2> QED BY <2>1, <2>2, EventFacts
<1>7. \A f \in Events : Stage(f)' = Stage(f)
  BY <1>2, <1>6, StageSame
<1>8. ASSUME NEW f \in Events
      PROVE  /\ Owed(f) \cap Listening' \subseteq Owed(f)'
             /\ Owed(f)' \subseteq Listening'
             /\ \A v \in Owed(f)' \ Owed(f) :
                  Stage(f) = "out" /\ v \notin Listening /\ \A i \in DOMAIN received[v] : received[v][i] # f
  <2>1. \A w \in Threads : Has(w, f) => /\ (pc'[w] # "posted" <=> pc[w] # "posted")
                                       /\ slot'[w] = slot[w]
    BY <1>2, <1>3, <1>4 DEF Posting
  <2>2. \A v : v \in Owed(f)' <=> /\ v \in Listening'
                                /\ \E w \in Threads : Has(w, f) /\ pc[w] # "posted" /\ slot[w] <= slot'[v]
    BY <1>6, <2>1 DEF Owed
  <2>3. \A v : v \in Owed(f) <=> /\ v \in Listening
                               /\ \E w \in Threads : Has(w, f) /\ pc[w] # "posted" /\ slot[w] <= slot[v]
    BY DEF Owed
  <2>4. (\E w \in Threads : Has(w, f)) => Stage(f) = "out"
    <3>1. ASSUME NEW w \in Threads, Has(w, f) PROVE ~Unsent(f)
      BY <1>1, <1>4, <3>1 DEF StagesByPlace
    <3> QED BY <3>1, StageOut
  <2>5. Owed(f) \cap Listening' \subseteq Owed(f)' /\ Owed(f)' \subseteq Listening'
    BY <1>3, <2>2, <2>3
  <2>6. ASSUME NEW v \in Owed(f)' \ Owed(f)
        PROVE  Stage(f) = "out" /\ v \notin Listening /\ \A i \in DOMAIN received[v] : received[v][i] # f
    <3>1. v \in Listening' /\ Stage(f) = "out"
      BY <2>2, <2>4, <2>6
    <3>2. v \notin Listening
      BY <1>3, <2>2, <2>3, <2>6
    <3>3. received[v] = <<>>
      BY <1>3, <3>1, <3>2
    <3> QED BY <3>1, <3>2, <3>3
  <2> QED BY <2>5, <2>6
<1>9. [f \in Events |-> Stage(f)]' = [f \in Events |-> Stage(f)]
  BY <1>7
<1>10. [f \in Events |-> Owed(f)]' \in [Events -> SUBSET Listening']
  BY <1>8
<1>11. ASSUME NEW f \in Events
       PROVE  /\ [e \in Events |-> Owed(e)][f] = Owed(f) /\ [e \in Events |-> Owed(e)]'[f] = Owed(f)'
              /\ [e \in Events |-> Stage(e)][f] = Stage(f)
  OBVIOUS
<1> DEFINE owed == [e \in Events |-> Owed(e)]
           stage == [e \in Events |-> Stage(e)]
<1>12. /\ Listening' \in SUBSET Uis
       /\ owed' \in [Events -> SUBSET Listening']
       /\ \A e \in Events :
            /\ owed[e] \cap Listening' \subseteq owed'[e]
            /\ \A u \in owed'[e] \ owed[e] :
                 /\ stage[e] = "out" /\ u \notin Listening
                 /\ \A i \in DOMAIN received[u] : received[u][i] # e
       /\ UNCHANGED <<stage, received>>
  BY <1>2, <1>3, <1>8, <1>9, <1>10, <1>11
<1> QED BY <1>12 DEF Mailbox!Listen

LEMMA MailboxStep ==
  ASSUME TypeOK, Hands, Ordered, Registered, TypeOK', Hands', Ordered', Registered', [Next]_vars
  PROVE  [Mailbox!Next]_(Mailbox!mailbox)
<1> USE DEF Mailbox!Next
<1>1. CASE \/ InitOutputCallbacks \/ EventNotifyInit
           \/ \E u \in Uis : RegisterOutputCallback(u) \/ SaveCallback(u)
  BY <1>1, MailboxListens
<1>2. ASSUME NEW t \in Posters, Notify(t) PROVE Mailbox!Next
  BY <1>2, MailboxSends
<1>3. ASSUME NEW t \in Workers, Control(t) PROVE Mailbox!Next \/ UNCHANGED Mailbox!mailbox
  BY <1>3, MailboxControl
<1>4. ASSUME NEW t \in Workers, Enqueue(t) PROVE Mailbox!Next
  BY <1>4, MailboxStores
<1>5. ASSUME NEW t \in Workers, Dequeue(t) PROVE Mailbox!Next \/ UNCHANGED Mailbox!mailbox
  BY <1>5, MailboxTakes
<1>6. ASSUME NEW t \in Workers, DisposeKmsg(t) \/ Return(t) PROVE Mailbox!Next
  BY <1>6, MailboxFinishes
<1>7. ASSUME NEW t \in Workers, PostUiEvent(t) PROVE UNCHANGED Mailbox!mailbox
  BY <1>7, MailboxPosts
<1>8. ASSUME NEW t \in Workers, NotifyCallbacks(t) PROVE Mailbox!Next \/ UNCHANGED Mailbox!mailbox
  BY <1>8, MailboxCalls
<1>9. CASE UNCHANGED vars
  <2>1. UNCHANGED <<saved_output_callbacks, received, sent, kmsg_queue, event, p, pc, slot>>
    BY <1>9 DEF vars, notifying, queueing
  <2>2. \A f \in Events : Stage(f)' = Stage(f) /\ Owed(f)' = Owed(f)
    BY <2>1 DEF Stage, Owed, Has, Listening
  <2> QED BY <2>1, <2>2, MailboxKept
<1> HIDE DEF Mailbox!Next
<1> QED BY <1>1, <1>2, <1>3, <1>4, <1>5, <1>6, <1>7, <1>8, <1>9 DEF Next, Step, Workers, Control

LEMMA InitMailbox == Init => Mailbox!Init
<1> SUFFICES ASSUME Init PROVE Mailbox!Init
  OBVIOUS
<1>1. Listening = {}
  BY EventAssumption DEF Init, Listening
<1>2. \A f \in Events : Owed(f) = {}
  BY <1>1 DEF Owed
<1>3. ASSUME NEW f \in Events PROVE Stage(f) = "new"
  <2>1. 0 < f.n
    BY EventNumbers
  <2>2. f.by \in Posters
    BY EventFacts
  <2>3. 0 < f.n /\ sent[f.by] = 0
    BY <2>1, <2>2 DEF Init
  <2> QED BY <2>3 DEF Stage, Has
<1>4. received = [u \in Uis |-> <<>>]
  BY DEF Init
<1> QED BY <1>1, <1>2, <1>3, <1>4 DEF Mailbox!Init

\* However the threads send, purge and register, the queue and the table together
\* are a mailbox: no event but a starved one is lost, a component's events come out
\* of the queue in the order of their sending, and a UI that is in the table from the time an
\* event comes out gets it once (1126-1135, 1176-1200, 1481-1491).
THEOREM MailboxRefined == Spec => ImplementsMailbox
<1> DEFINE IInv == TypeOK /\ Hands /\ Ordered /\ Registered
<1>1. Init => IInv /\ Mailbox!Init
  <2>1. Init => Registered
    BY EventFacts DEF Init, Registered
  <2> QED BY <2>1, InitTypes, InitOrdered, InitMailbox
<1>2. IInv /\ [Next]_vars => IInv'
  BY StepTypes, StepOrdered, StepRegistered
<1>3. IInv /\ IInv' /\ [Next]_vars => [Mailbox!Next]_(Mailbox!mailbox)
  BY MailboxStep
<1> HIDE DEF IInv
<1> QED BY <1>1, <1>2, <1>3, PTL DEF Spec, ImplementsMailbox, Mailbox!Spec
=============================================================================

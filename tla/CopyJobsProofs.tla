---------------------------- MODULE CopyJobsProofs ----------------------------
(***************************************************************************)
(* The copy component's books about the jobs of the machine, for every     *)
(* number of jobs, of originals and of copies.  The job manager starts the *)
(* jobs in order and ends them in any (JobsInOrder), copy_count is the     *)
(* number of jobs that have not taken their place back (Counted), and the  *)
(* two ids are as many as the started jobs (Followed); each holds until    *)
(* one of the anomalies that break it, which the history variable names.   *)
(* Of the page counter the whole sequence of displays of a job is proved   *)
(* (EveryPageIsCounted).                                                   *)
(***************************************************************************)
EXTENDS CopyJobs, FiniteSetTheorems, WellFoundedInduction, TLAPS

Phase(j) == jobs[j].phase

\* Jobs enter and start in the order of their ids.
JobsInOrder ==
  /\ \A j \in JobIds : Phase(j) = "none" => jobs[j] = NoJob
  /\ \A j, k \in JobIds : j < k =>
       /\ Phase(j) = "none" => Phase(k) = "none"
       /\ Phase(j) = "queued" => Phase(k) # "started"

\* A call that may count a job has seen room for it.
Labels ==
  /\ pc["ui"] \in {"idle", "start"} /\ pc["sjm"] \in {"idle", "done"}
  /\ pc["ui"] = "start" => seen["ui"] <= 1

\* The jobs that hold a place: those not done, and one whose end is being counted.
Places == Cardinality(Outstanding) + (IF pc["sjm"] = "done" THEN 1 ELSE 0)
Counted ==
  /\ "raced" \notin anomalies => copy_count <= Places
  /\ anomalies \cap {"raced", "uncounted"} = {} => copy_count = Places

\* There are as many ids as started jobs and one whose end is being counted; when no
\* job outlives a later one they are their ids.  An id is never that of a queued job.
Ids == (IF current_copy_job_id = 0 THEN 0 ELSE 1) + (IF pending_copy_job_id = 0 THEN 0 ELSE 1)
Ending == IF pc["sjm"] = "done" THEN 1 ELSE 0

\* Neither a third job has started nor one has ended that never started.
Regular == anomalies \cap {"overtaken", "unstarted"} = {}

KeptApart ==
  /\ current_copy_job_id = 0 => pending_copy_job_id = 0
  /\ current_copy_job_id # 0 => current_copy_job_id # pending_copy_job_id
  /\ \A j \in {current_copy_job_id, pending_copy_job_id} \ {0} :
       Phase(j) \in {"started", "done"}

Tracked ==
  /\ pc["sjm"] = "idle" =>
       /\ pending_copy_job_id # 0 =>
            pending_copy_job_id \in Started /\ \A j \in Started : j <= pending_copy_job_id
       /\ InOrder =>
            /\ Started = {current_copy_job_id, pending_copy_job_id} \ {0}
            /\ pending_copy_job_id # 0 => current_copy_job_id < pending_copy_job_id
  /\ pc["sjm"] = "done" => (InOrder => Started = {pending_copy_job_id} \ {0})

Followed ==
  /\ KeptApart
  /\ Ids <= Cardinality(Started) + Ending
  /\ Regular => Ids = Cardinality(Started) + Ending
  /\ Regular => Tracked
-----------------------------------------------------------------------------

(* Types.                                                                   *)

Counters == [page: Int, set: Nat, scans: Nat, total: Nat, collate: BOOLEAN]
Shown == [state: {"idle", "page-count", "canceling", "user-input"},
          page: Int, set: Nat, total: Nat]

\* What follows a number of pages is a number from 1 to size.
LEMMA WrapBounds ==
  ASSUME NEW n \in Nat, NEW size \in Nat \ {0}
  PROVE  Wrap(n, size) \in 1..size
<1>1. n % size \in 0..size - 1
  OBVIOUS
<1> QED BY <1>1 DEF Wrap

\* A job that is not finished has copies to make and originals to count.
LEMMA UnfinishedSizes ==
  ASSUME NEW c \in Counters, NEW pages \in Nat, ~Finished(c, pages)
  PROVE  c.total \in Nat \ {0} /\ Scans(c) \in Nat \ {0}
<1>1. c.total \in Nat /\ c.scans \in Nat
  BY DEF Counters
<1>2. Scans(c) \in Nat \ {0}
  BY <1>1 DEF Scans
<1>3. ASSUME c.total = 0 PROVE FALSE
  <2>1. c.total * Scans(c) = 0
    BY <1>2, <1>3
  <2> QED BY <2>1 DEF Finished
<1> QED BY <1>1, <1>2, <1>3

LEMMA CountPageType ==
  ASSUME NEW c \in Counters, NEW pages \in Nat, NEW id \in BOOLEAN
  PROVE  CountPage(c, pages, id) \in Counters /\ Display(c, pages, id) \in Shown
<1> DEFINE page == Wrap(pages + 1, Scans(c))
           set == Wrap(pages + 1, c.total)
<1>1. c.total \in Nat /\ c.scans \in Nat /\ Scans(c) \in Nat /\ c.page \in Int /\ c.set \in Nat
      /\ c.collate \in BOOLEAN
  BY DEF Counters, Scans
<1>2. CASE Finished(c, pages)
  <2>1. CountPage(c, pages, id) = [c EXCEPT !.scans = Scans(c)]
    BY <1>2 DEF CountPage
  <2>2. Display(c, pages, id) = Plain("idle")
    BY <1>2 DEF Display
  <2> QED BY <1>1, <2>1, <2>2 DEF Counters, Shown, Plain
<1>3. CASE ~Finished(c, pages)
  <2>1. page \in Nat /\ set \in Nat
    <3>1. Scans(c) \in Nat \ {0} /\ c.total \in Nat \ {0} /\ pages + 1 \in Nat
      BY <1>3, UnfinishedSizes
    <3>2. page \in 1..Scans(c) /\ set \in 1..c.total
      BY <3>1, WrapBounds
    <3> QED BY <3>1, <3>2
  <2> HIDE DEF page, set
  <2>2. CountPage(c, pages, id) =
          IF c.collate /\ ~id
            THEN [c EXCEPT !.scans = Scans(c), !.page = page,
                           !.set = IF page = 1 THEN @ + 1 ELSE @]
            ELSE [c EXCEPT !.scans = Scans(c), !.set = set,
                           !.page = IF id THEN 1 ELSE IF set = 1 THEN @ + 1 ELSE @]
    BY <1>3 DEF CountPage, page, set
  <2>3. CountPage(c, pages, id) \in Counters
    <3>1. CASE c.collate /\ ~id
      <4> DEFINE n == IF page = 1 THEN c.set + 1 ELSE c.set
      <4>1. n \in Nat
        BY <1>1
      <4>2. CountPage(c, pages, id) = [c EXCEPT !.scans = Scans(c), !.page = page, !.set = n]
        BY <2>2, <3>1
      <4> HIDE DEF n
      <4>3. CountPage(c, pages, id) = [page |-> page, set |-> n, scans |-> Scans(c),
                                       total |-> c.total, collate |-> c.collate]
        BY <4>2 DEF Counters
      <4> QED BY <1>1, <2>1, <4>1, <4>3 DEF Counters
    <3>2. CASE ~(c.collate /\ ~id)
      <4> DEFINE n == IF id THEN 1 ELSE IF set = 1 THEN c.page + 1 ELSE c.page
      <4>1. n \in Int
        BY <1>1
      <4>2. CountPage(c, pages, id) = [c EXCEPT !.scans = Scans(c), !.set = set, !.page = n]
        BY <2>2, <3>2
      <4> HIDE DEF n
      <4>3. CountPage(c, pages, id) = [page |-> n, set |-> set, scans |-> Scans(c),
                                       total |-> c.total, collate |-> c.collate]
        BY <4>2 DEF Counters
      <4> QED BY <1>1, <2>1, <4>1, <4>3 DEF Counters
    <3> QED BY <3>1, <3>2
  <2>4. Display(c, pages, id) \in Shown
    <3>1. Display(c, pages, id) =
            [state |-> "page-count", page |-> CountPage(c, pages, id).page,
             set |-> CountPage(c, pages, id).set, total |-> c.total]
      BY <1>3 DEF Display
    <3> QED BY <1>1, <2>3, <3>1 DEF Counters, Shown
  <2> QED BY <2>3, <2>4
<1> QED BY <1>2, <1>3

LEMMA UpdateType ==
  ASSUME NEW c \in Counters, NEW pages \in Nat, NEW id \in BOOLEAN,
         UpdateCopyPageNumber(c, pages, id)
  PROVE  count' \in Counters /\ shown' \in Shown
BY CountPageType DEF UpdateCopyPageNumber

\* What starting a job and answering a prompt do to the counters.
LEMMA CounterEdits ==
  ASSUME NEW c \in Counters
  PROVE  Initialized(c) \in Counters /\ [c EXCEPT !.collate = FALSE, !.page = @ - 1] \in Counters
<1>1. Initialized(c) \in Counters
  <2> DEFINE zero == 0
  <2>1. zero \in Nat /\ zero \in Int /\ Unscanned \in Nat
    BY CopyAssumption
  <2>2. Initialized(c) = [c EXCEPT !.scans = Unscanned, !.set = zero, !.page = zero]
    BY DEF Initialized
  <2> HIDE DEF zero
  <2> QED BY <2>1, <2>2 DEF Counters
<1>2. [c EXCEPT !.collate = FALSE, !.page = @ - 1] \in Counters
  <2> DEFINE m == c.page - 1
  <2>1. m \in Int
    BY DEF Counters
  <2>2. [c EXCEPT !.collate = FALSE, !.page = @ - 1] = [c EXCEPT !.collate = FALSE, !.page = m]
    OBVIOUS
  <2> HIDE DEF m
  <2> QED BY <2>1, <2>2 DEF Counters
<1> QED BY <1>1, <1>2

JobType == [phase: {"none", "queued", "started", "done"}, printed: Nat, end: Nat]

\* TypeOK without what a type of the display adds.
LEMMA TypeFacts ==
  ASSUME TypeOK
  PROVE  /\ count \in Counters /\ shown \in Shown
         /\ current_copy_job_id \in JobIds \cup {0} /\ pending_copy_job_id \in JobIds \cup {0}
         /\ copy_count \in 0..2
         /\ idcopy_active \in BOOLEAN /\ continuouscopy_active \in BOOLEAN
         /\ device_busy \in BOOLEAN /\ waiting_for_user_input \in BOOLEAN
         /\ device_canceling \in BOOLEAN
         /\ told \in {"idle", "device-busy", "copy-pending"}
         /\ jobs \in [JobIds -> JobType]
         /\ pc \in [Threads -> {"idle", "start", "done"}]
         /\ seen \in [Threads -> 0..2]
         /\ anomalies \subseteq Anomalies
         /\ "ui" \in Threads /\ "sjm" \in Threads
BY DEF TypeOK, Counters, Shown, JobType, Threads

\* The same facts of the next state make it well typed.
LEMMA TypeFromFacts ==
  ASSUME count' \in Counters, shown' \in Shown,
         current_copy_job_id' \in JobIds \cup {0}, pending_copy_job_id' \in JobIds \cup {0},
         copy_count' \in 0..2,
         idcopy_active' \in BOOLEAN, continuouscopy_active' \in BOOLEAN,
         device_busy' \in BOOLEAN, waiting_for_user_input' \in BOOLEAN,
         device_canceling' \in BOOLEAN,
         told' \in {"idle", "device-busy", "copy-pending"},
         jobs' \in [JobIds -> JobType],
         pc' \in [Threads -> {"idle", "start", "done"}],
         seen' \in [Threads -> 0..2],
         anomalies' \subseteq Anomalies
  PROVE  TypeOK'
BY DEF TypeOK, Counters, Shown, JobType

LEMMA InitTyped == Init => TypeOK
<1> SUFFICES ASSUME Init PROVE TypeOK
  OBVIOUS
<1>1. /\ count \in [page: Int, set: Nat, scans: Nat, total: Nat, collate: BOOLEAN]
      /\ shown \in [state: {"idle", "page-count", "canceling", "user-input"},
                    page: Int, set: Nat, total: Nat]
  BY DEF Init, Plain
<1>2. jobs \in [JobIds -> [phase: {"none", "queued", "started", "done"}, printed: Nat, end: Nat]]
  BY DEF Init, NoJob
<1>3. /\ pc \in [Threads -> {"idle", "start", "done"}] /\ seen \in [Threads -> 0..2]
      /\ anomalies \subseteq Anomalies
  BY DEF Init
<1>4. /\ current_copy_job_id = 0 /\ pending_copy_job_id = 0 /\ copy_count = 0 /\ told = "idle"
      /\ \A flag \in {idcopy_active, continuouscopy_active, device_busy, waiting_for_user_input,
                      device_canceling} : flag \in BOOLEAN
  BY DEF Init
<1> QED BY <1>1, <1>2, <1>3, <1>4 DEF TypeOK
-----------------------------------------------------------------------------

(* The jobs of the machine.                                                 *)

\* The oldest of some jobs.
LEMMA OldestIs ==
  ASSUME NEW S \in SUBSET JobIds, S # {}
  PROVE  Oldest(S) \in S /\ \A k \in S : Oldest(S) <= k
<1>1. JobIds \subseteq Nat
  BY DEF JobIds
<1>2. PICK j \in S : \A k \in S : <<k, j>> \notin OpToRel(<, Nat)
  BY <1>1, WFMin, NatLessThanWellFounded, Zenon
<1>3. \A k \in S : ~(k < j)
  BY <1>1, <1>2, Zenon DEF OpToRel
<1>4. \A k \in S : j <= k
  BY <1>1, <1>3
<1> QED BY <1>4 DEF Oldest

LEMMA JobsAreFinite ==
  IsFiniteSet(Outstanding) /\ Outstanding \in SUBSET JobIds /\ Started \in SUBSET JobIds
<1>1. IsFiniteSet(JobIds)
  BY CopyAssumption, FS_Interval DEF JobIds
<1> QED BY <1>1, FS_Subset DEF Outstanding, Started

\* A job is queued at the first free place.
Queues(j) ==
  /\ jobs[j] = NoJob
  /\ \A k \in JobIds : k < j => jobs[k] # NoJob
  /\ jobs' \in [JobIds -> JobType]
  /\ jobs'[j].phase = "queued"
  /\ \A k \in JobIds \ {j} : jobs'[k] = jobs[k]

LEMMA QueueFacts ==
  ASSUME TypeOK, NEW n \in Nat, Queue(n)
  PROVE  \E j \in JobIds : Queues(j)
<1>1. PICK j \in JobIds : /\ jobs[j] = NoJob
                          /\ \A k \in JobIds : k < j => jobs[k] # NoJob
                          /\ jobs' = [jobs EXCEPT ![j] = [NoJob EXCEPT !.phase = "queued", !.end = n]]
  BY DEF Queue
<1>2. /\ [NoJob EXCEPT !.phase = "queued", !.end = n] \in JobType
      /\ [NoJob EXCEPT !.phase = "queued", !.end = n].phase = "queued"
  BY DEF NoJob, JobType
<1>3. jobs \in [JobIds -> JobType]
  BY TypeFacts
<1> DEFINE new == [NoJob EXCEPT !.phase = "queued", !.end = n]
<1> HIDE DEF new
<1> QED BY <1>1, <1>2, <1>3 DEF Queues, new

LEMMA StartCopyFacts ==
  ASSUME TypeOK, NEW c \in Configs, StartCopy(c)
  PROVE  count' \in Counters /\ \E j \in JobIds : Queues(j)
<1>1. c.total \in Nat /\ c.collate \in BOOLEAN /\ \A n \in 1..MaxScans : c.total * n \in Nat
  <2>1. c.total \in Nat /\ c.collate \in BOOLEAN
    BY CopyAssumption DEF Configs
  <2>2. \A n \in 1..MaxScans : n \in Nat
    BY CopyAssumption
  <2>3. \A m, n \in Nat : m * n \in Nat
    OBVIOUS
  <2> QED BY <2>1, <2>2, <2>3
<1>2. count' \in Counters
  BY <1>1, TypeFacts DEF StartCopy, Counters
<1> QED BY <1>1, <1>2, QueueFacts DEF StartCopy

LEMMA DoneType ==
  [NoJob EXCEPT !.phase = "done"] \in JobType /\ [NoJob EXCEPT !.phase = "done"].phase = "done"
BY DEF NoJob, JobType

\* The oldest started job has printed a page.
LEMMA StartedFacts ==
  ASSUME TypeOK, Started # {}
  PROVE  /\ Oldest(Started) \in JobIds /\ jobs[Oldest(Started)] \in JobType
         /\ jobs[Oldest(Started)].phase = "started"
         /\ jobs[Oldest(Started)].printed + 1 \in Nat
         /\ \A k \in JobIds : Phase(k) = "started" => Oldest(Started) <= k
<1>1. Oldest(Started) \in Started /\ \A k \in Started : Oldest(Started) <= k
  BY OldestIs, JobsAreFinite
<1> QED BY <1>1, TypeFacts DEF Started, Phase, JobType

LEMMA StepTyped ==
  ASSUME TypeOK, Labels, [Next]_vars
  PROVE  TypeOK'
<1> USE TypeFacts
<1> USE DEF ids, flags, thread
<1>1. ASSUME StartJob PROVE TypeOK'
  BY <1>1, TypeFromFacts DEF StartJob
<1>2. ASSUME UserCancel PROVE TypeOK'
  BY <1>2, TypeFromFacts DEF UserCancel
<1>3. ASSUME UserAnswer PROVE TypeOK'
  <2>1. count' \in Counters /\ shown' \in Shown
    BY <1>3, CounterEdits, UpdateType DEF UserAnswer
  <2> QED BY <1>3, <2>1, TypeFromFacts DEF UserAnswer
<1>4. ASSUME StartContinuousCopy PROVE TypeOK'
  <2>1. count' \in Counters /\ shown' \in Shown
    BY <1>4 DEF StartContinuousCopy, Counters, Shown, Plain
  <2> QED BY <1>4, <2>1, TypeFromFacts DEF StartContinuousCopy
<1>5. ASSUME StopContinuousCopy PROVE TypeOK'
  BY <1>5, TypeFromFacts DEF StopContinuousCopy
<1>6. ASSUME NEW c \in Configs, StartJobCounted(c) PROVE TypeOK'
  <2>1. count' \in Counters /\ jobs' \in [JobIds -> JobType]
    BY <1>6, StartCopyFacts DEF StartJobCounted, Queues
  <2>2. anomalies' \subseteq Anomalies
    BY <1>6 DEF StartJobCounted, Raced, Anomalies
  <2>3. copy_count' \in 0..2 /\ seen' \in [Threads -> 0..2]
    BY <1>6 DEF StartJobCounted, Labels
  <2> QED BY <1>6, <2>1, <2>2, <2>3, TypeFromFacts DEF StartJobCounted
<1>7. ASSUME NEW c \in Configs, CopyIdJobStart(c) PROVE TypeOK'
  <2>1. count' \in Counters /\ jobs' \in [JobIds -> JobType]
    BY <1>7, StartCopyFacts DEF CopyIdJobStart, Queues
  <2>2. anomalies' \subseteq Anomalies
    BY <1>7 DEF CopyIdJobStart, Anomalies
  <2> QED BY <1>7, <2>1, <2>2, TypeFromFacts DEF CopyIdJobStart
<1>8. ASSUME NEW c \in Configs, SettingsSet(c) PROVE TypeOK'
  <2>1. count' \in Counters
    BY <1>8, CopyAssumption DEF SettingsSet, Configs, Counters
  <2> QED BY <1>8, <2>1, TypeFromFacts DEF SettingsSet
<1>9. ASSUME ContinuousCopy PROVE TypeOK'
  <2>1. jobs' \in [JobIds -> JobType]
    BY <1>9, QueueFacts DEF ContinuousCopy, Queues
  <2>2. anomalies' \subseteq Anomalies
    BY <1>9 DEF ContinuousCopy, Anomalies
  <2> QED BY <1>9, <2>1, <2>2, TypeFromFacts DEF ContinuousCopy
<1>10. ASSUME CopyJobStart PROVE TypeOK'
  <2>1. PICK j \in JobIds :
          /\ jobs' = [jobs EXCEPT ![j].phase = "started"]
          /\ IF current_copy_job_id = 0
               THEN /\ current_copy_job_id' = j
                    /\ UpdateCopyPageNumber(Initialized(count), 0, idcopy_active)
                    /\ UNCHANGED <<pending_copy_job_id, anomalies>>
               ELSE /\ pending_copy_job_id' = j
                    /\ anomalies' = IF pending_copy_job_id = 0 THEN anomalies
                                    ELSE anomalies \cup {"overtaken"}
                    /\ UNCHANGED <<current_copy_job_id, count, shown>>
    BY <1>10, JobsAreFinite DEF CopyJobStart
  <2>2. jobs' \in [JobIds -> JobType]
    BY <2>1 DEF JobType
  <2>3. Initialized(count) \in Counters
    BY CounterEdits
  <2>4. count' \in Counters /\ shown' \in Shown
    BY <2>1, <2>3, UpdateType
  <2>5. anomalies' \subseteq Anomalies
    BY <2>1 DEF Anomalies
  <2> QED BY <1>10, <2>1, <2>2, <2>4, <2>5, TypeFromFacts DEF CopyJobStart
<1>11. ASSUME NEW j \in JobIds, CopyJobDone(j) PROVE TypeOK'
  <2>1. jobs' \in [JobIds -> JobType]
    BY <1>11, DoneType DEF CopyJobDone
  <2>2. anomalies' \subseteq Anomalies
    BY <1>11 DEF CopyJobDone, Anomalies
  <2> QED BY <1>11, <2>1, <2>2, TypeFromFacts DEF CopyJobDone
<1>12. ASSUME CopyJobDoneCounted PROVE TypeOK'
  <2>1. Initialized(count) \in Counters
    BY CounterEdits
  <2>2. count' \in Counters /\ shown' \in Shown /\ idcopy_active' \in BOOLEAN
    <3>1. Plain("idle") \in Shown
      BY DEF Plain, Shown
    <3> QED BY <1>12, <2>1, <3>1, UpdateType DEF CopyJobDoneCounted
  <2>3. anomalies' \subseteq Anomalies
    BY <1>12 DEF CopyJobDoneCounted, Raced, Anomalies
  <2>4. copy_count' \in 0..2 /\ seen' \in [Threads -> 0..2]
    BY <1>12 DEF CopyJobDoneCounted, CountDone
  <2> QED BY <1>12, <2>2, <2>3, <2>4, TypeFromFacts DEF CopyJobDoneCounted, Promote
<1>13. ASSUME OtherJob PROVE TypeOK'
  BY <1>13, TypeFromFacts DEF OtherJob
<1>14. ASSUME CopyJobCancel PROVE TypeOK'
  BY <1>14, TypeFromFacts DEF CopyJobCancel
<1>15. ASSUME PageEnd PROVE TypeOK'
  <2> DEFINE j == Oldest(Started)
             n == jobs[j].printed + 1
  <2>1. /\ jobs' = [jobs EXCEPT ![j].printed = n]
        /\ IF device_canceling THEN UNCHANGED <<count, shown>>
           ELSE UpdateCopyPageNumber(count, n, idcopy_active)
    BY <1>15 DEF PageEnd
  <2>2. j \in JobIds /\ n \in Nat
    BY <1>15, StartedFacts DEF PageEnd
  <2> HIDE DEF j, n
  <2>3. jobs' \in [JobIds -> JobType]
    BY <2>1, <2>2 DEF JobType
  <2>4. count' \in Counters /\ shown' \in Shown
    BY <2>1, <2>2, UpdateType
  <2> QED BY <1>15, <2>3, <2>4, TypeFromFacts DEF PageEnd
<1>16. ASSUME CopyCancel PROVE TypeOK'
  <2>1. shown' \in Shown
    BY <1>16 DEF CopyCancel, Shown, Plain
  <2> QED BY <1>16, <2>1, TypeFromFacts DEF CopyCancel
<1>17. ASSUME CopyIdle PROVE TypeOK'
  <2>1. shown' \in Shown
    BY <1>17 DEF CopyIdle, Shown, Plain
  <2> QED BY <1>17, <2>1, TypeFromFacts DEF CopyIdle
<1>18. ASSUME WaitingForUserInput PROVE TypeOK'
  <2>1. shown' \in Shown
    BY <1>18 DEF WaitingForUserInput, Shown, Plain, Counters
  <2> QED BY <1>18, <2>1, TypeFromFacts DEF WaitingForUserInput
<1>19. ASSUME NEW n \in 1..MaxScans, Scanned(n) PROVE TypeOK'
  <2>1. count' \in Counters
    BY <1>19, CopyAssumption DEF Scanned, Counters
  <2> QED BY <1>19, <2>1, TypeFromFacts DEF Scanned
<1>20. CASE UNCHANGED vars
  BY <1>20, TypeFromFacts DEF vars
<1> QED
  BY <1>1, <1>2, <1>3, <1>4, <1>5, <1>6, <1>7, <1>8, <1>9, <1>10, <1>11, <1>12, <1>13, <1>14,
     <1>15, <1>16, <1>17, <1>18, <1>19, <1>20 DEF Next
-----------------------------------------------------------------------------

(* The kinds of steps, by what they do to the books.                        *)

\* Nothing but the display, the flags and the pages printed of a started job.
Quiet ==
  /\ UNCHANGED <<current_copy_job_id, pending_copy_job_id, copy_count, pc, seen, anomalies>>
  /\ \A j \in JobIds : \/ jobs'[j] = jobs[j]
                       \/ jobs[j].phase = "started" /\ jobs'[j].phase = "started"

\* A job is queued that copy_count does not count.
Uncounted ==
  /\ \E j \in JobIds : Queues(j)
  /\ anomalies' = anomalies \cup {"uncounted"}
  /\ UNCHANGED <<current_copy_job_id, pending_copy_job_id, copy_count, pc, seen>>

\* The user's job is queued and counted.
CountsIn ==
  /\ \E j \in JobIds : Queues(j)
  /\ pc["ui"] = "start" /\ pc' = [pc EXCEPT !["ui"] = "idle"]
  /\ copy_count' = seen["ui"] + 1
  /\ Raced("ui")
  /\ UNCHANGED <<current_copy_job_id, pending_copy_job_id>>

\* The user's job is let in, to be counted next.
LetIn ==
  /\ pc["ui"] = "idle" /\ pc' = [pc EXCEPT !["ui"] = "start"]
  /\ copy_count <= 1 /\ seen'["ui"] = copy_count
  /\ UNCHANGED <<current_copy_job_id, pending_copy_job_id, copy_count, jobs, anomalies>>

\* Job j starts; it becomes the current or the pending one.
Starts(j) ==
  /\ pc["sjm"] = "idle" /\ UNCHANGED <<copy_count, pc, seen>>
  /\ j \in Outstanding \ Started
  /\ \A k \in Outstanding \ Started : j <= k
  /\ jobs'[j] \in JobType /\ jobs'[j].phase = "started"
  /\ \A k \in JobIds \ {j} : jobs'[k] = jobs[k]
  /\ IF current_copy_job_id = 0
       THEN current_copy_job_id' = j /\ UNCHANGED <<pending_copy_job_id, anomalies>>
       ELSE /\ pending_copy_job_id' = j /\ UNCHANGED current_copy_job_id
            /\ anomalies' = IF pending_copy_job_id = 0 THEN anomalies
                            ELSE anomalies \cup {"overtaken"}

\* Job j is done, started or not.
Ends(j) ==
  /\ pc["sjm"] = "idle" /\ pc' = [pc EXCEPT !["sjm"] = "done"]
  /\ j \in Outstanding
  /\ anomalies' = IF j \in Started THEN anomalies ELSE anomalies \cup {"unstarted"}
  /\ jobs'[j] \in JobType /\ jobs'[j].phase = "done"
  /\ \A k \in JobIds \ {j} : jobs'[k] = jobs[k]
  /\ seen'["ui"] = seen["ui"]
  /\ UNCHANGED <<current_copy_job_id, pending_copy_job_id, copy_count>>

\* Its place is taken back and the pending job moves up.
CountsOut ==
  /\ pc["sjm"] = "done" /\ pc' = [pc EXCEPT !["sjm"] = "idle"]
  /\ CountDone /\ Raced("sjm") /\ Promote
  /\ seen'["ui"] = seen["ui"]
  /\ UNCHANGED jobs

LEMMA StepKinds ==
  ASSUME TypeOK, [Next]_vars
  PROVE  \/ Quiet \/ Uncounted \/ CountsIn \/ LetIn \/ CountsOut
         \/ \E j \in JobIds : Starts(j) \/ Ends(j)
<1>1. DOMAIN jobs = JobIds /\ jobs \in [JobIds -> JobType] /\ DOMAIN seen = Threads
      /\ "ui" \in Threads /\ "sjm" \in Threads
  BY TypeFacts
<1> USE DEF ids, flags, thread
<1>2. ASSUME StartJob PROVE Quiet \/ LetIn
  BY <1>1, <1>2 DEF StartJob, Room, Quiet, LetIn
<1>3. ASSUME UserCancel \/ UserAnswer \/ StartContinuousCopy \/ StopContinuousCopy
             \/ OtherJob \/ CopyJobCancel \/ CopyCancel \/ CopyIdle \/ WaitingForUserInput
             \/ UNCHANGED vars
      PROVE  Quiet
  BY <1>3 DEF UserCancel, UserAnswer, StartContinuousCopy, StopContinuousCopy, OtherJob,
    CopyJobCancel, CopyCancel, CopyIdle, WaitingForUserInput, vars, Quiet
<1>4. ASSUME NEW n \in 1..MaxScans, Scanned(n) PROVE Quiet
  BY <1>4 DEF Scanned, Quiet
<1>5. ASSUME NEW c \in Configs, SettingsSet(c) PROVE Quiet
  BY <1>5 DEF SettingsSet, Quiet
<1>6. ASSUME NEW c \in Configs, StartJobCounted(c) PROVE CountsIn
  <2>1. \E j \in JobIds : Queues(j)
    BY <1>6, StartCopyFacts DEF StartJobCounted
  <2> QED BY <1>6, <2>1 DEF StartJobCounted, CountsIn
<1>7. ASSUME NEW c \in Configs, CopyIdJobStart(c) PROVE Quiet \/ Uncounted
  <2>1. CASE device_busy \/ copy_count > 0
    BY <1>7, <2>1 DEF CopyIdJobStart, Quiet
  <2>2. CASE ~(device_busy \/ copy_count > 0)
    <3>1. \E j \in JobIds : Queues(j)
      BY <1>7, <2>2, StartCopyFacts DEF CopyIdJobStart
    <3> QED BY <1>7, <2>2, <3>1 DEF CopyIdJobStart, Uncounted
  <2> QED BY <2>1, <2>2
<1>8. ASSUME ContinuousCopy PROVE Uncounted
  <2>1. \E j \in JobIds : Queues(j)
    BY <1>8, QueueFacts DEF ContinuousCopy
  <2> QED BY <1>8, <2>1 DEF ContinuousCopy, Uncounted
<1>9. ASSUME CopyJobStart PROVE \E j \in JobIds : Starts(j)
  <2>1. PICK j \in Outstanding \ Started :
          /\ j = Oldest(Outstanding \ Started)
          /\ jobs' = [jobs EXCEPT ![j].phase = "started"]
          /\ IF current_copy_job_id = 0
               THEN /\ current_copy_job_id' = j
                    /\ UNCHANGED <<pending_copy_job_id, anomalies>>
               ELSE /\ pending_copy_job_id' = j
                    /\ anomalies' = IF pending_copy_job_id = 0 THEN anomalies
                                    ELSE anomalies \cup {"overtaken"}
                    /\ UNCHANGED current_copy_job_id
    BY <1>9 DEF CopyJobStart
  <2>2. j \in JobIds /\ \A k \in Outstanding \ Started : j <= k
    BY <2>1, OldestIs, JobsAreFinite
  <2>3. /\ jobs'[j] \in JobType /\ jobs'[j].phase = "started"
        /\ \A k \in JobIds \ {j} : jobs'[k] = jobs[k]
    BY <1>1, <2>1, <2>2 DEF JobType
  <2> QED BY <1>9, <2>1, <2>2, <2>3 DEF CopyJobStart, Starts
<1>10. ASSUME NEW j \in JobIds, CopyJobDone(j) PROVE Ends(j)
  <2>1. jobs'[j] \in JobType /\ jobs'[j].phase = "done" /\ \A k \in JobIds \ {j} : jobs'[k] = jobs[k]
    <3> DEFINE new == [NoJob EXCEPT !.phase = "done"]
    <3>1. new \in JobType /\ new.phase = "done" /\ jobs' = [jobs EXCEPT ![j] = new]
      BY <1>10, DoneType DEF CopyJobDone
    <3> HIDE DEF new
    <3> QED BY <1>1, <3>1
  <2> QED BY <1>1, <1>10, <2>1 DEF CopyJobDone, Ends
<1>11. ASSUME CopyJobDoneCounted PROVE CountsOut
  BY <1>1, <1>11 DEF CopyJobDoneCounted, CountsOut
<1>12. ASSUME PageEnd PROVE Quiet
  <2> DEFINE j == Oldest(Started)
             n == jobs[j].printed + 1
  <2>1. /\ jobs' = [jobs EXCEPT ![j].printed = n]
        /\ UNCHANGED <<current_copy_job_id, pending_copy_job_id, copy_count, pc, seen, anomalies>>
    BY <1>12 DEF PageEnd
  <2>2. j \in JobIds /\ jobs[j] \in JobType /\ jobs[j].phase = "started"
    BY <1>12, StartedFacts DEF PageEnd
  <2> HIDE DEF j, n
  <2>3. jobs'[j].phase = "started" /\ \A k \in JobIds \ {j} : jobs'[k] = jobs[k]
    BY <1>1, <2>1, <2>2 DEF JobType
  <2> QED BY <2>1, <2>2, <2>3 DEF Quiet, Phase
<1> QED
  BY <1>2, <1>3, <1>4, <1>5, <1>6, <1>7, <1>8, <1>9, <1>10, <1>11, <1>12 DEF Next
-----------------------------------------------------------------------------
(* The invariants, each with what it needs of the others.                   *)

LEMMA InitBooks == Init => JobsInOrder /\ Labels /\ Counted /\ Followed
<1> SUFFICES ASSUME Init PROVE JobsInOrder /\ Labels /\ Counted /\ Followed
  OBVIOUS
<1>1. /\ \A j \in JobIds : jobs[j] = NoJob /\ Phase(j) = "none"
      /\ pc["ui"] = "idle" /\ pc["sjm"] = "idle"
  BY DEF Init, NoJob, Phase, Threads
<1>2. JobsInOrder /\ Labels
  BY <1>1 DEF JobsInOrder, Labels
<1>3. Outstanding = {} /\ Started = {}
  BY <1>1 DEF Outstanding, Started, Phase
<1>4. Counted /\ Followed
  <2>1. Cardinality(Outstanding) = 0 /\ Cardinality(Started) = 0
    BY <1>3, FS_EmptySet
  <2>2. /\ copy_count = 0 /\ current_copy_job_id = 0 /\ pending_copy_job_id = 0
        /\ {current_copy_job_id, pending_copy_job_id} \ {0} = {}
    BY DEF Init
  <2>3. Counted
    BY <1>1, <2>1, <2>2 DEF Counted, Places
  <2>4. KeptApart /\ Tracked
    BY <1>1, <1>3, <2>2 DEF KeptApart, Tracked
  <2>5. Ids = 0 /\ Ending = 0
    BY <1>1, <2>2 DEF Ids, Ending
  <2> QED BY <2>1, <2>3, <2>4, <2>5 DEF Followed
<1> QED BY <1>2, <1>4

LEMMA StepLabels ==
  ASSUME TypeOK, Labels, [Next]_vars
  PROVE  Labels'
<1> USE TypeFacts DEF Labels
<1>1. CASE Quiet \/ Uncounted
  BY <1>1 DEF Quiet, Uncounted
<1>2. CASE CountsIn
  BY <1>2 DEF CountsIn
<1>3. CASE LetIn
  BY <1>3 DEF LetIn
<1>4. CASE CountsOut
  BY <1>4 DEF CountsOut
<1>5. ASSUME NEW j \in JobIds, Starts(j) \/ Ends(j) PROVE Labels'
  BY <1>5 DEF Starts, Ends
<1> QED BY <1>1, <1>2, <1>3, <1>4, <1>5, StepKinds

\* How the phases of two jobs are related.
LEMMA StepInOrder ==
  ASSUME TypeOK, JobsInOrder, [Next]_vars
  PROVE  JobsInOrder'
<1>1. jobs \in [JobIds -> JobType] /\ JobIds \subseteq Nat
  BY TypeFacts DEF JobIds
<1>2. \A j \in JobIds : jobs[j].phase \in {"none", "queued", "started", "done"}
  BY <1>1 DEF JobType
<1>3. NoJob.phase = "none"
  BY DEF NoJob
<1>4. CASE Quiet
  BY <1>1, <1>4 DEF Quiet, JobsInOrder, Phase
<1>5. ASSUME NEW j \in JobIds, Queues(j) PROVE JobsInOrder'
  BY <1>1, <1>2, <1>3, <1>5 DEF Queues, JobsInOrder, Phase
<1>6. ASSUME NEW j \in JobIds, Starts(j) PROVE JobsInOrder'
  <2>1. Phase(j) = "queued"
    BY <1>6 DEF Starts, Outstanding, Started, Phase
  <2>2. \A k \in JobIds : Phase(k) = "queued" => j <= k
    BY <1>6 DEF Starts, Outstanding, Started, Phase
  <2>3. Phase(j)' = "started" /\ \A k \in JobIds \ {j} : jobs'[k] = jobs[k]
    BY <1>6 DEF Starts, Phase
  <2>4. ASSUME NEW k \in JobIds PROVE Phase(k)' = (IF k = j THEN "started" ELSE Phase(k))
    BY <2>3 DEF Phase
  <2>5. \A k \in JobIds : Phase(k)' = "none" => jobs'[k] = NoJob
    BY <2>3, <2>4 DEF JobsInOrder
  <2>6. ASSUME NEW k \in JobIds, NEW l \in JobIds, k < l
        PROVE  /\ Phase(k)' = "none" => Phase(l)' = "none"
               /\ Phase(k)' = "queued" => Phase(l)' # "started"
    <3>1. /\ Phase(k) = "none" => Phase(l) = "none"
          /\ Phase(k) = "queued" => Phase(l) # "started"
      BY <2>6 DEF JobsInOrder
    <3>2. Phase(k)' = (IF k = j THEN "started" ELSE Phase(k)) /\ Phase(l)' = (IF l = j THEN "started" ELSE Phase(l))
      BY <2>4
    <3>3. k # l
      BY <1>1, <2>6
    <3>4. CASE k = j
      BY <2>1, <3>1, <3>2, <3>3, <3>4
    <3>5. CASE l = j
      <4>1. Phase(k) # "none" /\ ~(Phase(k) = "queued" /\ k < j)
        <5>1. ASSUME Phase(k) = "queued" PROVE FALSE
          BY <1>1, <2>2, <2>6, <3>5, <5>1
        <5> QED BY <2>1, <3>1, <3>5, <5>1
      <4> QED BY <2>6, <3>2, <3>3, <3>5, <4>1
    <3>6. CASE k # j /\ l # j
      BY <3>1, <3>2, <3>6
    <3> QED BY <3>4, <3>5, <3>6
  <2> QED BY <2>5, <2>6 DEF JobsInOrder
<1>7. ASSUME NEW j \in JobIds, Ends(j) PROVE JobsInOrder'
  <2>1. Phase(j) \in {"queued", "started"}
    BY <1>7 DEF Ends, Outstanding, Phase
  <2>2. Phase(j)' = "done" /\ \A k \in JobIds \ {j} : jobs'[k] = jobs[k]
    BY <1>7 DEF Ends, Phase
  <2> QED BY <1>1, <1>2, <2>1, <2>2 DEF JobsInOrder, Phase
<1>8. CASE LetIn \/ CountsOut
  BY <1>8 DEF LetIn, CountsOut, JobsInOrder, Phase
<1> QED BY <1>4, <1>5, <1>6, <1>7, <1>8, StepKinds DEF Uncounted, CountsIn

\* What each kind of step does to the outstanding and the started jobs.
LEMMA StepSets ==
  ASSUME TypeOK
  PROVE  /\ Quiet => Outstanding' = Outstanding /\ Started' = Started
         /\ \A j \in JobIds : Queues(j) =>
              j \notin Outstanding /\ Outstanding' = Outstanding \cup {j} /\ Started' = Started
         /\ \A j \in JobIds : Starts(j) =>
              /\ j \in Outstanding /\ j \notin Started
              /\ Outstanding' = Outstanding /\ Started' = Started \cup {j}
         /\ \A j \in JobIds : Ends(j) =>
              j \in Outstanding /\ Outstanding' = Outstanding \ {j} /\ Started' = Started \ {j}
         /\ UNCHANGED jobs => Outstanding' = Outstanding /\ Started' = Started
<1>1. NoJob.phase = "none"
  BY DEF NoJob
<1>2. Quiet => Outstanding' = Outstanding /\ Started' = Started
  BY DEF Quiet, Outstanding, Started
<1>3. ASSUME NEW j \in JobIds, Queues(j)
      PROVE  j \notin Outstanding /\ Outstanding' = Outstanding \cup {j} /\ Started' = Started
  BY <1>1, <1>3 DEF Queues, Outstanding, Started
<1>4. ASSUME NEW j \in JobIds, Starts(j)
      PROVE  /\ j \in Outstanding /\ j \notin Started
             /\ Outstanding' = Outstanding /\ Started' = Started \cup {j}
  BY <1>4 DEF Starts, Outstanding, Started
<1>5. ASSUME NEW j \in JobIds, Ends(j)
      PROVE  j \in Outstanding /\ Outstanding' = Outstanding \ {j} /\ Started' = Started \ {j}
  BY <1>5 DEF Ends, Outstanding, Started
<1>6. UNCHANGED jobs => Outstanding' = Outstanding /\ Started' = Started
  BY DEF Outstanding, Started
<1> QED BY <1>2, <1>3, <1>4, <1>5, <1>6

\* Every job that enters is counted once and counted out once, if nothing races.
LEMMA StepCounted ==
  ASSUME TypeOK, Labels, Counted, [Next]_vars
  PROVE  Counted'
<1>1. /\ IsFiniteSet(Outstanding) /\ Cardinality(Outstanding) \in Nat
      /\ copy_count \in Nat /\ DOMAIN pc = Threads /\ DOMAIN seen = Threads
      /\ seen["ui"] \in Nat /\ seen["sjm"] \in Nat /\ "ui" \in Threads /\ "sjm" \in Threads
      /\ pc["sjm"] \in {"idle", "done"}
  BY JobsAreFinite, FS_CardinalityType, TypeFacts DEF Labels
<1>2. \A j : /\ j \notin Outstanding =>
                  Cardinality(Outstanding \cup {j}) = Cardinality(Outstanding) + 1
             /\ j \in Outstanding =>
                  Cardinality(Outstanding \ {j}) = Cardinality(Outstanding) - 1
  BY <1>1, FS_AddElement, FS_RemoveElement
<1>3. CASE Quiet \/ LetIn
  <2>1. Outstanding' = Outstanding /\ pc'["sjm"] = pc["sjm"]
        /\ UNCHANGED <<copy_count, anomalies>>
    BY <1>1, <1>3, StepSets DEF Quiet, LetIn
  <2> QED BY <2>1 DEF Counted, Places
<1>4. CASE Uncounted
  <2>1. /\ Cardinality(Outstanding') = Cardinality(Outstanding) + 1
        /\ UNCHANGED <<copy_count, pc>> /\ anomalies' = anomalies \cup {"uncounted"}
    BY <1>2, <1>4, StepSets DEF Uncounted
  <2> QED BY <1>1, <2>1 DEF Counted, Places
<1>5. CASE CountsIn
  <2>1. /\ Cardinality(Outstanding') = Cardinality(Outstanding) + 1
        /\ pc'["sjm"] = pc["sjm"] /\ copy_count' = seen["ui"] + 1
        /\ anomalies' = IF copy_count = seen["ui"] THEN anomalies ELSE anomalies \cup {"raced"}
    BY <1>1, <1>2, <1>5, StepSets DEF CountsIn, Raced
  <2>2. CASE copy_count = seen["ui"]
    BY <1>1, <2>1, <2>2 DEF Counted, Places
  <2>3. CASE copy_count # seen["ui"]
    BY <2>1, <2>3 DEF Counted
  <2> QED BY <2>2, <2>3
<1>6. CASE CountsOut
  <2>1. /\ Outstanding' = Outstanding /\ pc["sjm"] = "done" /\ pc'["sjm"] = "idle"
        /\ copy_count' = IF seen["sjm"] > 0 THEN seen["sjm"] - 1 ELSE copy_count
        /\ anomalies' = IF copy_count = seen["sjm"] THEN anomalies ELSE anomalies \cup {"raced"}
    BY <1>1, <1>6, StepSets DEF CountsOut, CountDone, Raced
  <2>2. CASE copy_count = seen["sjm"]
    BY <1>1, <2>1, <2>2 DEF Counted, Places
  <2>3. CASE copy_count # seen["sjm"]
    BY <2>1, <2>3 DEF Counted
  <2> QED BY <2>2, <2>3
<1>7. ASSUME NEW j \in JobIds, Starts(j) PROVE Counted'
  <2>1. /\ Outstanding' = Outstanding /\ UNCHANGED <<copy_count, pc>>
        /\ anomalies' \in {anomalies, anomalies \cup {"overtaken"}}
    BY <1>7, StepSets DEF Starts
  <2> QED BY <2>1 DEF Counted, Places
<1>8. ASSUME NEW j \in JobIds, Ends(j) PROVE Counted'
  <2>1. /\ Cardinality(Outstanding') = Cardinality(Outstanding) - 1
        /\ pc["sjm"] = "idle" /\ pc'["sjm"] = "done" /\ UNCHANGED copy_count
        /\ anomalies' \in {anomalies, anomalies \cup {"unstarted"}}
    BY <1>1, <1>2, <1>8, StepSets DEF Ends
  <2> QED BY <1>1, <2>1 DEF Counted, Places
<1> QED BY <1>3, <1>4, <1>5, <1>6, <1>7, <1>8, StepKinds

\* What the steps that start and end no job leave of this.
LEMMA QuietlyFollowed ==
  ASSUME TypeOK, Followed, Started' = Started,
         UNCHANGED <<current_copy_job_id, pending_copy_job_id>>,
         pc'["sjm"] = pc["sjm"], Regular' => Regular,
         \A j \in JobIds :
           /\ jobs[j].phase \in {"started", "done"} => jobs'[j].phase = jobs[j].phase
           /\ jobs'[j].phase = "done" => jobs[j].phase = "done"
  PROVE  Followed'
<1>1. current_copy_job_id \in JobIds \cup {0} /\ pending_copy_job_id \in JobIds \cup {0}
  BY TypeFacts
<1>2. Ids' = Ids /\ Ending' = Ending
  BY DEF Ids, Ending
<1>3. KeptApart'
  <2>1. ASSUME NEW j \in {current_copy_job_id, pending_copy_job_id} \ {0}
        PROVE  Phase(j)' \in {"started", "done"}
    <3>1. j \in JobIds /\ Phase(j) \in {"started", "done"}
      BY <1>1 DEF Followed, KeptApart
    <3>2. jobs'[j].phase = jobs[j].phase
      BY <3>1 DEF Phase
    <3> QED BY <3>1, <3>2 DEF Phase
  <2>2. \A j \in {current_copy_job_id', pending_copy_job_id'} \ {0} : Phase(j)' \in {"started", "done"}
    BY <2>1
  <2> QED BY <2>2 DEF Followed, KeptApart
<1>4. ASSUME InOrder' PROVE InOrder
  <2>1. ASSUME NEW k \in JobIds, jobs[k].phase = "done" PROVE jobs'[k].phase = "done"
    BY <2>1
  <2> QED BY <1>4, <2>1 DEF InOrder
<1>5. Tracked => Tracked'
  BY <1>4 DEF Tracked
<1> QED BY <1>2, <1>3, <1>5 DEF Followed

\* The numbers of the started jobs.
LEMMA StartedNumber ==
  /\ IsFiniteSet(Started) /\ Cardinality(Started) \in Nat
  /\ \A j : /\ j \notin Started => Cardinality(Started \cup {j}) = Cardinality(Started) + 1
            /\ j \in Started => Cardinality(Started \ {j}) = Cardinality(Started) - 1
<1>1. IsFiniteSet(Started)
  <2>1. Started \subseteq Outstanding
    BY DEF Started, Outstanding
  <2> QED BY <2>1, JobsAreFinite, FS_Subset
<1> QED BY <1>1, FS_CardinalityType, FS_AddElement, FS_RemoveElement

LEMMA StepStarts ==
  ASSUME TypeOK, JobsInOrder, Followed, NEW j \in JobIds, Starts(j)
  PROVE  Followed'
<1> DEFINE cur == current_copy_job_id
           pen == pending_copy_job_id
<1>1. /\ JobIds \subseteq Nat \ {0} /\ Started \subseteq JobIds
      /\ cur \in JobIds \cup {0} /\ pen \in JobIds \cup {0}
  BY TypeFacts, JobsAreFinite DEF JobIds
<1>2. /\ Started' = Started \cup {j} /\ j \notin Started /\ pc["sjm"] = "idle" /\ pc' = pc
      /\ Phase(j) = "queued" /\ Phase(j)' = "started"
      /\ \A k \in JobIds \ {j} : Phase(k)' = Phase(k)
  BY StepSets DEF Starts, Outstanding, Started, Phase
<1>3. \A k \in Started : k < j
  BY <1>1, <1>2 DEF JobsInOrder, Started, Phase
<1>4. Cardinality(Started') = Cardinality(Started) + 1 /\ Cardinality(Started) \in Nat
  BY <1>2, StartedNumber
<1>5. cur # j /\ pen # j
  BY <1>1, <1>2 DEF Followed, KeptApart
<1>6. InOrder' => InOrder
  BY <1>1, <1>2 DEF InOrder, Phase
<1>7. Ending = 0 /\ Ending' = 0
  BY <1>2 DEF Ending
<1>8. CASE cur = 0
  <2>1. pen = 0 /\ cur' = j /\ pen' = 0 /\ (Regular' => Regular)
    BY <1>8 DEF Starts, Followed, KeptApart, Regular
  <2>2. Ids = 0 /\ Ids' = 1
    BY <1>1, <1>8, <2>1 DEF Ids
  <2>3. KeptApart'
    BY <1>1, <1>2, <2>1 DEF KeptApart
  <2>4. Regular => Cardinality(Started) = 0
    BY <1>4, <1>7, <2>2 DEF Followed
  <2>5. Regular => Started = {}
    BY <2>4, StartedNumber, FS_EmptySet
  <2>6. Regular' => Tracked'
    <3>1. Regular' => Started' = {cur', pen'} \ {0}
      BY <1>1, <1>2, <2>1, <2>5
    <3> QED BY <1>2, <2>1, <3>1 DEF Tracked
  <2>7. Ids <= Cardinality(Started) /\ (Regular => Ids = Cardinality(Started))
    BY <1>4, <1>7 DEF Followed
  <2>8. /\ Ids' <= Cardinality(Started') + Ending'
        /\ Regular' => Ids' = Cardinality(Started') + Ending'
    BY <1>4, <1>7, <2>1, <2>2, <2>7
  <2> QED BY <2>3, <2>6, <2>8 DEF Followed
<1>9. CASE cur # 0
  <2>1. /\ cur' = cur /\ pen' = j
        /\ Regular' => pen = 0 /\ Regular
    BY <1>9 DEF Starts, Regular
  <2>2. Ids' = 2 /\ Ids \in {1, 2} /\ (pen = 0 => Ids = 1)
    BY <1>1, <1>9, <2>1 DEF Ids
  <2>3. KeptApart'
    <3>1. cur' # 0 /\ cur' # pen'
      BY <1>5, <1>9, <2>1
    <3>2. ASSUME NEW k \in {cur, j} PROVE Phase(k)' \in {"started", "done"}
      <4>1. CASE k = j
        BY <1>2, <4>1
      <4>2. CASE k # j
        <5>1. k = cur /\ k \in JobIds \ {j} /\ Phase(k) \in {"started", "done"}
          BY <1>1, <1>9, <4>2 DEF Followed, KeptApart
        <5> QED BY <1>2, <5>1
      <4> QED BY <4>1, <4>2
    <3>3. \A k \in {cur', pen'} \ {0} : Phase(k)' \in {"started", "done"}
      BY <2>1, <3>2
    <3> QED BY <3>1, <3>3 DEF KeptApart
  <2>4. ASSUME Regular' PROVE Tracked'
    <3>1. pen = 0 /\ Tracked
      BY <2>1, <2>4 DEF Followed
    <3>2. pen' \in Started' /\ \A k \in Started' : k <= pen'
      BY <1>1, <1>2, <1>3, <2>1
    <3>3. ASSUME InOrder' PROVE Started' = {cur', pen'} \ {0} /\ cur' < pen'
      <4>1. Started = {cur, pen} \ {0}
        BY <1>2, <1>6, <3>1, <3>3 DEF Tracked
      <4>2. Started = {cur}
        BY <1>9, <3>1, <4>1
      <4> QED BY <1>1, <1>2, <1>3, <2>1, <4>2
    <3>4. pc'["sjm"] = "idle"
      BY <1>2
    <3> QED BY <3>2, <3>3, <3>4 DEF Tracked
  <2>5. Ids <= Cardinality(Started) /\ (Regular => Ids = Cardinality(Started))
    BY <1>4, <1>7 DEF Followed
  <2>6. /\ Ids' <= Cardinality(Started') + Ending'
        /\ Regular' => Ids' = Cardinality(Started') + Ending'
    BY <1>4, <1>7, <2>1, <2>2, <2>5
  <2> QED BY <2>3, <2>4, <2>6 DEF Followed
<1> QED BY <1>8, <1>9

\* The end of a job that a later one has outlived, or of the current one, leaves the
\* pending one, if any; that of a later job than another started one leaves them out of order.
LEMMA StepEnds ==
  ASSUME TypeOK, Followed, NEW j \in JobIds, Ends(j)
  PROVE  Followed'
<1> DEFINE cur == current_copy_job_id
           pen == pending_copy_job_id
<1>1. /\ JobIds \subseteq Nat \ {0} /\ Started \subseteq JobIds
      /\ cur \in JobIds \cup {0} /\ pen \in JobIds \cup {0} /\ cur' = cur /\ pen' = pen
      /\ DOMAIN pc = Threads /\ "sjm" \in Threads
  BY TypeFacts, JobsAreFinite DEF JobIds, Ends
<1>2. /\ Started' = Started \ {j} /\ pc["sjm"] = "idle" /\ pc'["sjm"] = "done"
      /\ Phase(j)' = "done" /\ \A k \in JobIds \ {j} : Phase(k)' = Phase(k)
  BY <1>1, StepSets DEF Ends, Phase
<1>3. /\ Cardinality(Started) \in Nat /\ Cardinality(Started') \in Nat
      /\ Cardinality(Started) <= Cardinality(Started') + 1
      /\ j \in Started => Cardinality(Started) = Cardinality(Started') + 1
  <2>1. CASE j \in Started
    <3>1. Cardinality(Started) - 1 = Cardinality(Started') /\ Cardinality(Started) # 0
      BY <1>2, <2>1, StartedNumber, FS_EmptySet
    <3> QED BY <3>1, StartedNumber
  <2>2. CASE j \notin Started
    <3>1. Started' = Started
      BY <1>2, <2>2
    <3> QED BY <2>2, <3>1, StartedNumber
  <2> QED BY <2>1, <2>2
<1>4. Ending = 0 /\ Ending' = 1 /\ Ids' = Ids
  BY <1>1, <1>2 DEF Ending, Ids
<1>5. Regular' => Regular /\ j \in Started
  BY DEF Ends, Regular
<1>6. KeptApart'
  <2>1. \A k \in JobIds : Phase(k) \in {"started", "done"} => Phase(k)' \in {"started", "done"}
    BY <1>2
  <2> QED BY <1>1, <2>1 DEF Followed, KeptApart
<1>7. Ids <= Cardinality(Started) /\ (Regular => Ids = Cardinality(Started)) /\ Ids \in 0..2
  <2>1. Ids \in 0..2
    BY DEF Ids
  <2> QED BY <1>3, <1>4, <2>1 DEF Followed
<1>8. /\ Ids' <= Cardinality(Started') + Ending'
      /\ Regular' => Ids' = Cardinality(Started') + Ending'
  BY <1>3, <1>4, <1>5, <1>7
<1>9. ASSUME Regular', InOrder' PROVE Started' = {pen} \ {0}
  <2>1. Regular /\ j \in Started /\ Tracked /\ Cardinality(Started) = Ids
    BY <1>5, <1>7, <1>9 DEF Followed
  <2>2. \A k \in Started \ {j} : j < k
    BY <1>1, <1>2, <1>9 DEF InOrder, Phase
  <2>3. CASE pen = 0
    <3>1. Cardinality(Started) <= 1
      BY <2>1, <2>3 DEF Ids
    <3>2. Cardinality(Started') = 0 /\ IsFiniteSet(Started')
      <4>1. IsFiniteSet(Started')
        BY <1>2, StartedNumber, FS_RemoveElement
      <4> QED BY <1>3, <2>1, <3>1, <4>1
    <3> QED BY <2>3, <3>2, FS_EmptySet
  <2>4. CASE pen # 0
    <3>1. pen \in Started /\ \A k \in Started : k <= pen
      BY <1>2, <2>1, <2>4 DEF Tracked
    <3>2. ASSUME NEW k \in Started \ {j}, k # pen PROVE FALSE
      <4>1. j # pen
        BY <1>1, <2>2, <3>1
      <4>2. IsFiniteSet(Started \ {j}) /\ Cardinality(Started \ {j}) <= 1
        BY <1>2, <1>3, <1>7, <2>1, StartedNumber, FS_RemoveElement
      <4>3. pen \in Started \ {j}
        BY <3>1, <4>1
      <4>4. /\ IsFiniteSet((Started \ {j}) \ {pen})
            /\ Cardinality((Started \ {j}) \ {pen}) = Cardinality(Started \ {j}) - 1
        BY <4>2, <4>3, FS_RemoveElement
      <4>5. Cardinality((Started \ {j}) \ {pen}) = 0
        BY <4>2, <4>4, FS_CardinalityType
      <4>6. (Started \ {j}) \ {pen} = {}
        BY <4>4, <4>5, FS_EmptySet
      <4> QED BY <3>2, <4>6
    <3>3. ASSUME j = pen PROVE FALSE
      <4>1. Started \ {j} = {}
        BY <1>1, <2>2, <3>1, <3>3
      <4>2. cur # 0
        BY <2>4 DEF Followed, KeptApart
      <4>3. Ids = 2
        BY <2>4, <4>2 DEF Ids
      <4>4. Cardinality(Started') = 0
        BY <1>2, <4>1, FS_EmptySet
      <4> QED BY <1>3, <2>1, <4>3, <4>4
    <3> QED BY <1>2, <2>4, <3>1, <3>2, <3>3
  <2> QED BY <2>3, <2>4
<1>10. Regular' => Tracked'
  BY <1>1, <1>2, <1>9 DEF Tracked
<1> QED BY <1>6, <1>8, <1>10 DEF Followed

\* The pending id moves up.
LEMMA StepCountsOut ==
  ASSUME TypeOK, Followed, CountsOut
  PROVE  Followed'
<1> DEFINE cur == current_copy_job_id
           pen == pending_copy_job_id
<1>1. /\ JobIds \subseteq Nat \ {0} /\ DOMAIN pc = Threads /\ "sjm" \in Threads
      /\ cur \in JobIds \cup {0} /\ pen \in JobIds \cup {0}
  BY TypeFacts DEF JobIds
<1>2. /\ Started' = Started /\ cur' = pen /\ pen' = 0
      /\ pc["sjm"] = "done" /\ pc'["sjm"] = "idle" /\ (Regular' => Regular)
      /\ \A k : Phase(k)' = Phase(k)
  BY <1>1, StepSets DEF CountsOut, Promote, Raced, Regular, Phase
<1>3. Ending = 1 /\ Ending' = 0 /\ Cardinality(Started) \in Nat
  BY <1>2, StartedNumber DEF Ending
<1>4. Ids' = (IF pen = 0 THEN 0 ELSE 1) /\ Ids = (IF cur = 0 THEN 0 ELSE 1) + Ids'
  BY <1>2 DEF Ids
<1>5. /\ Ids' <= Cardinality(Started') + Ending'
      /\ Regular' => Ids' = Cardinality(Started') + Ending'
  <2>1. /\ Ids <= Cardinality(Started) + 1 /\ (Regular => Ids = Cardinality(Started) + 1)
        /\ (cur = 0 => pen = 0)
    BY <1>3 DEF Followed, KeptApart
  <2> QED BY <1>2, <1>3, <1>4, <2>1
<1>6. KeptApart'
  BY <1>1, <1>2 DEF Followed, KeptApart
<1>7. InOrder' => InOrder
  BY <1>2 DEF InOrder, Phase
<1>8. Regular' => Tracked'
  BY <1>1, <1>2, <1>7 DEF Followed, Tracked
<1> QED BY <1>5, <1>6, <1>8 DEF Followed

LEMMA StepFollowed ==
  ASSUME TypeOK, Labels, JobsInOrder, Followed, [Next]_vars
  PROVE  Followed'
<1>1. DOMAIN pc = Threads /\ "sjm" \in Threads /\ "ui" \in Threads /\ NoJob.phase = "none"
  BY TypeFacts DEF NoJob
<1>2. CASE Quiet \/ Uncounted \/ CountsIn \/ LetIn
  <2>1. /\ Started' = Started /\ UNCHANGED <<current_copy_job_id, pending_copy_job_id>>
        /\ pc'["sjm"] = pc["sjm"] /\ (Regular' => Regular)
    BY <1>1, <1>2, StepSets DEF Quiet, Uncounted, CountsIn, LetIn, Raced, Regular
  <2>2. \A j \in JobIds :
           /\ jobs[j].phase \in {"started", "done"} => jobs'[j].phase = jobs[j].phase
           /\ jobs'[j].phase = "done" => jobs[j].phase = "done"
    <3>1. CASE Quiet \/ LetIn
      BY <3>1 DEF Quiet, LetIn
    <3>2. ASSUME NEW k \in JobIds, Queues(k)
          PROVE  \A j \in JobIds :
                   /\ jobs[j].phase \in {"started", "done"} => jobs'[j].phase = jobs[j].phase
                   /\ jobs'[j].phase = "done" => jobs[j].phase = "done"
      BY <1>1, <3>2 DEF Queues
    <3> QED BY <1>2, <3>1, <3>2 DEF Uncounted, CountsIn
  <2> QED BY <2>1, <2>2, QuietlyFollowed
<1> QED BY <1>2, StepStarts, StepEnds, StepCountsOut, StepKinds
-----------------------------------------------------------------------------
CopyInv == TypeOK /\ JobsInOrder /\ Labels /\ Counted /\ Followed

LEMMA CopyInvariant == Spec => []CopyInv
<1>1. Init => CopyInv
  BY InitTyped, InitBooks DEF CopyInv
<1>2. CopyInv /\ [Next]_vars => CopyInv'
  BY StepTyped, StepInOrder, StepLabels, StepCounted, StepFollowed DEF CopyInv
<1> QED BY <1>1, <1>2, PTL DEF Spec

\* The counters keep their types whatever jobs, pages and answers come, although
\* update_copy_page_number takes remainders by the sizes the user and the scanner
\* gave; and copy_count never exceeds two.
THEOREM CopyTypes == Spec => []TypeOK
<1>1. CopyInv => TypeOK
  BY DEF CopyInv
<1> QED BY <1>1, CopyInvariant, PTL

\* The user is told "busy" only because of copy jobs that are really there, as
\* long as the UI and the job manager never race for copy_count (216-225, 461).
THEOREM PlacesAreReturned == Spec => []PlacesComeBack
<1>1. CopyInv => PlacesComeBack
  <2> SUFFICES ASSUME CopyInv, "raced" \notin anomalies, pc["sjm"] = "idle"
               PROVE  copy_count <= Cardinality(Outstanding)
    BY DEF PlacesComeBack, Threads
  <2>1. copy_count <= Places /\ Cardinality(Outstanding) \in Nat
    BY JobsAreFinite, FS_CardinalityType DEF CopyInv, Counted
  <2> QED BY <2>1 DEF Places
<1> QED BY <1>1, CopyInvariant, PTL

\* Jobs start in order and end in any (457-461 look at no id): there are never more ids
\* than started jobs, as many until a third job has started or one has ended unstarted,
\* and the current and the pending one are the started jobs, oldest first, as long as
\* none of them has been outlived by a later job (437-449, 461-470).
THEOREM JobsAreTracked == Spec => []TracksJobs
<1>1. CopyInv => TracksJobs
  <2> DEFINE cur == current_copy_job_id
             pen == pending_copy_job_id
  <2> SUFFICES ASSUME CopyInv, pc["sjm"] = "idle"
               PROVE  /\ Cardinality(Kept) <= Cardinality(Started)
                      /\ Regular =>
                           /\ Cardinality(Kept) = Cardinality(Started)
                           /\ InOrder =>
                                /\ Kept = Started
                                /\ Started # {} => cur = Oldest(Started)
    BY DEF TracksJobs, Regular
  <2>1. TypeOK /\ Followed /\ KeptApart /\ Ending = 0
    BY DEF CopyInv, Followed, Ending
  <2>2. cur \in JobIds \cup {0} /\ pen \in JobIds \cup {0} /\ Started \in SUBSET JobIds
        /\ JobIds \subseteq Nat \ {0} /\ Cardinality(Started) \in Nat
    BY <2>1, TypeFacts, JobsAreFinite, StartedNumber DEF JobIds
  <2>3. Cardinality(Kept) = Ids
    <3>1. CASE cur = 0
      <4>1. Kept = {} /\ Ids = 0
        BY <2>1, <3>1 DEF Kept, Ids, KeptApart
      <4> QED BY <4>1, FS_EmptySet
    <3>2. CASE cur # 0 /\ pen = 0
      <4>1. Kept = {cur} /\ Ids = 1
        BY <3>2 DEF Kept, Ids
      <4> QED BY <4>1, FS_Singleton
    <3>3. CASE cur # 0 /\ pen # 0
      <4>1. Kept = {cur} \cup {pen} /\ Ids = 2 /\ pen \notin {cur}
        BY <2>1, <3>3 DEF Kept, Ids, KeptApart
      <4>2. Cardinality({cur}) = 1 /\ IsFiniteSet({cur})
        BY FS_Singleton
      <4> QED BY <4>1, <4>2, FS_AddElement
    <3> QED BY <3>1, <3>2, <3>3
  <2>4. Ids <= Cardinality(Started) /\ (Regular => Ids = Cardinality(Started))
    BY <2>1, <2>2 DEF Followed
  <2>5. ASSUME Regular, InOrder
        PROVE  Kept = Started /\ (Started # {} => cur = Oldest(Started))
    <3>1. /\ Started = Kept
          /\ pen # 0 => cur < pen
      BY <2>1, <2>5 DEF Followed, Tracked, Kept
    <3>2. ASSUME Started # {} PROVE cur = Oldest(Started)
      <4>1. cur \in Started /\ \A k \in Started : cur <= k
        BY <2>1, <2>2, <3>1, <3>2 DEF Kept, KeptApart
      <4>2. Oldest(Started) \in Started /\ \A k \in Started : Oldest(Started) <= k
        BY <2>2, <3>2, OldestIs
      <4>3. cur <= Oldest(Started) /\ Oldest(Started) <= cur /\ Oldest(Started) \in Nat /\ cur \in Nat
        BY <2>2, <4>1, <4>2
      <4> QED BY <4>3
    <3> QED BY <3>1, <3>2
  <2> QED BY <2>3, <2>4, <2>5
<1> QED BY <1>1, CopyInvariant, PTL

\* A third job starts over the pending one's id (437-449) only after copy_count
\* lost an update or was bypassed: two ids are enough for the jobs it counts.
THEOREM TwoIdsSuffice == Spec => []RoomForTwo
<1>1. Init => RoomForTwo
  BY DEF Init, RoomForTwo
<1>2. ASSUME CopyInv, RoomForTwo, [Next]_vars
      PROVE  RoomForTwo'
  <2>1. TypeOK /\ JobsInOrder /\ Labels /\ Counted /\ Followed
    BY <1>2 DEF CopyInv
  <2>2. CASE Quiet \/ Uncounted \/ CountsIn \/ LetIn \/ CountsOut \/ \E j \in JobIds : Ends(j)
    <3>1. \/ anomalies' = anomalies
          \/ \E a \in {"uncounted", "raced", "unstarted"} : anomalies' = anomalies \cup {a}
      BY <2>2 DEF Quiet, Uncounted, CountsIn, LetIn, CountsOut, Ends, Raced
    <3> QED BY <1>2, <3>1 DEF RoomForTwo
  <2>3. ASSUME NEW j \in JobIds, Starts(j) PROVE RoomForTwo'
    <3> DEFINE cur == current_copy_job_id
               pen == pending_copy_job_id
    <3>1. CASE anomalies' = anomalies
      BY <1>2, <3>1 DEF RoomForTwo
    <3>2. CASE anomalies' # anomalies
      <4>1. cur # 0 /\ pen # 0 /\ anomalies' = anomalies \cup {"overtaken"}
            /\ "overtaken" \notin anomalies /\ pc["sjm"] = "idle"
        BY <2>3, <3>2 DEF Starts
      <4>2. Cardinality(Started) >= 2
        <5>1. Ids = 2 /\ Ending = 0
          BY <4>1 DEF Ids, Ending
        <5> QED BY <2>1, <5>1, StartedNumber DEF Followed
      <4>3. j \notin Started /\ Started \cup {j} \subseteq Outstanding
        BY <2>1, <2>3, StepSets DEF Started, Outstanding
      <4>4. Cardinality(Started \cup {j}) = Cardinality(Started) + 1
        BY <4>3, StartedNumber
      <4>5. Cardinality(Started \cup {j}) <= Cardinality(Outstanding)
        BY <4>3, JobsAreFinite, FS_Subset
      <4>6. Cardinality(Outstanding) >= 3
        BY <4>2, <4>4, <4>5, StartedNumber, JobsAreFinite, FS_CardinalityType
      <4>7. copy_count \in 0..2 /\ Cardinality(Outstanding) \in Nat
        BY <2>1, TypeFacts, JobsAreFinite, FS_CardinalityType
      <4>8. copy_count # Places
        BY <4>1, <4>6, <4>7 DEF Places
      <4> QED BY <2>1, <4>1, <4>8 DEF Counted, RoomForTwo
    <3> QED BY <3>1, <3>2
  <2>4. \/ Quiet \/ Uncounted \/ CountsIn \/ LetIn \/ CountsOut
        \/ \E j \in JobIds : Starts(j) \/ Ends(j)
    BY <1>2, <2>1, StepKinds
  <2> QED BY <2>2, <2>3, <2>4
<1> QED BY <1>1, <1>2, CopyInvariant, PTL DEF Spec
-----------------------------------------------------------------------------
(* The page counter.                                                        *)

\* Quotient and remainder, and that they are the only ones.
LEMMA Division ==
  ASSUME NEW n \in Nat, NEW s \in Nat \ {0}
  PROVE  n \div s \in Nat /\ n % s \in 0..s - 1 /\ n = s * (n \div s) + (n % s)
OBVIOUS

LEMMA DivisionUnique ==
  ASSUME NEW s \in Nat \ {0}, NEW q1 \in Nat, NEW q2 \in Nat,
         NEW r1 \in 0..s - 1, NEW r2 \in 0..s - 1, s * q1 + r1 = s * q2 + r2
  PROVE  q1 = q2 /\ r1 = r2
<1>1. ASSUME NEW a \in Nat, NEW b \in Nat, NEW x \in 0..s - 1, NEW y \in 0..s - 1,
             a < b, s * a + x = s * b + y
      PROVE  FALSE
  <2>1. b - a - 1 \in Nat /\ b = a + 1 + (b - a - 1)
    BY <1>1
  <2>2. PICK d \in Nat : b = a + 1 + d
    BY <2>1
  <2>3. s * b = s * a + s + s * d
    BY <2>2
  <2>4. s * a \in Nat /\ s * b \in Nat /\ s * d \in Nat
    BY <2>2
  <2> QED BY <1>1, <2>3, <2>4
<1>2. q1 < q2 \/ q2 < q1 \/ q1 = q2
  OBVIOUS
<1>3. q1 = q2
  BY <1>1, <1>2
<1>4. s * q1 \in Nat
  OBVIOUS
<1> QED BY <1>3, <1>4

LEMMA DivisionNext ==
  ASSUME NEW n \in Nat, NEW s \in Nat \ {0}
  PROVE  /\ (n + 1) % s = IF n % s = s - 1 THEN 0 ELSE (n % s) + 1
         /\ (n + 1) \div s = IF n % s = s - 1 THEN (n \div s) + 1 ELSE n \div s
<1> DEFINE m == n + 1
           q == n \div s
           r == n % s
           q1 == IF r = s - 1 THEN q + 1 ELSE q
           r1 == IF r = s - 1 THEN 0 ELSE r + 1
           q2 == m \div s
           r2 == m % s
<1>1. q \in Nat /\ r \in 0..s - 1 /\ n = s * q + r
  BY Division
<1>2. m \in Nat
  OBVIOUS
<1> HIDE DEF m
<1>3. q2 \in Nat /\ r2 \in 0..s - 1 /\ m = s * q2 + r2
  BY <1>2, Division
<1> HIDE DEF q, r
<1>4. q1 \in Nat /\ r1 \in 0..s - 1
  BY <1>1
<1>5. s * q1 + r1 = m
  <2>1. s * (q + 1) = s * q + s /\ s * q \in Nat
    BY <1>1
  <2> QED BY <1>1, <2>1 DEF m
<1> HIDE DEF q1, r1, q2, r2
<1>6. q2 = q1 /\ r2 = r1
  BY <1>3, <1>4, <1>5, DivisionUnique
<1> QED BY <1>6 DEF m, q, r, q1, r1, q2, r2

\* The number that comes after n pages, in a set of this size, and how many sets
\* are then complete.
LEMMA WrapCounts ==
  ASSUME NEW size \in Nat \ {0}
  PROVE  /\ \A n \in Nat : Wrap(n + 1, size) = 1 + (n % size)
         /\ 0 % size = 0 /\ 0 \div size = 0
         /\ \A n \in Nat \ {0} :
              n \div size = ((n - 1) \div size) + (IF Wrap(n + 1, size) = 1 THEN 1 ELSE 0)
<1>1. ASSUME NEW n \in Nat PROVE Wrap(n + 1, size) = 1 + (n % size)
  <2> DEFINE r == n % size
             m == (n + 1) % size
  <2>1. r \in 0..size - 1 /\ m = IF r = size - 1 THEN 0 ELSE r + 1
    BY Division, DivisionNext
  <2>2. Wrap(n + 1, size) = IF m = 0 THEN size ELSE m
    BY DEF Wrap
  <2> HIDE DEF r, m
  <2>3. Wrap(n + 1, size) = 1 + r
    BY <2>1, <2>2
  <2> QED BY <2>3 DEF r
<1>2. 0 % size = 0 /\ 0 \div size = 0
  <2> DEFINE q == 0 \div size
             r == 0 % size
  <2>1. q \in Nat /\ r \in 0..size - 1 /\ 0 = size * q + r
    BY Division
  <2>2. size * 0 + 0 = 0
    OBVIOUS
  <2> HIDE DEF q, r
  <2>3. q = 0 /\ r = 0
    BY <2>1, <2>2, DivisionUnique
  <2> QED BY <2>3 DEF q, r
<1>3. ASSUME NEW n \in Nat \ {0}
      PROVE  n \div size = ((n - 1) \div size) + (IF Wrap(n + 1, size) = 1 THEN 1 ELSE 0)
  <2> DEFINE m == n - 1
             r == m % size
             q == m \div size
  <2>1. m \in Nat /\ m + 1 = n
    OBVIOUS
  <2> HIDE DEF m
  <2>2. r \in 0..size - 1 /\ q \in Nat
    BY <2>1, Division
  <2>3. /\ n % size = IF r = size - 1 THEN 0 ELSE r + 1
        /\ n \div size = IF r = size - 1 THEN q + 1 ELSE q
    BY <2>1, DivisionNext
  <2>4. Wrap(n + 1, size) = 1 + (n % size)
    BY <1>1
  <2> DEFINE k == n % size
             w == Wrap(n + 1, size)
             d == n \div size
  <2> HIDE DEF r, q, k, w, d
  <2>5. k = (IF r = size - 1 THEN 0 ELSE r + 1) /\ d = (IF r = size - 1 THEN q + 1 ELSE q) /\ w = 1 + k
    BY <2>3, <2>4 DEF k, w, d
  <2>6. d = q + (IF w = 1 THEN 1 ELSE 0)
    BY <2>2, <2>5
  <2> QED BY <2>6 DEF d, q, w, m
<1> QED BY <1>1, <1>2, <1>3

\* The counters with the page and the set that come after k pages of a job.
At(c, k) ==
  [page |-> 1 + IF c.collate THEN k % c.scans ELSE k \div c.total,
   set |-> 1 + IF c.collate THEN k \div c.scans ELSE k % c.total,
   scans |-> c.scans, total |-> c.total, collate |-> c.collate]

Sized(c) == c \in Counters /\ c.total # 0 /\ c.scans # 0

LEMMA SizedFacts ==
  ASSUME NEW c, Sized(c)
  PROVE  /\ c.total \in Nat \ {0} /\ c.scans \in Nat \ {0} /\ c.collate \in BOOLEAN
         /\ c.total * c.scans \in Nat \ {0} /\ Scans(c) = c.scans
<1>1. c.total \in Nat \ {0} /\ c.scans \in Nat \ {0} /\ c.collate \in BOOLEAN
  BY DEF Sized, Counters
<1>2. \A m, n \in Nat \ {0} : m * n \in Nat \ {0}
  OBVIOUS
<1> QED BY <1>1, <1>2 DEF Scans

\* Page k of a job is counted from where page k - 1 has left the counters.
LEMMA CountPageNext ==
  ASSUME NEW c, Sized(c), NEW k \in Nat \ {0}, k < c.total * c.scans
  PROVE  /\ CountPage(At(c, k - 1), k, FALSE) = At(c, k)
         /\ Display(At(c, k - 1), k, FALSE) =
              [state |-> "page-count", page |-> At(c, k).page, set |-> At(c, k).set,
               total |-> c.total]
<1> DEFINE d == At(c, k - 1)
<1>1. /\ d.scans = c.scans /\ d.total = c.total /\ d.collate = c.collate
      /\ d.page = 1 + (IF c.collate THEN (k - 1) % c.scans ELSE (k - 1) \div c.total)
      /\ d.set = 1 + (IF c.collate THEN (k - 1) \div c.scans ELSE (k - 1) % c.total)
      /\ d = [page |-> d.page, set |-> d.set, scans |-> c.scans, total |-> c.total,
              collate |-> c.collate]
  BY DEF At
<1>2. Scans(d) = c.scans
  BY <1>1, SizedFacts DEF Scans
<1>3. ~Finished(d, k)
  BY <1>1, <1>2, SizedFacts DEF Finished
<1> HIDE DEF d
<1> DEFINE page == Wrap(k + 1, c.scans)
           set == Wrap(k + 1, c.total)
<1>4. CountPage(d, k, FALSE) =
        IF c.collate
          THEN [d EXCEPT !.scans = c.scans, !.page = page, !.set = IF page = 1 THEN @ + 1 ELSE @]
          ELSE [d EXCEPT !.scans = c.scans, !.set = set, !.page = IF set = 1 THEN @ + 1 ELSE @]
  BY <1>1, <1>2, <1>3 DEF CountPage
<1>5. /\ page = 1 + (k % c.scans) /\ set = 1 + (k % c.total)
      /\ k \div c.scans = ((k - 1) \div c.scans) + (IF page = 1 THEN 1 ELSE 0)
      /\ k \div c.total = ((k - 1) \div c.total) + (IF set = 1 THEN 1 ELSE 0)
      /\ (k - 1) \div c.scans \in Nat /\ (k - 1) \div c.total \in Nat
  <2>1. c.scans \in Nat \ {0} /\ c.total \in Nat \ {0} /\ k \in Nat /\ k - 1 \in Nat
    BY SizedFacts
  <2>2. ASSUME NEW size \in Nat \ {0}
        PROVE  /\ Wrap(k + 1, size) = 1 + (k % size)
               /\ k \div size = ((k - 1) \div size) + (IF Wrap(k + 1, size) = 1 THEN 1 ELSE 0)
               /\ (k - 1) \div size \in Nat
    <3>1. (k - 1) \div size \in Nat
      BY <2>1, Division
    <3> QED BY <2>1, <3>1, WrapCounts, Zenon
  <2> QED BY <2>1, <2>2, Zenon
<1> HIDE DEF page, set
<1>6. CASE c.collate
  <2> DEFINE n == IF page = 1 THEN d.set + 1 ELSE d.set
  <2>1. n = 1 + (k \div c.scans)
    <3> DEFINE q == (k - 1) \div c.scans
               q1 == k \div c.scans
    <3>1. q \in Nat /\ q1 = q + (IF page = 1 THEN 1 ELSE 0) /\ d.set = 1 + q
      BY <1>1, <1>5, <1>6
    <3> HIDE DEF q, q1
    <3>2. n = 1 + q1
      BY <3>1
    <3> QED BY <3>2 DEF q1
  <2>2. CountPage(d, k, FALSE) = [d EXCEPT !.scans = c.scans, !.page = page, !.set = n]
    BY <1>4, <1>6
  <2> HIDE DEF n
  <2>3. CountPage(d, k, FALSE) = [page |-> page, set |-> n, scans |-> c.scans,
                                  total |-> c.total, collate |-> c.collate]
    BY <1>1, <2>2
  <2> QED BY <1>2, <1>3, <1>5, <1>6, <2>1, <2>3, <1>1 DEF At, Display, d
<1>7. CASE ~c.collate
  <2> DEFINE n == IF set = 1 THEN d.page + 1 ELSE d.page
  <2>1. n = 1 + (k \div c.total)
    <3> DEFINE q == (k - 1) \div c.total
               q1 == k \div c.total
    <3>1. q \in Nat /\ q1 = q + (IF set = 1 THEN 1 ELSE 0) /\ d.page = 1 + q
      BY <1>1, <1>5, <1>7
    <3> HIDE DEF q, q1
    <3>2. n = 1 + q1
      BY <3>1
    <3> QED BY <3>2 DEF q1
  <2>2. CountPage(d, k, FALSE) = [d EXCEPT !.scans = c.scans, !.set = set, !.page = n]
    BY <1>4, <1>7
  <2> HIDE DEF n
  <2>3. CountPage(d, k, FALSE) = [page |-> n, set |-> set, scans |-> c.scans,
                                  total |-> c.total, collate |-> c.collate]
    BY <1>1, <2>2
  <2> QED BY <1>2, <1>3, <1>5, <1>7, <2>1, <2>3, <1>1 DEF At, Display, d
<1> QED BY <1>6, <1>7, SizedFacts

\* The start of a job counts its first page, its originals not counted yet.
LEMMA CountPageFirst ==
  ASSUME NEW c, Sized(c)
  PROVE  /\ [CountPage(Initialized(c), 0, FALSE) EXCEPT !.scans = c.scans] = At(c, 0)
         /\ Display(Initialized(c), 0, FALSE) =
              [state |-> "page-count", page |-> At(c, 0).page, set |-> At(c, 0).set,
               total |-> c.total]
<1> DEFINE d == Initialized(c)
           page == Wrap(1, Unscanned)
           set == Wrap(1, c.total)
<1>1. Unscanned \in Nat \ {0}
  BY CopyAssumption
<1>2. /\ d.scans = Unscanned /\ d.total = c.total /\ d.collate = c.collate
      /\ d.page = 0 /\ d.set = 0
      /\ d = [page |-> 0, set |-> 0, scans |-> Unscanned, total |-> c.total, collate |-> c.collate]
  <2> DEFINE zero == 0
  <2>1. d = [c EXCEPT !.scans = Unscanned, !.set = zero, !.page = zero]
    BY DEF Initialized
  <2> HIDE DEF zero, d
  <2>2. d = [page |-> zero, set |-> zero, scans |-> Unscanned, total |-> c.total,
             collate |-> c.collate]
    BY <2>1 DEF Sized, Counters
  <2> QED BY <2>2 DEF zero
<1>3. Scans(d) = Unscanned
  BY <1>1, <1>2 DEF Scans
<1>4. ~Finished(d, 0)
  <2>1. \A m, n \in Nat \ {0} : ~(0 >= m * n)
    OBVIOUS
  <2> QED BY <1>1, <1>2, <1>3, <2>1, SizedFacts DEF Finished
<1> HIDE DEF d
<1>5. page = 1 /\ set = 1
  <2>1. ASSUME NEW size \in Nat \ {0} PROVE Wrap(1, size) = 1
    <3>1. Wrap(0 + 1, size) = 1 + (0 % size) /\ 0 % size = 0
      BY WrapCounts
    <3> QED BY <3>1
  <2> QED BY <1>1, <2>1, SizedFacts
<1>6. CountPage(d, 0, FALSE) =
        IF c.collate
          THEN [d EXCEPT !.scans = Unscanned, !.page = page, !.set = IF page = 1 THEN @ + 1 ELSE @]
          ELSE [d EXCEPT !.scans = Unscanned, !.set = set, !.page = IF set = 1 THEN @ + 1 ELSE @]
  <2>1. page = Wrap(0 + 1, Unscanned) /\ set = Wrap(0 + 1, c.total)
    <3>1. 0 + 1 = 1
      OBVIOUS
    <3> QED BY <3>1
  <2> HIDE DEF page, set
  <2> QED BY <1>2, <1>3, <1>4, <2>1 DEF CountPage
<1> HIDE DEF page, set
<1>7. CountPage(d, 0, FALSE) = [page |-> 1, set |-> 1, scans |-> Unscanned, total |-> c.total,
                                collate |-> c.collate]
  <2>1. CountPage(d, 0, FALSE) = [d EXCEPT !.scans = Unscanned, !.page = 1, !.set = 1]
    <3>1. d.page + 1 = 1 /\ d.set + 1 = 1
      BY <1>2
    <3> QED BY <1>5, <1>6, <3>1
  <2> QED BY <1>2, <2>1
<1>8. At(c, 0) = [page |-> 1, set |-> 1, scans |-> c.scans, total |-> c.total, collate |-> c.collate]
  <2>1. /\ 0 % c.scans = 0 /\ 0 \div c.scans = 0
        /\ 0 % c.total = 0 /\ 0 \div c.total = 0
    BY SizedFacts, WrapCounts
  <2>2. 1 + 0 = 1
    OBVIOUS
  <2> QED BY <2>1, <2>2, SizedFacts DEF At
<1>9. Display(d, 0, FALSE) = [state |-> "page-count", page |-> 1, set |-> 1, total |-> c.total]
  <2>1. CountPage(d, 0, FALSE).page = 1 /\ CountPage(d, 0, FALSE).set = 1
    <3> DEFINE e == CountPage(d, 0, FALSE)
    <3>1. e = [page |-> 1, set |-> 1, scans |-> Unscanned, total |-> c.total,
               collate |-> c.collate]
      BY <1>7
    <3> HIDE DEF e
    <3>2. e.page = 1 /\ e.set = 1
      BY <3>1
    <3> QED BY <3>2 DEF e
  <2>2. Display(d, 0, FALSE) =
          [state |-> "page-count", page |-> CountPage(d, 0, FALSE).page,
           set |-> CountPage(d, 0, FALSE).set, total |-> d.total]
    BY <1>4 DEF Display
  <2> QED BY <1>2, <2>1, <2>2
<1>10. [CountPage(d, 0, FALSE) EXCEPT !.scans = c.scans] = At(c, 0)
  <2> DEFINE e == CountPage(d, 0, FALSE)
             one == 1
  <2>1. e = [page |-> one, set |-> one, scans |-> Unscanned, total |-> c.total,
             collate |-> c.collate]
    BY <1>7
  <2>2. At(c, 0) = [page |-> one, set |-> one, scans |-> c.scans, total |-> c.total,
                    collate |-> c.collate]
    BY <1>8
  <2> HIDE DEF e, one
  <2>3. [e EXCEPT !.scans = c.scans] = At(c, 0)
    BY <2>1, <2>2
  <2> QED BY <2>3 DEF e
<1>11. At(c, 0).page = 1 /\ At(c, 0).set = 1
  BY <1>8
<1> QED BY <1>9, <1>10, <1>11 DEF d

\* The recursion is well defined: each page is counted from the one before.
LEMMA AfterPageDef ==
  ASSUME NEW c, Sized(c)
  PROVE  AfterPage(c) =
           [k \in 0..c.total * c.scans - 1 |->
              IF k = 0 THEN [CountPage(Initialized(c), 0, FALSE) EXCEPT !.scans = c.scans]
              ELSE CountPage(AfterPage(c)[k - 1], k, FALSE)]
<1> DEFINE Pages == 0..c.total * c.scans - 1
           First == [CountPage(Initialized(c), 0, FALSE) EXCEPT !.scans = c.scans]
           Recursion(f) == f = [k \in Pages |-> IF k = 0 THEN First ELSE CountPage(f[k - 1], k, FALSE)]
           closed == [k \in Pages |-> At(c, k)]
<1>1. AfterPage(c) = CHOOSE f : Recursion(f)
  BY DEF AfterPage
<1>2. Recursion(closed)
  <2>1. ASSUME NEW k \in Pages
        PROVE  At(c, k) = IF k = 0 THEN First ELSE CountPage(closed[k - 1], k, FALSE)
    <3>1. c.total * c.scans \in Nat \ {0}
      BY SizedFacts
    <3> DEFINE last == c.total * c.scans
    <3> HIDE DEF last
    <3>2. k \in Nat /\ k < last /\ (k # 0 => k \in Nat \ {0} /\ k - 1 \in 0..last - 1)
      BY <3>1 DEF last
    <3>3. CASE k = 0
      BY <3>3, CountPageFirst
    <3>4. CASE k # 0
      <4>1. closed[k - 1] = At(c, k - 1)
        BY <3>2, <3>4 DEF last
      <4>2. CountPage(At(c, k - 1), k, FALSE) = At(c, k)
        BY <3>2, <3>4, CountPageNext DEF last
      <4> QED BY <3>4, <4>1, <4>2
    <3> QED BY <3>3, <3>4
  <2> HIDE DEF Pages, First
  <2>2. closed = [k \in Pages |-> IF k = 0 THEN First ELSE CountPage(closed[k - 1], k, FALSE)]
    BY <2>1
  <2> QED BY <2>2
<1> HIDE DEF Recursion, closed
<1>3. Recursion(AfterPage(c))
  BY <1>1, <1>2
<1> QED BY <1>3 DEF Recursion

LEMMA AfterPageIs ==
  ASSUME NEW c, Sized(c)
  PROVE  \A k \in 0..c.total * c.scans - 1 : AfterPage(c)[k] = At(c, k)
<1> DEFINE last == c.total * c.scans
           Pages == 0..last - 1
           wrong == {k \in Pages : AfterPage(c)[k] # At(c, k)}
<1>1. last \in Nat \ {0}
  BY SizedFacts
<1>2. \A k \in Pages : AfterPage(c)[k] =
        IF k = 0 THEN [CountPage(Initialized(c), 0, FALSE) EXCEPT !.scans = c.scans]
        ELSE CountPage(AfterPage(c)[k - 1], k, FALSE)
  BY AfterPageDef
<1> HIDE DEF last
<1>3. wrong \subseteq Nat /\ \A k \in Pages : k = 0 \/ (k \in Nat \ {0} /\ k < last /\ k - 1 \in Pages)
  BY <1>1
<1> HIDE DEF Pages
<1>4. ASSUME wrong # {} PROVE FALSE
  <2>1. PICK k \in wrong : \A j \in wrong : <<j, k>> \notin OpToRel(<, Nat)
    BY <1>3, <1>4, WFMin, NatLessThanWellFounded, Zenon
  <2>2. \A j \in wrong : ~(j < k)
    BY <1>3, <2>1, Zenon DEF OpToRel
  <2>3. k \in Pages /\ AfterPage(c)[k] # At(c, k)
    OBVIOUS
  <2>4. k # 0
    BY <1>2, <2>3, CountPageFirst
  <2>5. k \in Nat \ {0} /\ k < last /\ k - 1 \in Pages /\ k - 1 \notin wrong
    <3>1. k \in Nat \ {0} /\ k < last /\ k - 1 \in Pages
      BY <1>3, <2>3, <2>4
    <3>2. k - 1 < k
      BY <3>1
    <3> QED BY <2>2, <3>1, <3>2
  <2>6. AfterPage(c)[k - 1] = At(c, k - 1)
    BY <2>5
  <2>7. AfterPage(c)[k] = CountPage(At(c, k - 1), k, FALSE)
    BY <1>2, <2>3, <2>4, <2>6
  <2>8. CountPage(At(c, k - 1), k, FALSE) = At(c, k)
    BY <2>5, CountPageNext DEF last
  <2> QED BY <2>3, <2>7, <2>8
<1> QED BY <1>4 DEF Pages, last

\* For a job of any number of originals and of copies, collated or not, and
\* whatever the jobs before have left in the counters: the display shows after
\* each page the page and the set that come next, never a page or a set that the
\* job does not have, and is idle exactly after the last page (72-136).
THEOREM EveryPageIsCounted ==
  ASSUME NEW c, Sized(c)
  PROVE  Counts(c)
<1> DEFINE last == c.total * c.scans
           Page(k) == 1 + IF c.collate THEN k % c.scans ELSE k \div c.total
           Set(k) == 1 + IF c.collate THEN k \div c.scans ELSE k % c.total
           Shows(k, d) == d = [state |-> "page-count", page |-> Page(k), set |-> Set(k),
                               total |-> c.total]
<1>1. \A k : At(c, k).page = Page(k) /\ At(c, k).set = Set(k)
  BY DEF At
<1>2. last \in Nat \ {0}
  BY SizedFacts
<1>3. Shows(0, Display(Initialized(c), 0, FALSE))
  BY <1>1, CountPageFirst, Zenon
<1>4. ASSUME NEW k \in 1..last - 1 PROVE Shows(k, Display(AfterPage(c)[k - 1], k, FALSE))
  <2>1. k \in Nat \ {0} /\ k < last /\ k - 1 \in 0..last - 1
    <3> HIDE DEF last
    <3> QED BY <1>2
  <2>2. AfterPage(c)[k - 1] = At(c, k - 1)
    BY <2>1, AfterPageIs
  <2>3. Display(At(c, k - 1), k, FALSE) =
          [state |-> "page-count", page |-> At(c, k).page, set |-> At(c, k).set,
           total |-> c.total]
    BY <2>1, CountPageNext
  <2> QED BY <1>1, <2>2, <2>3, Zenon
<1>5. Display(AfterPage(c)[last - 1], last, FALSE) = Plain("idle")
  <2>1. last - 1 \in 0..last - 1
    <3> HIDE DEF last
    <3> QED BY <1>2
  <2>2. AfterPage(c)[last - 1] = At(c, last - 1)
    BY <2>1, AfterPageIs
  <2> DEFINE d == At(c, last - 1)
  <2>3. d.total = c.total /\ Scans(d) = c.scans
    BY SizedFacts DEF At, Scans
  <2> HIDE DEF d
  <2>4. Finished(d, last)
    BY <1>2, <2>3 DEF Finished
  <2>5. Display(d, last, FALSE) = Plain("idle")
    BY <2>4 DEF Display
  <2> QED BY <2>2, <2>5 DEF d
<1> HIDE DEF Shows, last
<1>6. /\ Shows(0, Display(Initialized(c), 0, FALSE))
      /\ \A k \in 1..last - 1 : Shows(k, Display(AfterPage(c)[k - 1], k, FALSE))
      /\ Display(AfterPage(c)[last - 1], last, FALSE) = Plain("idle")
  BY <1>3, <1>4, <1>5
<1> QED BY <1>6 DEF Counts, Shows, last

\* So it is whenever no copy job runs (the runs check it up to CountBound): the
\* counters that the next job finds have the types this rests on.
THEOREM PagesAreCounted == Spec => []CountsPages
<1>1. TypeOK => CountsPages
  <2> SUFFICES ASSUME TypeOK, NEW total \in 1..CountBound, NEW scans \in 1..CountBound,
                      NEW collate \in BOOLEAN
               PROVE  Counts([count EXCEPT !.scans = scans, !.total = total, !.collate = collate])
    BY DEF CountsPages
  <2> DEFINE c == [count EXCEPT !.scans = scans, !.total = total, !.collate = collate]
  <2>1. total \in Nat \ {0} /\ scans \in Nat \ {0} /\ count \in Counters
    BY TypeFacts DEF CountBound
  <2>2. c \in Counters /\ c.total = total /\ c.scans = scans
    BY <2>1 DEF Counters
  <2> HIDE DEF c
  <2>3. Sized(c)
    BY <2>1, <2>2 DEF Sized
  <2>4. Counts(c)
    BY <2>3, EveryPageIsCounted
  <2> QED BY <2>4 DEF c
<1> QED BY <1>1, CopyTypes, PTL
=============================================================================

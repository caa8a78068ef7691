------------------------------- MODULE CopyJobs -------------------------------
(***************************************************************************)
(* The copy component (ui_system_interface_copy.c).  It keeps, in unlocked *)
(* file-scope variables, its own idea of the copy jobs of the machine: how *)
(* many the user may still start, the running and the pending one, and the *)
(* page and set the running one is copying, which it shows on the UI.  The *)
(* UI thread calls it to start, answer and cancel jobs; the job manager,   *)
(* the copy application and the page-end observer call it back.            *)
(* A callback is one step, except where copy_count is read and written.    *)
(***************************************************************************)
EXTENDS Integers, FiniteSets

CONSTANTS
  Totals,     \* the numbers of copies the user asks for
  MaxScans,   \* bound: originals of a job
  MaxJobs,    \* bound: copy jobs of a run
  MaxStarted, \* how many copy jobs the job manager starts before one is done
  Unscanned   \* number_of_scans of a new job, "an arbitrary large number" (1000)

ASSUME CopyAssumption ==
  /\ Totals \subseteq Nat \ {0}
  /\ MaxScans \in Nat \ {0} /\ MaxJobs \in Nat /\ MaxStarted \in Nat \ {0}
  /\ Unscanned \in Nat /\ Unscanned > MaxScans

JobIds == 1..MaxJobs
Threads == {"ui", "sjm"}
Configs == [total: Totals, collate: BOOLEAN]
NoConfig == [total |-> 0, collate |-> FALSE]

VARIABLES
  count,                \* [page, set, scans, total, collate]: copy_pagenumber, copy_setnumber,
                        \* number_of_scans, total_pages and collate
  current_copy_job_id,  \* 0: none
  pending_copy_job_id,
  copy_count,
  idcopy_active,
  continuouscopy_active,
  device_busy,
  waiting_for_user_input,
  device_canceling,
  shown,     \* what the copy row last reported: a state, with its page, set and total
  told,      \* what it last reported for the system row
  jobs,      \* the copy jobs of the machine, [phase, printed, end] by id
  pc,
  seen,      \* copy_count as a thread has read it
  anomalies  \* history: what has gone by copy_count, of Anomalies

flags == <<idcopy_active, continuouscopy_active, device_busy, waiting_for_user_input,
           device_canceling>>
ids == <<current_copy_job_id, pending_copy_job_id>>
thread == <<pc, seen>>
vars == <<count, ids, copy_count, flags, shown, told, jobs, thread, anomalies>>

\* "raced": copy_count was written by one thread between the other's read and write;
\* "uncounted": a job entered without being counted; "overtaken": a job started
\* while there were a current and a pending one; "unstarted": a job that never started
\* was reported done, cancelled while it was queued.
Anomalies == {"raced", "uncounted", "overtaken", "unstarted"}

NoJob == [phase |-> "none", printed |-> 0, end |-> 0]
Plain(state) == [state |-> state, page |-> 0, set |-> 0, total |-> 0]

Init ==
  /\ count = [page |-> 0, set |-> 0, scans |-> 0, total |-> 0, collate |-> FALSE]
  /\ current_copy_job_id = 0 /\ pending_copy_job_id = 0
  /\ copy_count = 0
  /\ idcopy_active = FALSE /\ continuouscopy_active = FALSE
  /\ device_busy = FALSE
  /\ waiting_for_user_input = FALSE
  /\ device_canceling = FALSE
  /\ shown = Plain("idle")
  /\ told = "idle"
  /\ jobs = [j \in JobIds |-> NoJob]
  /\ pc = [t \in Threads |-> "idle"]
  /\ seen = [t \in Threads |-> 0]
  /\ anomalies = {}

Outstanding == {j \in JobIds : jobs[j].phase \in {"queued", "started"}}
Started == {j \in JobIds : jobs[j].phase = "started"}
Oldest(S) == CHOOSE j \in S : \A k \in S : j <= k
-----------------------------------------------------------------------------
(* update_copy_page_number.                                                 *)

Wrap(n, size) == IF n % size = 0 THEN size ELSE n % size
Scans(c) == IF c.scans = 0 THEN 1 ELSE c.scans

\* Mutant: the page to come is compared instead of the pages printed.
FinishedEarly(c, pages_printed) == pages_printed + 1 >= c.total * Scans(c)

Finished(c, pages_printed) == pages_printed >= c.total * Scans(c)

\* The counters for the page that comes after pages_printed pages.
CountPage(c, pages_printed, id) ==
  LET page == Wrap(pages_printed + 1, Scans(c))
      set == Wrap(pages_printed + 1, c.total)
  IN  CASE Finished(c, pages_printed) -> [c EXCEPT !.scans = Scans(c)]
        [] ~Finished(c, pages_printed) /\ c.collate /\ ~id ->
             [c EXCEPT !.scans = Scans(c), !.page = page,
                       !.set = IF page = 1 THEN @ + 1 ELSE @]
        [] OTHER ->
             [c EXCEPT !.scans = Scans(c), !.set = set,
                       !.page = IF id THEN 1 ELSE IF set = 1 THEN @ + 1 ELSE @]

Display(c, pages_printed, id) ==
  LET next == CountPage(c, pages_printed, id)
  IN  IF Finished(c, pages_printed) THEN Plain("idle")
      ELSE [state |-> "page-count", page |-> next.page, set |-> next.set, total |-> c.total]

UpdateCopyPageNumber(c, pages_printed, id) ==
  /\ count' = CountPage(c, pages_printed, id)
  /\ shown' = Display(c, pages_printed, id)

\* initialize_copy_vars
Initialized(c) == [c EXCEPT !.scans = Unscanned, !.set = 0, !.page = 0]
\* History: thread t writes copy_count.
Raced(t) ==
  anomalies' = IF copy_count = seen[t] THEN anomalies ELSE anomalies \cup {"raced"}
-----------------------------------------------------------------------------
(* Calls of the UI.                                                         *)

\* The copy application takes a new job.
Queue(n) ==
  \E j \in JobIds :
    /\ jobs[j] = NoJob
    /\ \A k \in JobIds : k < j => jobs[k] # NoJob
    /\ jobs' = [jobs EXCEPT ![j] = [NoJob EXCEPT !.phase = "queued", !.end = n]]

CanQueue == \E j \in JobIds : jobs[j] = NoJob

\* start_copy
StartCopy(c) ==
  /\ count' = [count EXCEPT !.total = c.total, !.collate = c.collate]
  /\ \E scans \in 1..MaxScans : Queue(c.total * scans)

\* Mutant: a third job is let in.
RoomForMore == copy_count <= 2

\* ui_sys_copy_startjob lets a job in while there are at most one.
Room == copy_count <= 1

\* ui_sys_copy_startjob: refuse, or go on to count the job and start it.
StartJob ==
  /\ pc["ui"] = "idle"
  /\ CanQueue
  /\ \/ told' = "device-busy" /\ UNCHANGED thread   \* ~is_scanner_alive()
     \/ ~Room /\ told' = "device-busy" /\ UNCHANGED thread
     \/ /\ Room
        /\ seen' = [seen EXCEPT !["ui"] = copy_count]
        /\ pc' = [pc EXCEPT !["ui"] = "start"]
        /\ UNCHANGED told
  /\ UNCHANGED <<count, ids, copy_count, flags, shown, jobs, anomalies>>

StartJobCounted(c) ==
  /\ pc["ui"] = "start"
  /\ copy_count' = seen["ui"] + 1
  /\ Raced("ui")
  /\ told' = IF device_busy \/ current_copy_job_id # 0 THEN "copy-pending" ELSE told
  /\ StartCopy(c)
  /\ pc' = [pc EXCEPT !["ui"] = "idle"]
  /\ seen' = [seen EXCEPT !["ui"] = 0]
  /\ UNCHANGED <<ids, flags, shown>>

\* ui_sys_copy_copyid_jobstart
CopyIdJobStart(c) ==
  /\ pc["ui"] = "idle"
  /\ CanQueue
  /\ IF device_busy \/ copy_count > 0
       THEN told' = "device-busy" /\ UNCHANGED <<count, idcopy_active, jobs, anomalies>>
       ELSE /\ idcopy_active' = TRUE /\ StartCopy(c) /\ UNCHANGED told
            /\ anomalies' = anomalies \cup {"uncounted"}
  /\ UNCHANGED <<ids, copy_count, continuouscopy_active, device_busy, waiting_for_user_input,
                 device_canceling, shown, thread>>

\* ui_sys_copy_settings_set
SettingsSet(c) ==
  /\ pc["ui"] = "idle"
  /\ count' = [count EXCEPT !.total = c.total, !.collate = c.collate]
  /\ UNCHANGED <<ids, copy_count, flags, shown, told, jobs, thread, anomalies>>

\* ui_sys_copy_start_continuous_copy and ui_sys_copy_stop_continuous_copy; while
\* it is on, the copy application starts a job of one copy for each original.
StartContinuousCopy ==
  /\ pc["ui"] = "idle"
  /\ continuouscopy_active' = TRUE
  /\ count' = [count EXCEPT !.total = 1]
  /\ shown' = Plain("page-count")
  /\ UNCHANGED <<ids, copy_count, idcopy_active, device_busy, waiting_for_user_input,
                 device_canceling, told, jobs, thread, anomalies>>

StopContinuousCopy ==
  /\ pc["ui"] = "idle"
  /\ continuouscopy_active' = FALSE
  /\ UNCHANGED <<count, ids, copy_count, idcopy_active, device_busy, waiting_for_user_input,
                 device_canceling, shown, told, jobs, thread, anomalies>>

ContinuousCopy ==
  /\ continuouscopy_active
  /\ Queue(1)
  /\ anomalies' = anomalies \cup {"uncounted"}
  /\ UNCHANGED <<count, ids, copy_count, flags, shown, told, thread>>

\* copy_process_user_feedback, with the user's Cancel: an ID copy and a
\* continuous copy take it for themselves.
UserCancel ==
  /\ pc["ui"] = "idle"
  /\ idcopy_active' = FALSE
  /\ continuouscopy_active' = (continuouscopy_active /\ idcopy_active)
  /\ waiting_for_user_input' =
       (waiting_for_user_input /\ ~idcopy_active /\ continuouscopy_active)
  /\ UNCHANGED <<count, ids, copy_count, device_busy, device_canceling, shown, told, jobs, thread, anomalies>>

\* The same with OK or Done, answers to the prompt: a waiting job counts its next
\* original, on one output page if it is not an ID copy (n-up).
UserAnswer ==
  /\ pc["ui"] = "idle"
  /\ idcopy_active \/ ~continuouscopy_active
  /\ IF waiting_for_user_input
       THEN UpdateCopyPageNumber(
              IF idcopy_active THEN count
              ELSE [count EXCEPT !.collate = FALSE, !.page = @ - 1], 0, idcopy_active)
       ELSE UNCHANGED <<count, shown>>
  /\ waiting_for_user_input' = FALSE
  /\ UNCHANGED <<ids, copy_count, idcopy_active, continuouscopy_active, device_busy,
                 device_canceling, told, jobs, thread, anomalies>>
-----------------------------------------------------------------------------
(* sjm_event_cb.                                                            *)

\* esjm_JobStart of a copy job; the job manager starts jobs in order.
CopyJobStart ==
  /\ pc["sjm"] = "idle"
  /\ \E j \in Outstanding \ Started :
       /\ Cardinality(Started) < MaxStarted
       /\ j = Oldest(Outstanding \ Started)
       /\ jobs' = [jobs EXCEPT ![j].phase = "started"]
       /\ IF current_copy_job_id = 0
            THEN /\ current_copy_job_id' = j
                 /\ UpdateCopyPageNumber(Initialized(count), 0, idcopy_active)
                 /\ UNCHANGED <<pending_copy_job_id, anomalies>>
            ELSE /\ pending_copy_job_id' = j
                 /\ anomalies' = IF pending_copy_job_id = 0 THEN anomalies
                                 ELSE anomalies \cup {"overtaken"}
                 /\ UNCHANGED <<current_copy_job_id, count, shown>>
  /\ device_canceling' = FALSE
  /\ UNCHANGED <<copy_count, idcopy_active, continuouscopy_active, device_busy,
                 waiting_for_user_input, told, thread>>

\* esjm_JobDone of whatever copy job: the handler does not look at its id, and a
\* cancelled job is done before those ahead of it, started or not.  The count is read ...
CopyJobDone(j) ==
  /\ pc["sjm"] = "idle"
  /\ j \in Outstanding
  /\ jobs' = [jobs EXCEPT ![j] = [NoJob EXCEPT !.phase = "done"]]
  /\ anomalies' = IF j \in Started THEN anomalies ELSE anomalies \cup {"unstarted"}
  /\ pc' = [pc EXCEPT !["sjm"] = "done"]
  /\ seen' = [seen EXCEPT !["sjm"] = copy_count]
  /\ UNCHANGED <<count, ids, copy_count, flags, shown, told>>

\* Mutants: the count of jobs is not taken down; the pending job stays pending.
KeepCount == copy_count' = copy_count
CountDone == copy_count' = IF seen["sjm"] > 0 THEN seen["sjm"] - 1 ELSE copy_count

PromoteKeepingPending ==
  /\ current_copy_job_id' = pending_copy_job_id
  /\ UNCHANGED pending_copy_job_id

\* The pending job, if any, becomes the current one.
Promote ==
  /\ current_copy_job_id' = pending_copy_job_id
  /\ pending_copy_job_id' = 0

\* ... and taken down; the pending job becomes current, or the row idle.
CopyJobDoneCounted ==
  /\ pc["sjm"] = "done"
  /\ CountDone
  /\ Raced("sjm")
  /\ Promote
  /\ IF pending_copy_job_id # 0
       THEN /\ UpdateCopyPageNumber(Initialized(count), 0, idcopy_active)
            /\ UNCHANGED idcopy_active
       ELSE /\ shown' = Plain("idle")
            /\ idcopy_active' = FALSE
            /\ UNCHANGED count
  /\ pc' = [pc EXCEPT !["sjm"] = "idle"]
  /\ seen' = [seen EXCEPT !["sjm"] = 0]
  /\ UNCHANGED <<continuouscopy_active, device_busy, waiting_for_user_input, device_canceling,
                 told, jobs>>

\* The same for jobs of other types: a print job starts, or a job is done.
OtherJob ==
  /\ pc["sjm"] = "idle"
  /\ device_busy' \in BOOLEAN
  /\ UNCHANGED <<count, ids, copy_count, idcopy_active, continuouscopy_active,
                 waiting_for_user_input, device_canceling, shown, told, jobs, thread, anomalies>>

\* esjm_JobCancel_at_device or esjm_JobCancel_by_user of a copy job
CopyJobCancel ==
  /\ pc["sjm"] = "idle"
  /\ Outstanding # {}
  /\ device_canceling' = TRUE
  /\ UNCHANGED <<count, ids, copy_count, idcopy_active, continuouscopy_active, device_busy,
                 waiting_for_user_input, shown, told, jobs, thread, anomalies>>
-----------------------------------------------------------------------------
(* print_event_cb and copy_event_cb.                                        *)

\* A page of the oldest started job is out.
PageEnd ==
  /\ Started # {}
  /\ LET j == Oldest(Started)
         n == jobs[j].printed + 1
     IN  /\ n <= jobs[j].end
         /\ jobs' = [jobs EXCEPT ![j].printed = n]
         /\ IF device_canceling THEN UNCHANGED <<count, shown>>
            ELSE UpdateCopyPageNumber(count, n, idcopy_active)
  /\ UNCHANGED <<ids, copy_count, flags, told, thread, anomalies>>

\* COPYAPP_EVENT_COPY_PAGE_START or COPYAPP_EVENT_COPY_COMPLETE
Scanned(n) ==
  /\ Outstanding # {}
  /\ count' = [count EXCEPT !.scans = n]
  /\ UNCHANGED <<ids, copy_count, flags, shown, told, jobs, thread, anomalies>>

\* COPYAPP_EVENT_CANCEL
CopyCancel ==
  /\ Outstanding # {}
  /\ idcopy_active' = FALSE
  /\ shown' = Plain("canceling")
  /\ UNCHANGED <<count, ids, copy_count, continuouscopy_active, device_busy,
                 waiting_for_user_input, device_canceling, told, jobs, thread, anomalies>>

\* COPYAPP_EVENT_IDLE
CopyIdle ==
  /\ Outstanding = {}
  /\ shown' = Plain("idle")
  /\ UNCHANGED <<count, ids, copy_count, flags, told, jobs, thread, anomalies>>

\* COPYAPP_EVENT_WAITING_FOR_USER_INPUT, from a job that has begun to copy
WaitingForUserInput ==
  /\ Started # {}
  /\ pc["sjm"] = "idle"
  /\ waiting_for_user_input' = TRUE
  /\ shown' = [Plain("user-input") EXCEPT !.page = count.page + 1]
  /\ UNCHANGED <<count, ids, copy_count, idcopy_active, continuouscopy_active, device_busy,
                 device_canceling, told, jobs, thread, anomalies>>
-----------------------------------------------------------------------------
Next ==
  \/ StartJob \/ UserCancel \/ UserAnswer \/ StartContinuousCopy \/ StopContinuousCopy
  \/ \E c \in Configs : StartJobCounted(c) \/ CopyIdJobStart(c) \/ SettingsSet(c)
  \/ ContinuousCopy \/ CopyJobStart \/ CopyJobDoneCounted \/ OtherJob
  \/ CopyJobCancel \/ PageEnd \/ CopyCancel \/ CopyIdle \/ WaitingForUserInput
  \/ \E j \in JobIds : CopyJobDone(j)
  \/ \E n \in 1..MaxScans : Scanned(n)

Spec == Init /\ [][Next]_vars
-----------------------------------------------------------------------------
TypeOK ==
  /\ count \in [page: Int, set: Nat, scans: Nat, total: Nat, collate: BOOLEAN]
  /\ current_copy_job_id \in JobIds \cup {0} /\ pending_copy_job_id \in JobIds \cup {0}
  /\ copy_count \in 0..2
  /\ \A flag \in {idcopy_active, continuouscopy_active, device_busy, waiting_for_user_input,
                  device_canceling} : flag \in BOOLEAN
  /\ shown \in [state: {"idle", "page-count", "canceling", "user-input"},
                page: Int, set: Nat, total: Nat]
  /\ told \in {"idle", "device-busy", "copy-pending"}
  /\ jobs \in [JobIds -> [phase: {"none", "queued", "started", "done"}, printed: Nat, end: Nat]]
  /\ pc \in [Threads -> {"idle", "start", "done"}]
  /\ seen \in [Threads -> 0..2]
  /\ anomalies \subseteq Anomalies

\* The user is told "busy" only because of jobs that are really there: every job
\* let in takes its place back when it is done, so once no copy job is left the
\* next one is let in (216-225, 461) -- as long as the UI thread and the job
\* manager never write copy_count inside each other's read and write.
PlacesComeBack ==
  "raced" \notin anomalies /\ (\A t \in Threads : pc[t] = "idle") =>
    copy_count <= Cardinality(Outstanding)

\* There are two variables for the ids of the jobs and no test that the second is
\* free (437-449): what keeps a third job from starting over it is copy_count, so
\* it happens only after a lost update of the count or with the jobs of an ID or a
\* continuous copy, which are not counted.
RoomForTwo == "overtaken" \in anomalies => anomalies \cap {"raced", "uncounted"} # {}

\* However many jobs start and in whatever order they end, there are never more ids kept
\* than jobs started, so none stays when the last job is done.  Unless a third job has
\* started or one has ended that never did, there are as many; and unless a job that
\* is still going has been outlived by a later one, the one the pages are counted for
\* is the oldest and the pending one is the one behind it (437-449, 461-470).
Kept == {current_copy_job_id, pending_copy_job_id} \ {0}
InOrder == \A j \in Started, k \in JobIds : jobs[k].phase = "done" => k < j

TracksJobs ==
  pc["sjm"] = "idle" =>
    /\ Cardinality(Kept) <= Cardinality(Started)
    /\ anomalies \cap {"overtaken", "unstarted"} = {} =>
         /\ Cardinality(Kept) = Cardinality(Started)
         /\ InOrder =>
              /\ Kept = Started
              /\ Started # {} => current_copy_job_id = Oldest(Started)

\* The counters after each page of a job but the last, its originals counted before
\* the first one is out, whatever the jobs before have left in them.
AfterPage(c) ==
  LET After[k \in 0..c.total * c.scans - 1] ==
        IF k = 0 THEN [CountPage(Initialized(c), 0, FALSE) EXCEPT !.scans = c.scans]
        ELSE CountPage(After[k - 1], k, FALSE)
  IN  After

\* Fed with every page of a job, the counter shows each time the page and the set
\* that come next, and the end of the job exactly after its last page (72-136).
Counts(c) ==
  LET Page(k) == 1 + IF c.collate THEN k % c.scans ELSE k \div c.total
      Set(k) == 1 + IF c.collate THEN k \div c.scans ELSE k % c.total
      Shows(k, d) == d = [state |-> "page-count", page |-> Page(k), set |-> Set(k),
                          total |-> c.total]
      last == c.total * c.scans
  IN  /\ Shows(0, Display(Initialized(c), 0, FALSE))
      /\ \A k \in 1..last - 1 : Shows(k, Display(AfterPage(c)[k - 1], k, FALSE))
      /\ Display(AfterPage(c)[last - 1], last, FALSE) = Plain("idle")

CountBound == 4
CountsPages ==
  Outstanding = {} =>
    \A total, scans \in 1..CountBound, collate \in BOOLEAN :
      Counts([count EXCEPT !.scans = scans, !.total = total, !.collate = collate])
=============================================================================

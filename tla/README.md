# A verification project for `ui_system_interface`

`src/ui_system_interface` is the layer between the firmware of a printer (ThreadX, C) and
its user interface.  Components below it (print, copy, scan, wireless, network, ...) report
states and events; the layer turns them into text messages for the registered UI callbacks
and routes what the user answers back to the component that asked.  The calls arrive on the
threads of the components, the timer thread and the thread of the UI; very little is locked.

This directory models that layer in TLA+, model-checks it with TLC and proves its safety properties with
TLAPS.  `utils`, `copy`, ... below stand for
`src/ui_system_interface/src/ui_system_interface_utils.c`, and so on; numbers are lines.

## 1. Inventory

| component | state | operations | talks to |
|---|---|---|---|
| status manager (utils 193-611) | `module_statuses` (entry, data block, timer by module), `num_modules_registered`, `worst_index`, static `prev_worst_entry`; `ui_sys_status_mutex` around a row update, the search for the worst and a registration, but not around the whole report | register, `ui_sys_notify_ui_of_status`, timer callback, rebroadcast, user feedback | all components report to it; it calls the UI callbacks and the feedback handlers |
| status table (status 73-271) | constant | look up a state, look up a module's idle state | status manager |
| event queue, output callbacks (utils 66-104, 927-1208, 1438-1499) | `event_notify_initialized`, linked list `kmsg_queue`, its lazily created semaphore, `saved_output_callbacks[5]` | `ui_sys_notify_ui_of_event`, queue before initialisation, purge, post, register a callback | all components post to it |
| data blocks (utils 1222-1436) | text, size, capacity, number of fields | create, add an int or a string, dispose | made by reporters, owned by a row or an event |
| copy (copy) | `copy_count`, current and pending job, page and set counters, five flags | start, ID copy, continuous copy, answer, cancel; job-manager, copy-application and page-end callbacks | status manager |
| print (print) | retry and cancel callback, two paper-out flags | engine, page and media-prompt callbacks; answer | status manager |
| scan (scan) | device state, paper sensor, running applications | scan-manager, SOAP and WSD callbacks; answer | status manager |
| wireless (wireless 36-334) | link flag, signal timer, WPS session flag | link and WPS callbacks; answer | status manager, event queue |
| network (network 1092-1240) | `iface_info` by interface | link-event callback, registration | event queue |
| power manager (powermgr) | the wake mask of the power schema | six read-modify-write setters | power schema |
| start of the components (utils 141-191, the `*_init` functions) | the rows and observers registered so far | init functions, run by the level-1 init thread while the observed subjects are already alive | all of the above |
| IP settings (network 40-1093, wirednetwork 68-85) | `new_IP_address`, `new_subnet_mask`, `new_default_gateway`; the settings themselves are kept by the network stack by interface | getters, setters, manual/automatic switch, restore defaults | network stack |
| wireless settings (wireless 336-1187) | none; the wireless library keeps them | getters and setters of modes, keys, names; enable; restore defaults | wireless library |
| other settings of wired network, platform, consumables, copy | none of their own | getters and setters that pass their argument on | libraries |
| fax (fax) | - | not called by `ui_sys_init`; line 101 does not compile | - |
| debug and test commands (utils 618-926, test) | none | console | the others |

**What is hard.** (1) A status report is six separately interruptible steps on unlocked
globals; two reports, or a report and a timer, interleave.  (2) Events posted before, while
and after `ui_sys_init` runs go through a queue whose semaphore is created by whoever comes
first, and that several threads purge.  (3) Data blocks change owner at each step.  (4) The
components pair events that come in either order on two threads with Boolean flags: prompt
and answer, jam and cancel, link and status, end of session and cancel.  (5) Counters and ids
of jobs are kept in step with a job manager that calls back.  (6) The subjects are alive before
the init functions attach their observers, so a status can be missed, or overtaken by the one the init
function has read.  (7) Settings are read, changed and written back in calls of their own,
and the setters and getters of one setting do not check the same things.  `PROJECT.json` lists each hazard
at its line with the properties that would catch it, or the reason none does.

**What makes each component correct.** The display shows the worst status, with its data, and
does not keep another one; nobody meets an empty row once the first has its entry; transitory states go away and only they do; blocks are freed once and never used after; every event is delivered
at most once, those of a component in the order it sent them as far as the queue goes, and no
call hangs; every copy place comes back and the page counter shows the
right page; a prompt can be answered, and one OK answers one prompt; a jam stays visible; timers
and handles agree; the UI is told the truth about the link, and misses no status at the start;
what was asked for last is what is got; an assertion only stops who has ignored an answer.

## 2. Modules

### `StatusManager` (status manager, status table, ownership of data blocks)
One action per interruptible step of `ui_sys_notify_ui_of_status`, by the thread's `pc`:
`update` (`UpdateModuleStatus`, under the mutex: dispose of the old block, cancel the timer,
store, start a timer) - `scan` (`Scan`, under the mutex: *an* index of the worst row) -
`publish` (`Publish`: write `worst_index`) - `load` (`LoadWorstEntry`) - `compare` (`Compare`)
- `commit` (`Commit`) - `gather` (`Gather`: four reads of the row `worst_index` names, in any order) -
`post` (`Post`).  C leaves the order in which arguments are evaluated open, so `Gather`
reads the fields in every order.  `Register` is the init thread, `Report` a component or the
debug command `state set`, for a module registered or not (686), `Expire` the timer callback,
`Rebroadcast`, `Feedback` and `FeedbackTo` the UI.  None of them waits for a module to be
registered.  What stops the machine then is a place of its own: the ASSERT of a module that is not
registered (325, `AssertRegistered`; `FeedbackTo`) is `pc = "ASSERT"`, the dereference of a row without an
entry (292, 437; `GatherNull`, `LoadWorstEntry`) is `pc = "NULL"`, and after either nothing moves (`Halted`).
The status table, the rows, the reports, the threads and the blocks are CONSTANTS;
`TableAssumption`, `IdleAssumption`, `ModuleAssumption` and `ThreadAssumption` say what the code relies on: keys
are unique, a module with a transitory state has an idle entry, entries without a message code are
idle ones, every module registers once and with a state of the table for the first.

`StatusBoard` is what the manager promises: a current status by module and a display that,
when it changes, changes to a worst status, and that does not stay wrong (weak fairness of
`Correct`).  `Board` in `StatusManager` maps the manager's state to the board's and
`ImplementsBoard` states the refinement; `MCStatusManager` gives both a small printer.

### `EventQueue` (event queue, output callbacks)
Init thread, posting threads and UIs.  A post is `check` - (queue: `ensure`/`create`/`created`,
`acquire`, `locked`, `release`) or (`purge` ..., then `post`, `notify` for each slot,
`posted`).  `Starved` are the events whose queue entry cannot be allocated.  A failed ASSERT
halts the printer (`pc = "ASSERT"`, `Halted`).

`EventMailbox` is what the queue and the table of callbacks together promise.  An event is `new`,
`sent` (its sender is in its call), `stored`, `out` (a thread hands it to the callbacks) and `over`; when it
comes out it is owed to the UIs that listen, and it is over only when it is owed to none.  It comes out of the
store after its sender's earlier ones, only an event there is no memory for may be lost, and a UI
that comes while an event is out may get it, but not twice.  `Stage`, `Listening` and `Owed` in
`EventQueue` are the refinement mapping (`Mailbox`): an event is out while a thread has it from the dequeue, or
from the end of the purge before its own post, and it is owed to the UIs in the slots from
the thread's `slot` on.  `ImplementsMailbox` states the refinement.  It is about safety: that what is
stored comes out at all depends on another event being sent (utils 1481), except at boot (`BootFlushes`).

### `CopyJobs` (copy)
`count` holds the page counter as a record; `CountPage`/`Display` are
`update_copy_page_number`.  `jobs` is the job manager's side (external): a job is queued,
started, printed page by page and done.  `copy_count` is read and written in two steps, by the
UI thread (`StartJob`, `StartJobCounted`) and by the job manager's (`CopyJobDone`,
`CopyJobDoneCounted`), which interleave.  The handler of `esjm_JobDone` does not look at the id
(457-470), so `CopyJobDone` ends any job there is, in whatever order, also one that has never started
(cancelled while it was queued); that jobs *start* in the order of their ids is an assumption about the job
manager.  The history variable `anomalies` notes what has gone
wrong so far: `raced` (one thread has written the count inside the other's read and write),
`uncounted` (a job of an ID or a continuous copy, which is not counted, runs), `overtaken` (a third job
has started over the pending id), `unstarted` (a job that never started was reported done).  The properties
say which of them can cause what: without a race no place is lost (`PlacesComeBack`), and a third job starts
only after a race or an uncounted one (`RoomForTwo`).  `TracksJobs` has three parts: there are never more ids kept than
jobs started; unless a job was overtaken or unstarted there are as many; and, as long as besides no started job has been
outlived by a later one, the current id is the oldest job's and the pending id that of the one behind it.  After jobs
have ended out of order the code keeps the id of a job that is over, and the last part is not so.
`copy_pagenumber` is an unsigned 32-bit number that `copy 690` and `701` may decrement at zero;
the model keeps its signed reading, which is what the next increment restores.  `copy_from_adf` is written and never
read and is left out.

### Components without shared state: `Components`, `MCComponents`
`PrintPrompts`, `ScanStatus`, `Wireless`, `DataBlock`, `NetworkEvents`, `WakeEvents`,
`InitOrder`, `IpSettings`, `WirelessSettings`: one
callback is one step, except where threads meet on unlocked variables: the answer of the user in print
and WPS, the flags and the report of a scan event, the accesses to the signal timer's handle,
the reads and events of the network callback, the read and the write of the wake mask, the
steps of an init function, the calls of an IP switch.
Variables named `row` stand for the component's row of the status manager, whose rule "a state without
an entry is ignored" is the operator `Notify`.

`Components` puts an instance of each side by side: a step is a step of one of them and leaves
the others alone, so a behaviour of `Spec` is one of each component, with the others stuttering.
The theorems are about that.  `MCComponents` chooses a component by `focus` and runs it alone:
what one component can reach does not depend on the others, and the states TLC visits are the sum
and not the product of theirs.

- `ScanStatus`: four threads (scan manager, SOAP and WSD applications, UI) each set and read the flags in
  one step and report in another, with the others in between (`Decide`, `Report`).  `outdated` holds the
  threads whose flags have changed since they read them, and `stale` says that the row was last written by one of
  them: the end of a calibration (275-278) can put "scanning" on the row after the scan has ended, and
  `ScanningIsRunning` says that only this and a SOAP scan that timed out leave it there wrongly.
- `Wireless`: the observer's thread and the init thread share the link flag and the timer's handle, and
  every access is a step: `LinkEvent` sets the flag, then `StartTimer` and `StoreTimer`, or `TestTimer`,
  `CancelTimer` and `ClearTimer`.  `meeting` says whether both have been under way at once.  From then until the
  link next goes down (`"crossed"`) the link may be up with a NULL handle, or the handle that of a cancelled timer, and
  `HandleIsLive` claims nothing; afterwards (`"recovered"`) it holds again.  `reconnects` counts how often the link was
  reported connected while up: each such report leaves one timer running without a handle, and no timer is lost otherwise.
- `DataBlock`: of a text only its length.  `Capacities` are the 26 sizes the doubling reaches
  before an `int` overflows, and `LongestText` (ten million characters) bounds what
  a field may hold so that 99 of them fit; the strings the layer is given are names, pins and typed words.
- `NetworkEvents`: the init thread's own call of the callback (network 1226) may overlap the
  stack's; `overlapped` notes it, and both properties hold until then and fail after.
- `InitOrder`: an init function is a record of what it registers, attaches and looks at, in the
  source's words, and runs in the stages of `Stages`.  A subject changes and calls back in two
  steps, so the call may fall between any two stages.  `RegisteredFirst` is the comment
  "before attaching any observers, register" over all components: copy reports for the module
  `system`, which the platform's init function registers, so a build without the platform is in the run
  and excepted.  The WSD scans are observed for whoever calls `attach_wsd_observer` (scan 453-461; nobody in
  this repository does), at any time (`AttachWsd`, `DetachWsd`): one that attaches it before scan is registered
  (`wsd_early`) is excepted too.  `NothingMissed` excepts a call that arrives between an init function's look at its
  subject and its own report (`crossed`): there the older status is told last, and stays until
  the next change.
- `IpSettings`: two threads and every kind of call of network 253-1093, each kind on one setting.
  The expectation comes from the callers and not from the code: `watched` is one setting (an address, the name, or one of the
  two options, as 1 or 0), any of them, and `asked` the last request for it.  `SettingsHold` says that what was asked for last is what
  is got, whatever else is set and however the switch between manual and automatic, which reads, changes and writes back the
  options in calls of their own, interleaves with it.  Where a caller would expect this in vain `asked` is `NoRequest`, and the
  model shows why: `SetManual` clears the manual addresses (1054-1060), `restore_defaults` restores an
  interface that nothing is set on (78-84), an IPv6 address is stored as garbage (1001), and two overlapping requests for
  the same setting undo each other.  Every type of network has the access point's interface (66), so the last request is the
  last for any type: that one type keeps its setting while another's is set is not so, and not claimed.
- `WirelessSettings`: of each mode only whether it is one the library knows.  A setter that
  answers false has stored the mode (644-664, 812-838, 875-901, 1027-1053), and two of the getters then assert.

### Proof modules
`StatusManagerProofs` and, over it, `StatusSerialProofs`; `EventQueueProofs`; `CopyJobsProofs`; and for the
components side by side `NetworkEventsProofs`, `InitOrderProofs`, `SettingsProofs` (wake mask, IP and
wireless settings) and `ComponentsProofs` (print, scan, wireless, data blocks, and the types of all nine).

## 3. Runs

| run | what it checks | bounds |
|---|---|---|
| `StatusSerial` | calls taking turns: overall is the worst, with its data; feedback reaches the module shown; expiry; implements `StatusBoard` | 3 modules, 7 entries, 8 reports, a component thread, a timer thread and the init thread, 4 blocks |
| `StatusConcurrent` | every interleaving: ownership, timers, who meets a NULL entry, transitory states end | 2 modules, 5 entries, same threads, 2 blocks; `Overlap` |
| `EventQueue` | exclusion, ownership, order by sender, flush at boot, calls return; implements `EventMailbox` | 2 posters (2 and 1 events, one starved), 2 UIs, 1 slot |
| `CopyJobs` | places, ids, page counter, two threads | 4 jobs (`MaxJobs`), at most 3 started at once (`MaxStarted`), ended in any order, up to 2 originals, 2 copies; `CountsPages` checks the counter for all jobs of up to 4 x 4 pages |
| `Components` | the nine small components | 2 OKs per job, 3 timers, 2 links, 100 fields, 2 wake events, 2 threads, 2 values of a setting, 3 builds (`Builds`); `UntilExcepted`, `FewAtOnce` |
| `StatusStaleOverall`, `StatusUseAfterFree`, `StatusStaleExpiry` | *violations*, see below | as `StatusConcurrent`, but `Started` |
| `EventAssert`, `EventLost` | *violations* | as `EventQueue` |
| `PrintDoubleRetry`, `ScanJamCovered` | *violations* | as `Components` |

**Why the bounds are enough.** The races of the status manager need a reporter and a timer or
the init thread, two rows of different severity and a second block to replace the first; the
data race on a row needs nothing more.  The queue needs two posters (for the creation race and
for two purgers), one of them with a second event to enqueue behind its first; one slot with
two UIs makes registration race and overflow.  A walk over a table of several
slots, overtaken by registrations, is left to the proof of `ImplementsMailbox` (section 4), which is for any number of them;
with `MAX_NUM_CALLBACKS = 2` and without the liveness properties TLC also passes, with 314 080 states.  Two started copy jobs are the current and the
pending one; the third starts over the pending id, and a fourth waits.  The builds of `InitOrder` are the
whole one, one without the platform, and the platform with one other component: the init
functions run one after the other, so more builds add no order.  The tables of print and scan have one entry of each kind.  Two values tell a setting that was changed from one that was
not; two threads are enough for one to write inside the switch of the other.  100 fields take a data block past both
changes of the index's width and to its limit.  `VIEW WithoutDisplay` (`StatusConcurrent`,
`CopyJobs`) leaves out of the state TLC compares what no step of the rest depends on: the text shown, and in
`CopyJobs` the page counter that drives it (so `TypeOK` and `CountsPages` see one counter for each
state of the rest).

**Assumptions of `SerialSpec`.** In `StatusManager` no call starts while another runs; it separates what the
algorithm does from what its missing lock does: the same properties that hold here fail in
the violation runs.

**`ConcurrentSpec` and `StartedSpec`** (`MCStatusManager`).  `Overlap` lets two of the three threads be in a call at once
while the init thread is in one, and all of them once it is done registering; the proofs of
section 4 are about `Spec`, which has no such bound.  The violation runs use `Started`: components and timers begin
when every module is registered, so that what they show is not an effect of the start.

**`CONSTRAINTS UntilExcepted FewAtOnce`** (`Components`).  `UntilExcepted`: once two calls of the network's callback have
overlapped, or the WSD scans were observed too early, `ToldTheTruth`, `SwitchTellsDown` and `RegisteredFirst`
claim nothing; TLC checks such a state (and the type invariants in it) but does not go on from it.  `FewAtOnce` is a bound: at most
two of the four scan threads are about to report, the paper sensor fails or sees no paper, and one of the IP
settings differs from its default.  The invariants are proved without it.  The run has 431 865 states.

**Fairness.** Started calls run on: every thread of a preemptive kernel is scheduled, and no
step waits except for the mutex, held for one step, and the event semaphore, for which a thread
gets its turn (strong fairness of `AcquireSemaphore`; ThreadX queues waiters in order), unless the machine has
stopped (`~Halted`).  The init thread registers its modules, and an armed timer runs out.  Nothing is assumed about
components, users or the network: `TransitoryEnds` therefore speaks of the time when components are silent.

**What the violations show.**
- *StatusStaleOverall*: a thread interrupted between line 434 and its post lets another
  show a newer worst status and then writes its own; `prev_worst_entry` makes later calls
  believe that the display is right (utils 437), so it stays wrong.
- *StatusUseAfterFree*: the post reads the row's block (466) after the mutex was put; the
  next report of the module disposes of it (336-338).
- *StatusStaleExpiry*: a timer callback that has started is not stopped by the cancel (341) and
  puts the row to idle over the state that replaced the transitory one.
- *EventAssert*: of two purgers one finds the list empty after its unlocked test (1182, 1186).
- *EventLost*: `init_output_callbacks` empties the table just before the purge, so queued
  events are sent to nobody (1206).
- *PrintDoubleRetry*: `paper_out_user_ok_received` survives an OK passed on at once (110) and answers
  the next prompt too.
- *ScanJamCovered*: an IDLE, COMPLETE or START event resets the state that the guard at 265 reads.

## 4. Proofs

Every invariant of the runs is proved for all values of the constants, and so are every action property, the
refinement of `EventMailbox` and the safety part of that of `StatusBoard`.  Each proof follows the same plan: an inductive invariant that names its parts,
one lemma or step for each action, and the property as a consequence.  TLC checked each
strengthening as an invariant of the component's run before it was proved.

### The status manager
Assumptions: the four named in section 2.  `StatusManagerProofs` is about every
interleaving (`Spec`):

| theorem | property | argument |
|---|---|---|
| `TypeCorrect` | `TypeOK` | inductive as it stands |
| `DataOwnership` | `DataOwnedOnce` | inductive given the types; only four operations (`FourOperations`) touch blocks, rows or arguments |
| `TransitoryGuarded`, `TimersBelong` | `TransitoryHasTimer`, `TimerOnlyForTransitory` | `TimerInv`: the two with `EntryRegistered` (only registered rows have an entry) and `ResetStateKnown` (a timer callback carries a registered module and a state of the table, else the reset would fail or be ignored and the row be stuck) |
| `NoNullDereference` | `NoNullEntry` | `EntryInv`: with `BootFirst` (until the first row has its entry the init thread is about to give it one, and no timer has run) and `WorstHasEntry` (`worst_index`, and every index about to be published, names a row with an entry or the first row; rows never lose theirs) |

Entries are dereferenced without a check (292, 437, 451, 464) although rows are registered before they have one.  A caller that
comes before the first module has its state does meet a NULL: a rebroadcast at 292, a report whose state
the table does not know at 437.  `NoNullDereference` says that these are the only ones: the init thread and the timers never do,
nor does any caller once the first row has its entry, however many rows still wait for theirs.

`StatusSerialProofs` is about calls that take turns (`SerialSpec`), over the invariants above:

| theorem | property |
|---|---|
| `OverallShowsWorst` | `OverallIsWorst` |
| `OverallDataIsCurrent` | `OverallHasCurrentData` |
| `DataOutlivesMessage` | `NoUseAfterFree` |
| `FeedbackIsRouted` | `FeedbackReachesShown` |
| `ExpiryIsTimely` | `ExpiryEndsTransitory` |
| `BoardRefined` | `Board!Init /\ [][Board!Next]_(Board!board)`, the safety part of `ImplementsBoard` |

`SerialInv` follows the one running call (`OneAtATime`) through its labels.  The properties speak of the time between calls;
to be inductive they need what a call knows in the middle: from which label on
`worst_index` is the worst row's (`WorstKnown`), that `prev_worst_entry` is that row's entry
outside of a notification (`PrevIsWorst`), that the overall message shows `prev_worst_entry` except between gathering
and posting, with its data or with new data on the way (`OverallIsPrev`), and what
of the message has been evaluated (`Gathered`).  The static `prev_worst_entry` is thus the cache of what
is on the display, and the proof shows where the lock is missed: `WorstKnown` fails as soon as
a second call moves.  For `BoardRefined` an update of a row is the board's `Change`, the
post its `Show`, and every other step a stutter.

### The event queue
`EventQueueProofs`, from `EventAssumption` (posters, UIs and the init thread are different, there is at
least one slot), for every interleaving, also those in which the code's ASSERT fails:

| theorem | property | part of the invariant |
|---|---|---|
| `TypeCorrect` | `TypeOK` | |
| `QueueIsExclusive` | `QueueExclusive` | inductive with the types: only a free semaphore is got and only by its holder put, and it is created at most once |
| `EventsOwnedOnce` | `EventOwnedOnce` | `Hands`: what each thread holds at each label; `Ordered`; `Allocated`: a block lives as long as its event is held or queued |
| `EventsReceivedOnce` | `ReceivedOnce` (no run of its own: the mailbox implies it) | `Delivered`: an event a UI has been called with is out of the queue, and who still holds it is past that UI's slot; `Registered`: a UI is in one slot |
| `EventsInOrder` | `InOrder` | `Ordered`: the queue is in the order of sending by component, what was taken is earlier, what is still held is later, and a component posts its own event when none of its earlier ones is queued |
| `MailboxRefined` | `ImplementsMailbox` | `TypeOK`, `Hands`, `Ordered` and `Registered` |

For `MailboxRefined`, `StagesByPlace` says which stage an event is at, and to whom it is owed, by where it
is: `Hands` and `Ordered` make the places exclude each other (`HeldOnce`).
`StageKept` then leaves one or two events to look at for each step of a thread: the event it sends and the entry it took.
`Notify` is the mailbox's `Send`, `Enqueue` its `Store`, `Dequeue` of an entry its `Take`, and so is the test
that finds the queue empty before a thread's own post; a starved event's return is `Lose`, `NotifyCallbacks` is `Call` or, at an
empty slot, nothing; `DisposeKmsg` and `Return` are `Finish`, the steps of the init thread and of the UIs
`Listen`.  `Ordered` is what `Take` needs (the head of the queue is its sender's earliest), and `Registered`
what `Call` needs: a UI in the table is in the slot it found, so a walk that goes up by one slot at a
time neither comes to it twice nor passes it; a UI that loses its slot to another no longer listens, and is owed nothing.

### Copy jobs
`CopyJobsProofs`, from `CopyAssumption` (sizes are positive, an uncounted scan is
larger than any counted one), for every number of jobs:

| theorem | property | part of `CopyInv` |
|---|---|---|
| `CopyTypes` | `TypeOK` | `TypeOK`, with the lemma that the page counter wraps into 1 to its size |
| `PlacesAreReturned` | `PlacesComeBack` | `Counted`: `copy_count` is the number of outstanding jobs and of the end being counted; at most that once an uncounted job has run |
| `JobsAreTracked` | `TracksJobs` | `JobsInOrder` (the job manager takes jobs by id) and `Followed`: the ids kept are at most the started jobs and the one whose end is being counted, and as many while nothing was overtaken or unstarted (`Regular`); they differ from each other (`KeptApart`); and, while jobs end in order, they are the started jobs, oldest first (`Tracked`) |
| `TwoIdsSuffice` | `RoomForTwo` | `Labels` and `Counted`: a third job needs a count that is too low |
| `EveryPageIsCounted` | `Counts(c)`, for counters `c` with any number of originals and copies | the counters after the page `k` are known in closed form (`At`, by well-founded induction on `k`); `WrapCounts`: one wrap is the step from `k` to `k + 1` of quotient and remainder (`DivisionNext`) |
| `PagesAreCounted` | `CountsPages` | `TypeOK`, for the counters a job finds |

### The other components
Theorems of `Components!Spec`, from `ComponentAssumption`: the status table knows the states a job or a scan
starts in, numbers have at most 11 characters, texts at most `LongestText`, and 0 is a value.  A
`...Slice` lemma takes each from the component's own specification to the nine side by side.

| theorem | property | inductive invariant |
|---|---|---|
| `RetryIsEarned`, `PromptCanBeAnswered` | `RetryNeedsOk`, `PromptIsLive` | `PrintInv`: an OK that is remembered or on its way was pressed during this job; a prompt that is being answered counts as answered |
| `ScanningRowIsTrue` | `ScanningIsRunning` | `ScanInv`: a thread about to report "scanning" whose flags have not changed since has them say so; a row that says "scanning" and is not stale has the flags with it, a time-out, or an "idle" on its way |
| `TimerHandleIsLive`, `WpsProgressIsTrue` | `HandleIsLive`, `ProgressIsActive` | `WifiInv`: unless the threads have met, all but one are at rest (`WifiLink`), and `Place` and `Counted` say what that one, where it is, makes of the handle and of the number of running timers; with `ProgressIsActive` |
| `BufferHoldsText`, `RoomIsExact` | `TextFits`, `BytesAgree` | `BlockInv`: with a bound on the size by the number of fields, so that a doubled capacity that is large enough exists (`DoubledSuffices`), and `FieldLength`: the room computed is the room taken |
| `UiKnowsTheLink`, `SwitchIsTold` (an action property) | `ToldTheTruth`, `SwitchTellsDown` | `NetInv`, until calls overlap: the init thread's call comes first, what was read is true unless an event is pending, `iface_info` is what was told last |
| `NoStatusTooEarly`, `NoStatusIsMissed` | `RegisteredFirst`, `NothingMissed` | `OrderInv`: init functions run in order (`Ordered`), what is registered, and what is attached but for the WSD scans, is what the stages done say (`Recorded`), the WSD scans are observed after scan is registered or too early (`WsdObserved`), what was told of a quiet subject, or is read of it and not yet told, is true (`Noticed`, `ReadIsTrue`); for any set of builds |
| `WakeMaskIsKept` | `WakeSettingsHold` | `PowerInv`: one setter at most has read the mask, and it still is what that one read |
| `HeedingCallersNeverStop` | `StopsOnlyOnRefused` | `ModesInv`: a mode whose getter would assert was refused when it was set |
| `SettingsAreKept` | `SettingsHold` | `IpInv`: all calls are about the one interface; a text is what was asked for as long as no switch is left that writes it (`TextKept`); an option is as asked for in the options each switch under way is about to write, and in the interface's when none is (`OptionKept`) |
| `ComponentsTyped` | `TypeOK` | the nine type invariants, each with the invariant above where it needs one |

### Only model-checked
`TransitoryEnds`, `BootFlushes`, `CallsReturn` and the fairness of `ImplementsBoard` are liveness, which
TLAPS cannot prove here (it has no rule for `ENABLED`, and so none for fairness).

## 5. Not modelled

Texts, logging, console parsing; getters and setters that pass values on; the text of messages;
fax (does not build, not called); the callbacks of platform and consumables beyond their start
(reports and events like those of any other component); the getters of what the network stack
finds out by itself (DHCP, origins, leases), which this code never writes;
`ui_sys_network_network_status_get`, whose `ASSERT(status != status)` (130) fails on every call of a build that
checks assertions; WEP keys, names and passphrases of the wireless library; the continuous-scan row of copy; `is_aspscan_running` (constant FALSE here).
Five smaller hazards are left out of the list in `PROJECT.json`, which names the 40 that matter most: a debug
build's look at a queue entry after the semaphore is released (utils 1138), the one key length for four WEP keys
(wireless 503), the padding of characters below 16 in `url_encode` (utils 1257), the swapped arguments of
`inet_pton` (network 1001; `Ipv6Set` stores any value), and the page number decremented at zero (copy 690).
A failed creation of the mutex or the semaphore ends in an assertion and is not followed further.

## 6. Plan

1. **Abstract specifications.**  A job board for `CopyJobs` (each job accepted, counted, printed and
   its place given back), with its refinement proved over `CopyInv`.
2. **Action properties.**  That a place, an id or a row changes only in its own call, for the components whose
   invariants are proved.
3. **More of the system.**  The settings a second start overwrites under a running job (copy 182-183)
   and `device_canceling` (437, 468), if a statement of what the display owes the user is found;
   data blocks passed end to end; the continuous-scan row of copy.

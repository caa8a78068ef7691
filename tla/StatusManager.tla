---------------------------- MODULE StatusManager ----------------------------
(***************************************************************************)
(* The status manager of ui_system_interface_utils.c with the status table *)
(* of ui_system_interface_status.c.  Every module of the printer (system,  *)
(* print, scan, copy, ...) registers a row and reports state changes; the  *)
(* manager keeps the current table entry of each row and broadcasts the    *)
(* worst one to the UI as the "overall" status.                            *)
(*                                                                         *)
(* Reports arrive on the threads of the components.  The row update and    *)
(* the scan for the worst row hold ui_sys_status_mutex and are one step    *)
(* each; worst_index, the static prev_worst_entry and the fields the       *)
(* overall broadcast is built from are read and written without it, one    *)
(* access per step.  Rows and table entries are numbered from 1, 0 is NULL. *)
(* A failed ASSERT or the dereference of NULL stops the machine.           *)
(***************************************************************************)
EXTENDS Integers, Sequences, FiniteSets

CONSTANTS
  DispStatusMessage, \* the status table: entries [type, code, module, state]
  Registrations,     \* [module, state] in the order the init thread registers
  Reports,           \* [module, state, data]: what is reported, by whom and when ever
  Listeners,         \* the modules registered with an input callback
  Boot,              \* the level-1 init thread
  Callers,           \* the component and UI threads that call in
  TimerThreads,      \* the threads that run timer callbacks
  Blocks,            \* the addresses data blocks are allocated at
  NoBlock            \* the NULL data block handle

Threads == {Boot} \cup Callers \cup TimerThreads
Rows == 1..Len(Registrations)
Entries == 1..Len(DispStatusMessage)
NoEntry == 0
Handles == Blocks \cup {NoBlock}
Modules == {Registrations[i].module : i \in Rows}
Types == {DispStatusMessage[e].type : e \in Entries} \cup {"MSG_READY"}
NONE == 0 \* UI_SYS_STATSEV_NONE | UI_SYS_STATPRI_0

\* The table is written by hand: a key appears once, a module has at most one
\* idle entry, and every module with a transitory state has one.
ASSUME TableAssumption ==
  /\ DispStatusMessage \in Seq([type: STRING, code: Nat, module: STRING, state: STRING])
  /\ \A e, f \in Entries :
       /\ DispStatusMessage[e].module = DispStatusMessage[f].module
       /\ \/ DispStatusMessage[e].state = DispStatusMessage[f].state
          \/ DispStatusMessage[e].code = NONE /\ DispStatusMessage[f].code = NONE
       => e = f
  /\ \A e \in Entries : DispStatusMessage[e].type = "MSG_TRANSITORY" =>
       \E f \in Entries : /\ DispStatusMessage[f].module = DispStatusMessage[e].module
                          /\ DispStatusMessage[f].code = NONE

\* An idle entry is of the type Commit gives an idle printer's message.
ASSUME IdleAssumption ==
  \A e \in Entries : DispStatusMessage[e].code = NONE => DispStatusMessage[e].type = "MSG_READY"

\* Modules register once, the first of them with a state the table knows.
ASSUME ModuleAssumption ==
  /\ Registrations \in Seq([module: STRING, state: STRING])
  /\ Len(Registrations) > 0
  /\ \A i, j \in Rows : Registrations[i].module = Registrations[j].module => i = j
  /\ \E e \in Entries : /\ DispStatusMessage[e].module = Registrations[1].module
                        /\ DispStatusMessage[e].state = Registrations[1].state
  /\ Reports \subseteq [module: STRING, state: STRING, data: BOOLEAN]
  /\ Listeners \subseteq Modules

ASSUME ThreadAssumption ==
  /\ Boot \notin Callers \cup TimerThreads
  /\ Callers \cap TimerThreads = {}
  /\ NoBlock \notin Blocks

VARIABLES
  registered,       \* how many rows of module_statuses have a module_name
  entry,            \* module_state_entry of each row
  data,             \* status_data of each row
  timer,            \* module_status_timer: "none", "armed", or "expired"
  worst_index,      \* the file's global of that name
  prev_worst_entry, \* the static of ui_sys_notify_ui_of_status
  live,             \* the data blocks allocated and not disposed
  overall,          \* the last scope=overall message the UI received
  routed,           \* the module that last received user feedback
  pc,               \* where each thread is
  req,              \* the arguments of its call
  index,            \* the index get_worst_module_index returned to it
  worst_entry,      \* its local of that name
  msg               \* the overall message it is building

table == <<registered, entry, data, timer, live>>
local == <<req, index, worst_entry, msg>>
vars == <<registered, entry, data, timer, worst_index, prev_worst_entry, live,
          overall, routed, pc, req, index, worst_entry, msg>>

Module(i) == Registrations[i].module
Code(e) == DispStatusMessage[e].code
Halted == \E t \in Threads : pc[t] \in {"ASSERT", "NULL"}
IsTransitory(e) == e # NoEntry /\ DispStatusMessage[e].type = "MSG_TRANSITORY"

NoRequest == [module |-> Module(1), state |-> Registrations[1].state, data |-> NoBlock]
NoMessage == [todo |-> {}, module |-> Module(1), state |-> NoEntry,
              type |-> "MSG_READY", data |-> NoBlock]

Init ==
  /\ registered = 0
  /\ entry = [i \in Rows |-> NoEntry]
  /\ data = [i \in Rows |-> NoBlock]
  /\ timer = [i \in Rows |-> "none"]
  /\ worst_index = 1
  /\ prev_worst_entry = NoEntry
  /\ live = {}
  /\ overall = NoMessage
  /\ routed = Module(1)
  /\ pc = [t \in Threads |-> "idle"]
  /\ req = [t \in Threads |-> NoRequest]
  /\ index = [t \in Threads |-> 1]
  /\ worst_entry = [t \in Threads |-> NoEntry]
  /\ msg = [t \in Threads |-> NoMessage]
-----------------------------------------------------------------------------
(* Lookups.  Each is a predicate on the value the C function returns.       *)

\* find_module_state_entry(m, s) returns e
FindsEntry(m, s, e) ==
  \/ /\ e \in Entries
     /\ DispStatusMessage[e].module = m
     /\ DispStatusMessage[e].state = s
  \/ /\ e = NoEntry
     /\ \A f \in Entries : DispStatusMessage[f].module = m => DispStatusMessage[f].state # s

\* Mutant: the severity test is missing, so any entry of the module will do.
FindsAnyEntry(m, e) == DispStatusMessage[e].module = m

\* findOnlineStatusForModule(m) returns the state of entry e
FindsOnline(m, e) ==
  /\ DispStatusMessage[e].code = NONE
  /\ DispStatusMessage[e].module = m

\* Mutant: with every module idle the last row is returned, entry or not.
IsWorstOrLast(i) ==
  LET Reporting == {j \in Rows : entry[j] # NoEntry}
  IN  \/ /\ i \in Reporting
         /\ Code(entry[i]) > NONE
         /\ \A j \in Reporting : \/ Code(entry[j]) < Code(entry[i])
                                 \/ Code(entry[j]) = Code(entry[i]) /\ i <= j
      \/ /\ i = registered
         /\ \A j \in Reporting : Code(entry[j]) = NONE

\* get_worst_module_index() returns i: the scan starts at row 1 with severity
\* NONE, skips rows without an entry and moves only to a strictly worse row.
IsWorst(i) ==
  LET Reporting == {j \in Rows : entry[j] # NoEntry}
  IN  \/ /\ i \in Reporting
         /\ Code(entry[i]) > NONE
         /\ \A j \in Reporting : \/ Code(entry[j]) < Code(entry[i])
                                 \/ Code(entry[j]) = Code(entry[i]) /\ i <= j
      \/ /\ i = 1
         /\ \A j \in Reporting : Code(entry[j]) = NONE
-----------------------------------------------------------------------------
(* Calls into the manager, each by an idle thread.                          *)

Goto(t, label) == pc' = [pc EXCEPT ![t] = label]

BeginNotify(t, m, s, d) ==
  /\ Goto(t, "update")
  /\ req' = [req EXCEPT ![t] = [module |-> m, state |-> s, data |-> d]]

\* ui_sys_register_module_for_status: the init thread takes the next row, then
\* reports the module's initial state.
Register ==
  /\ pc[Boot] = "idle"
  /\ registered < Len(Registrations)
  /\ registered' = registered + 1
  /\ BeginNotify(Boot, Module(registered + 1), Registrations[registered + 1].state, NoBlock)
  /\ UNCHANGED <<entry, data, timer, live, worst_index, prev_worst_entry, overall,
                 routed, index, worst_entry, msg>>

\* A block is allocated at an address nothing refers to any more, so that a
\* use after the disposal of a block cannot be mistaken for a use of a new one.
Fresh(d) ==
  /\ d \notin live
  /\ \A t \in Threads : d # msg[t].data /\ d # req[t].data

\* A component, or the debug command "state set", creates a data block if the report
\* has one and calls ui_sys_notify_ui_of_status, for a module registered or not.
Report(t, r) ==
  /\ pc[t] = "idle"
  /\ \E d \in IF r.data THEN {b \in Blocks : Fresh(b)} ELSE {NoBlock} :
       /\ live' = live \cup ({d} \ {NoBlock})
       /\ BeginNotify(t, r.module, r.state, d)
  /\ UNCHANGED <<registered, entry, data, timer, worst_index, prev_worst_entry, overall,
                 routed, index, worst_entry, msg>>

\* ui_sys_status_timer_expired: the one-shot timer of row i has run out and its
\* callback, once started, can no longer be cancelled.
Expire(t, i) ==
  /\ pc[t] = "idle"
  /\ timer[i] = "armed"
  /\ timer' = [timer EXCEPT ![i] = "expired"]
  /\ \E e \in Entries : /\ FindsOnline(Module(i), e)
                        /\ BeginNotify(t, Module(i), DispStatusMessage[e].state, NoBlock)
  /\ UNCHANGED <<registered, entry, data, live, worst_index, prev_worst_entry, overall,
                 routed, index, worst_entry, msg>>

\* rebroadcast_current_ui_sys_status, on a request of the UI, whatever is registered.
Rebroadcast(t) ==
  /\ pc[t] = "idle"
  /\ Goto(t, "gather")
  /\ msg' = [msg EXCEPT ![t] = [NoMessage EXCEPT !.todo = {"module", "state", "type", "data"}]]
  /\ UNCHANGED <<table, worst_index, prev_worst_entry, overall, routed, req, index, worst_entry>>

\* ui_sys_user_feedback_to_module without a module: find the worst row ...
Feedback(t) ==
  /\ pc[t] = "idle"
  /\ \E i \in Rows : IsWorst(i) /\ index' = [index EXCEPT ![t] = i]
  /\ Goto(t, "route")
  /\ UNCHANGED <<table, worst_index, prev_worst_entry, overall, routed, req, worst_entry, msg>>

\* The row has an input callback.
Listens(i) == i <= registered /\ Module(i) \in Listeners

\* ... and, the mutex released, call its input callback.
Route(t) ==
  /\ pc[t] = "route"
  /\ routed' = IF Listens(index[t]) THEN Module(index[t]) ELSE routed
  /\ index' = [index EXCEPT ![t] = 1]
  /\ Goto(t, "idle")
  /\ UNCHANGED <<table, worst_index, prev_worst_entry, overall, req, worst_entry, msg>>

\* ui_sys_user_feedback_to_module with the name of a module; it must be registered.
FeedbackTo(t, i) ==
  /\ pc[t] = "idle"
  /\ routed' = IF Listens(i) THEN Module(i) ELSE routed
  /\ Goto(t, IF i <= registered THEN "idle" ELSE "ASSERT")
  /\ UNCHANGED <<table, worst_index, prev_worst_entry, overall, local>>
-----------------------------------------------------------------------------
(* The steps of ui_sys_notify_ui_of_status.                                 *)

\* Mutants: the new block is disposed of instead of the old one; no block is;
\* the running timer is not cancelled; it is cancelled after the new one starts.
SetRowDisposeNew(i, e, d) ==
  /\ entry' = [entry EXCEPT ![i] = e]
  /\ data' = [data EXCEPT ![i] = d]
  /\ live' = live \ {d}
  /\ timer' = [timer EXCEPT ![i] = IF IsTransitory(e) THEN "armed" ELSE "none"]

SetRowNoDispose(i, e, d) ==
  /\ entry' = [entry EXCEPT ![i] = e]
  /\ data' = [data EXCEPT ![i] = d]
  /\ timer' = [timer EXCEPT ![i] = IF IsTransitory(e) THEN "armed" ELSE "none"]
  /\ UNCHANGED live

SetRowNoCancel(i, e, d) ==
  /\ entry' = [entry EXCEPT ![i] = e]
  /\ data' = [data EXCEPT ![i] = d]
  /\ live' = live \ {data[i]}
  /\ timer' = [timer EXCEPT ![i] = IF IsTransitory(e) THEN "armed" ELSE @]

SetRowCancelLast(i, e, d) ==
  /\ entry' = [entry EXCEPT ![i] = e]
  /\ data' = [data EXCEPT ![i] = d]
  /\ live' = live \ {data[i]}
  /\ timer' = [timer EXCEPT ![i] = "none"]

\* update_module_status, one critical section: it asserts that the module is
\* registered; a known state replaces the row's entry and data, disposes of the old
\* data and restarts the row's timer; an unknown one is ignored and its data disposed of.
SetRow(i, e, d) ==
  /\ entry' = [entry EXCEPT ![i] = e]
  /\ data' = [data EXCEPT ![i] = d]
  /\ live' = live \ {data[i]}
  /\ timer' = [timer EXCEPT ![i] = IF IsTransitory(e) THEN "armed" ELSE "none"]

IgnoreReport(d) ==
  /\ live' = live \ {d}
  /\ UNCHANGED <<entry, data, timer>>

AssertRegistered(t) ==
  /\ pc[t] = "update"
  /\ \A i \in Rows : i <= registered => Module(i) # req[t].module
  /\ Goto(t, "ASSERT")
  /\ UNCHANGED <<table, worst_index, prev_worst_entry, overall, routed, local>>

UpdateModuleStatus(t) ==
  /\ pc[t] = "update"
  /\ \E i \in Rows, e \in Entries \cup {NoEntry} :
       /\ i <= registered
       /\ Module(i) = req[t].module
       /\ FindsEntry(req[t].module, req[t].state, e)
       /\ IF e # NoEntry THEN SetRow(i, e, req[t].data) ELSE IgnoreReport(req[t].data)
  /\ Goto(t, "scan")
  /\ UNCHANGED <<registered, worst_index, prev_worst_entry, overall, routed, local>>

\* get_worst_module_index, under the mutex; the result is still in a register.
Scan(t) ==
  /\ pc[t] = "scan"
  /\ \E i \in Rows : IsWorst(i) /\ index' = [index EXCEPT ![t] = i]
  /\ Goto(t, "publish")
  /\ UNCHANGED <<table, worst_index, prev_worst_entry, overall, routed, req, worst_entry, msg>>

\* Mutants: the shared index is off by one, or not written.
PublishBefore(t) ==
  /\ pc[t] = "publish"
  /\ worst_index' = index[t] - 1
  /\ index' = [index EXCEPT ![t] = 1]
  /\ Goto(t, "load")
  /\ UNCHANGED <<table, prev_worst_entry, overall, routed, req, worst_entry, msg>>

PublishNothing(t) ==
  /\ pc[t] = "publish"
  /\ index' = [index EXCEPT ![t] = 1]
  /\ Goto(t, "load")
  /\ UNCHANGED <<table, worst_index, prev_worst_entry, overall, routed, req, worst_entry, msg>>

Publish(t) ==
  /\ pc[t] = "publish"
  /\ worst_index' = index[t]
  /\ index' = [index EXCEPT ![t] = 1]
  /\ Goto(t, "load")
  /\ UNCHANGED <<table, prev_worst_entry, overall, routed, req, worst_entry, msg>>

\* A NULL that is read here is dereferenced by the statements that follow, whatever
\* the others do (437, 451).
LoadWorstEntry(t) ==
  /\ pc[t] = "load"
  /\ worst_entry' = [worst_entry EXCEPT ![t] = entry[worst_index]]
  /\ Goto(t, IF entry[worst_index] = NoEntry THEN "NULL" ELSE "compare")
  /\ UNCHANGED <<table, worst_index, prev_worst_entry, overall, routed, req, index, msg>>

\* Mutants: severities are compared instead of entries; new data is ignored.
NothingWorse(t) ==
  /\ prev_worst_entry # NoEntry
  /\ Code(worst_entry[t]) = Code(prev_worst_entry)
  /\ \/ DispStatusMessage[worst_entry[t]].module # req[t].module
     \/ req[t].data = NoBlock

SameEntry(t) == worst_entry[t] = prev_worst_entry

\* The test at "bail if the event we received didn't give us a new worst".
NothingNew(t) ==
  /\ worst_entry[t] = prev_worst_entry
  /\ \/ DispStatusMessage[worst_entry[t]].module # req[t].module
     \/ req[t].data = NoBlock

Compare(t) ==
  /\ pc[t] = "compare"
  /\ IF NothingNew(t)
       THEN /\ Goto(t, "idle")
            /\ req' = [req EXCEPT ![t] = NoRequest]
            /\ worst_entry' = [worst_entry EXCEPT ![t] = NoEntry]
       ELSE Goto(t, "commit") /\ UNCHANGED <<req, worst_entry>>
  /\ UNCHANGED <<table, worst_index, prev_worst_entry, overall, routed, index, msg>>

\* Remember the worst entry and choose the message's type from it.
Commit(t) ==
  /\ pc[t] = "commit"
  /\ prev_worst_entry' = worst_entry[t]
  /\ msg' = [msg EXCEPT ![t] = [NoMessage EXCEPT
               !.todo = {"module", "state", "data"},
               !.type = IF Code(worst_entry[t]) # NONE
                          THEN DispStatusMessage[worst_entry[t]].type ELSE "MSG_READY"]]
  /\ req' = [req EXCEPT ![t] = NoRequest]
  /\ worst_entry' = [worst_entry EXCEPT ![t] = NoEntry]
  /\ Goto(t, "gather")
  /\ UNCHANGED <<table, worst_index, overall, routed, index>>

\* Evaluate one argument of the overall broadcast, in an order C leaves open.  Its
\* state and its type are read through the entry.
Fetch(m, field) ==
  [m EXCEPT !.todo = @ \ {field},
            !.module = IF field = "module" THEN Module(worst_index) ELSE @,
            !.state = IF field = "state" THEN entry[worst_index] ELSE @,
            !.type = IF field = "type" THEN DispStatusMessage[entry[worst_index]].type ELSE @,
            !.data = IF field = "data" THEN data[worst_index] ELSE @]

GatherNull(t) ==
  /\ pc[t] = "gather"
  /\ msg[t].todo \cap {"state", "type"} # {}
  /\ entry[worst_index] = NoEntry
  /\ Goto(t, "NULL")
  /\ UNCHANGED <<table, worst_index, prev_worst_entry, overall, routed, local>>

Gather(t, field) ==
  /\ pc[t] = "gather"
  /\ field \in msg[t].todo
  /\ field \in {"state", "type"} => entry[worst_index] # NoEntry
  /\ msg' = [msg EXCEPT ![t] = Fetch(@, field)]
  /\ Goto(t, IF msg[t].todo = {field} THEN "post" ELSE "gather")
  /\ UNCHANGED <<table, worst_index, prev_worst_entry, overall, routed, req, index, worst_entry>>

\* ui_sys_post_module_status(true, ...): reads the data block and hands the
\* message to the output callbacks.
Post(t) ==
  /\ pc[t] = "post"
  /\ overall' = msg[t]
  /\ msg' = [msg EXCEPT ![t] = NoMessage]
  /\ Goto(t, "idle")
  /\ UNCHANGED <<table, worst_index, prev_worst_entry, routed, req, index, worst_entry>>
-----------------------------------------------------------------------------
Step(t) ==
  \/ AssertRegistered(t) \/ UpdateModuleStatus(t) \/ Scan(t) \/ Publish(t) \/ LoadWorstEntry(t)
  \/ Compare(t) \/ Commit(t) \/ GatherNull(t) \/ Post(t) \/ Route(t)
  \/ \E field \in {"module", "state", "type", "data"} : Gather(t, field)

Next ==
  /\ ~Halted
  /\ \/ Register
     \/ \E t \in Callers :
          \/ \E r \in Reports : Report(t, r)
          \/ Rebroadcast(t)
          \/ Feedback(t)
          \/ \E i \in Rows : FeedbackTo(t, i)
     \/ \E t \in TimerThreads, i \in Rows : Expire(t, i)
     \/ \E t \in Threads : Step(t)

Spec == Init /\ [][Next]_vars

\* Started calls run on, the init thread registers every module, and a timer
\* that stays armed runs out.
Fairness ==
  /\ WF_vars(~Halted /\ Register)
  /\ \A t \in Threads : WF_vars(~Halted /\ Step(t))
  /\ \A i \in Rows : WF_vars(~Halted /\ \E t \in TimerThreads : Expire(t, i))

FairSpec == Spec /\ Fairness

\* The same threads taking turns: no call starts while another is running.
OneAtATime == \A t, u \in Threads : pc[t] = "idle" \/ pc[u] = "idle" \/ t = u
SerialSpec == Init /\ [][Next /\ OneAtATime']_vars /\ Fairness
-----------------------------------------------------------------------------
Messages == [todo: SUBSET {"module", "state", "type", "data"}, module: Modules,
             state: Entries \cup {NoEntry}, type: Types, data: Handles]

TypeOK ==
  /\ registered \in 0..Len(Registrations)
  /\ entry \in [Rows -> Entries \cup {NoEntry}]
  /\ data \in [Rows -> Handles]
  /\ timer \in [Rows -> {"none", "armed", "expired"}]
  /\ worst_index \in Rows
  /\ prev_worst_entry \in Entries \cup {NoEntry}
  /\ live \subseteq Blocks
  /\ overall \in Messages
  /\ routed \in Modules
  /\ pc \in [Threads -> {"idle", "update", "scan", "publish", "load", "compare",
                         "commit", "gather", "post", "route", "ASSERT", "NULL"}]
  /\ req \in [Threads -> [module: STRING, state: STRING, data: Handles]]
  /\ index \in [Threads -> Rows]
  /\ worst_entry \in [Threads -> Entries \cup {NoEntry}]
  /\ msg \in [Threads -> Messages]

(* What holds however the threads interleave.                               *)

\* A data block handed to ui_sys_notify_ui_of_status is disposed of once and
\* never lost: it is owned by the call until update_module_status stores or
\* drops it, then by exactly one row (utils.c 336-338, 361); only a call that stops the
\* machine keeps it.
Carries(t, d) == pc[t] = "update" /\ req[t].data = d

DataOwnedOnce ==
  /\ \A i \in Rows : data[i] \in live \cup {NoBlock}
  /\ \A t \in Threads, d \in Blocks : Carries(t, d) => d \in live
  /\ \A i, j \in Rows : data[i] = data[j] /\ data[i] # NoBlock => i = j
  /\ \A t, u \in Threads, d \in Blocks : Carries(t, d) /\ Carries(u, d) => t = u
  /\ \A t \in Threads, i \in Rows, d \in Blocks : ~(Carries(t, d) /\ data[i] = d)
  /\ \A d \in live : \/ \E i \in Rows : data[i] = d
                     \/ \E t \in Threads : Carries(t, d)
                     \/ Halted

\* A transitory state never gets stuck on a row: its timer is armed, or the
\* callback of the timer is on its way to set the row back to idle (341-351).
Resetting(t, i) ==
  /\ t \in TimerThreads
  /\ pc[t] = "update"
  /\ req[t].module = Module(i)

TransitoryHasTimer ==
  \A i \in Rows : IsTransitory(entry[i]) =>
    timer[i] = "armed" \/ \E t \in TimerThreads : Resetting(t, i)

\* No timer outlives the state it was started for: whatever replaced that
\* state has cancelled it, so it cannot go off later over another state.
TimerOnlyForTransitory ==
  \A i \in Rows : timer[i] = "armed" => IsTransitory(entry[i])

\* The entry of the worst row is dereferenced without a check (292, 437, 451, 464), and
\* rows are registered before they have one (395).  Yet nobody but a caller that
\* comes before the first module has its state meets a NULL: not the init thread, which
\* registers row after row meanwhile, nor a timer, nor any caller after that.
NoNullEntry ==
  \A t \in Threads : pc[t] = "NULL" => t \in Callers /\ entry[1] = NoEntry

\* Once the components fall silent every transitory state goes away.
Quiet == \A t \in Callers : pc[t] = "idle"
TransitoryEnds ==
  \A i \in Rows : IsTransitory(entry[i]) ~> ~IsTransitory(entry[i]) \/ ~Quiet

(* Why no thread meets a NULL entry, and why a reset always takes effect:   *)
(* the strengthening the proofs need.                                       *)

EntryRegistered == \A i \in Rows : entry[i] # NoEntry => i <= registered

\* Until the first row has an entry the init thread is about to give it one, and no
\* timer can have run.
BootFirst ==
  entry[1] = NoEntry =>
    /\ \A t \in TimerThreads : pc[t] = "idle"
    /\ \/ registered = 0 /\ pc[Boot] = "idle"
       \/ /\ registered = 1
          /\ pc[Boot] = "update"
          /\ req[Boot].module = Registrations[1].module
          /\ req[Boot].state = Registrations[1].state

\* What is taken for the worst row has an entry, or is the first.
WorstHasEntry ==
  /\ worst_index # 1 => entry[worst_index] # NoEntry
  /\ \A t \in Threads : pc[t] = "publish" /\ index[t] # 1 => entry[index[t]] # NoEntry

ResetStateKnown ==
  \A t \in TimerThreads : pc[t] = "update" =>
    /\ \E i \in Rows : i <= registered /\ Module(i) = req[t].module
    /\ \E e \in Entries : /\ DispStatusMessage[e].module = req[t].module
                          /\ DispStatusMessage[e].state = req[t].state

(* What the overall status promises the UI.                                 *)

Quiescent == \A t \in Threads : pc[t] = "idle"
Consistent(m) ==
  /\ m.state # NoEntry
  /\ m.module = DispStatusMessage[m.state].module
  /\ m.type = DispStatusMessage[m.state].type

\* Between calls the last overall broadcast is one table entry of the module it
\* names, that module is in that state, and no module is in a worse one (433,
\* 461).
OverallIsWorst ==
  Quiescent /\ registered > 0 =>
    /\ Consistent(overall)
    /\ \E i \in Rows : Module(i) = overall.module /\ entry[i] = overall.state
    /\ \A i \in Rows : entry[i] # NoEntry => Code(entry[i]) <= Code(overall.state)

\* A block the overall message is formatted from has not been disposed of:
\* "will be freed by those systems when appropriate" (api.h 84-87).
NoUseAfterFree ==
  \A t \in Threads : pc[t] = "post" => msg[t].data \in live \cup {NoBlock}

\* Between calls the overall message carries the data of the status it shows,
\* unless that status was reported again without data (438).
OverallHasCurrentData ==
  Quiescent /\ registered > 0 =>
    \A i \in Rows : Module(i) = overall.module =>
      data[i] \in {overall.data, NoBlock}

\* Feedback without a module goes to the module the UI is showing, as soon as there is
\* one.
FeedbackReachesShown ==
  [][\A t \in Threads : pc[t] = "route" /\ pc'[t] = "idle" /\ registered > 0 =>
       Module(index[t]) = overall.module]_vars

\* "done with previous status": a timer callback resets a row only while the
\* row is in the transitory state whose timer ran out; a state reported since
\* then keeps its own time (301).
ExpiryEndsTransitory ==
  [][\A t \in TimerThreads, i \in Rows :
       Resetting(t, i) /\ pc'[t] = "scan" =>
         IsTransitory(entry[i]) /\ timer[i] = "expired"]_vars
-----------------------------------------------------------------------------
(* What the manager promises the UI.                                        *)

Board == INSTANCE StatusBoard WITH
  Modules <- Modules, Statuses <- Entries, NoStatus <- NoEntry,
  Severity <- [e \in Entries |-> Code(e)],
  status <- [m \in Modules |-> entry[CHOOSE i \in Rows : Module(i) = m]],
  shown <- overall.state

\* With its callers taking turns the manager implements the board.
ImplementsBoard == Board!Spec
=============================================================================

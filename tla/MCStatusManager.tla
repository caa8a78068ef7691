--------------------------- MODULE MCStatusManager ---------------------------
(***************************************************************************)
(* A small printer for the status manager: the system, copy and print rows *)
(* with the entries ui_system_interface_status.c gives them, code = four   *)
(* times the severity plus the priority.                                   *)
(***************************************************************************)
EXTENDS StatusManager

CONSTANT t1

Entry(t, c, m, s) == [type |-> t, code |-> c, module |-> m, state |-> s]
MCTable == <<
  Entry("MSG_READY", 0, "system", "idle"),
  Entry("MSG_READY", 0, "print", "idle"),
  Entry("MSG_READY", 0, "copy", "idle"),
  Entry("MSG_JOB", 8, "print", "printing"),
  Entry("MSG_CONFIRM_PROMPT", 25, "print", "paper-out"),
  Entry("MSG_TRANSITORY", 12, "system", "copy-pending"),
  Entry("MSG_JOB", 8, "copy", "page-count") >>

\* platform.c registers first, then copy, then print (utils.c 141-163).
MCRegistrations == <<
  [module |-> "system", state |-> "idle"],
  [module |-> "copy", state |-> "idle"],
  [module |-> "print", state |-> "idle"] >>
TwoRegistrations == <<
  [module |-> "system", state |-> "idle"],
  [module |-> "print", state |-> "idle"] >>
TwoTable == SelectSeq(MCTable, LAMBDA e : e.module # "copy")

\* "system idle" also comes from the debug command "state set" (utils.c 677).
Told(m, s, d) == [module |-> m, state |-> s, data |-> d]
MCReports == {
  Told("print", "idle", FALSE), Told("print", "printing", FALSE),
  Told("print", "paper-out", TRUE), Told("print", "calibrating", FALSE),
  Told("system", "copy-pending", FALSE), Told("system", "idle", FALSE),
  Told("copy", "idle", FALSE), Told("copy", "page-count", TRUE) }
TwoReports == {r \in MCReports : r.module # "copy"}

\* The threads once every module is registered: what goes wrong then is not the start's.
Started == registered < Len(Registrations) =>
  \A t \in Callers \cup TimerThreads : pc[t] = "idle"
StartedSpec == Init /\ [][Next /\ Started']_vars /\ Fairness

\* Two of three threads overlap until every module is registered and the init thread is done.
Overlap == pc[Boot] # "idle" => Cardinality({t \in Threads : pc[t] # "idle"}) <= 2
ConcurrentSpec == Init /\ [][Next /\ Overlap']_vars /\ Fairness

\* Without what is only shown to the UI: of a message only the block it refers to.
WithoutDisplay ==
  <<table, worst_index, prev_worst_entry, pc, req, index, worst_entry,
    [t \in Threads |-> <<msg[t].todo, msg[t].data>>]>>
=============================================================================

------------------------------ MODULE StatusBoard ------------------------------
(***************************************************************************)
(* What the status manager promises the UI: each module has a current      *)
(* status, and the display shows a status that is the worst at the moment  *)
(* it is shown; a display that is not the worst does not stay.             *)
(***************************************************************************)
EXTENDS Integers

CONSTANTS
  Modules,
  Statuses,
  Severity, \* [Statuses -> Nat]
  NoStatus  \* not in Statuses

VARIABLES status, shown
board == <<status, shown>>

Init ==
  /\ status = [m \in Modules |-> NoStatus]
  /\ shown = NoStatus

IsWorst(s) ==
  /\ s \in Statuses
  /\ \E m \in Modules : status[m] = s
  /\ \A m \in Modules : status[m] # NoStatus => Severity[status[m]] <= Severity[s]

Change(m, s) ==
  /\ status' = [status EXCEPT ![m] = s]
  /\ UNCHANGED shown

Show(s) ==
  /\ IsWorst(s)
  /\ shown' = s
  /\ UNCHANGED status

Correct == ~IsWorst(shown) /\ \E s \in Statuses : Show(s)

Next ==
  \/ \E m \in Modules, s \in Statuses : Change(m, s)
  \/ \E s \in Statuses : Show(s)

Spec == Init /\ [][Next]_board /\ WF_board(Correct)
=============================================================================

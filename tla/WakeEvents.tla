------------------------------ MODULE WakeEvents ------------------------------
(***************************************************************************)
(* The power-manager component (ui_system_interface_powermgr.c): six       *)
(* setters, one for each event that may wake the printer, that each read   *)
(* the mask of the power schema, change their own bit and write the mask   *)
(* back.  Nothing keeps two of them from overlapping.                      *)
(***************************************************************************)
EXTENDS Integers

CONSTANTS
  WakeEvent, \* PWR_SCHEMA_WAKE_ON_USB_JOB and the others
  Callers    \* the threads that call the setters

VARIABLES
  wake_events, \* the mask in the power schema, as the set of its bits
  pc,          \* "idle", or "write": a setter has read the mask
  event,       \* the mask it has read
  call,        \* [bit, enabled]: the setter and its argument
  wanted,      \* the mask the finished calls ask for
  overlapped   \* two calls have overlapped

vars == <<wake_events, pc, event, call, wanted, overlapped>>

Calls == [bit: WakeEvent, enabled: BOOLEAN]
Changed(mask, c) == IF c.enabled THEN mask \cup {c.bit} ELSE mask \ {c.bit}

Init ==
  /\ wake_events \in SUBSET WakeEvent
  /\ wanted = wake_events
  /\ pc = [t \in Callers |-> "idle"]
  /\ event = [t \in Callers |-> {}]
  /\ \E c \in Calls : call = [t \in Callers |-> c]
  /\ overlapped = FALSE

\* pwr_schema_get_wake_on_events
GetWakeEvents(t, c) ==
  /\ pc[t] = "idle"
  /\ pc' = [pc EXCEPT ![t] = "write"]
  /\ event' = [event EXCEPT ![t] = wake_events]
  /\ call' = [call EXCEPT ![t] = c]
  /\ overlapped' = (overlapped \/ \E u \in Callers : pc[u] # "idle")
  /\ UNCHANGED <<wake_events, wanted>>

\* Mutant: the bit is written without the others.
SetBitOnly(t) ==
  /\ pc[t] = "write"
  /\ pc' = [pc EXCEPT ![t] = "idle"]
  /\ wake_events' = IF call[t].enabled THEN {call[t].bit} ELSE event[t] \ {call[t].bit}
  /\ wanted' = Changed(wanted, call[t])
  /\ UNCHANGED <<event, call, overlapped>>

\* pwr_schema_set_wake_on_events
SetWakeEvents(t) ==
  /\ pc[t] = "write"
  /\ pc' = [pc EXCEPT ![t] = "idle"]
  /\ wake_events' = Changed(event[t], call[t])
  /\ wanted' = Changed(wanted, call[t])
  /\ UNCHANGED <<event, call, overlapped>>

Next == \E t \in Callers : SetWakeEvents(t) \/ \E c \in Calls : GetWakeEvents(t, c)

Spec == Init /\ [][Next]_vars
-----------------------------------------------------------------------------
TypeOK ==
  /\ wake_events \in SUBSET WakeEvent /\ wanted \in SUBSET WakeEvent
  /\ pc \in [Callers -> {"idle", "write"}]
  /\ event \in [Callers -> SUBSET WakeEvent]
  /\ call \in [Callers -> Calls]
  /\ overlapped \in BOOLEAN

\* Until two calls overlap the mask is what the finished calls ask for: no setter
\* disturbs the bit of another (36-214).  After an overlap it may not be, since
\* the second write puts back what the first has changed.
WakeSettingsHold == ~overlapped => wake_events = wanted
=============================================================================

------------------------------- MODULE Wireless -------------------------------
(***************************************************************************)
(* The wireless component (ui_system_interface_wireless.c): link events of *)
(* the station start and stop the periodic signal-strength timer; WPS      *)
(* events and the user's answers move the WPS row through a session.  The  *)
(* observer of the station is attached before the init thread looks at the *)
(* link itself (287-332), and the two share unlocked variables: each       *)
(* access to the handle of the timer is a step of its own.                 *)
(***************************************************************************)
EXTENDS Integers, FiniteSets

CONSTANT MaxTimers \* bound: timers started

VARIABLES
  g_wifi_connected,
  wifi_signal_strength_timer, \* 0: NULL
  running,                    \* the timers that go off every five seconds
  made,                       \* how many timers have been started
  link_pc,
  new_timer,                  \* the timer a thread has started and not yet stored
  up,                         \* history: connected, and not down or in error since
  reconnects,                 \* history: how often it was connected while up
  meeting,                    \* history: "clean" until both threads are under way at once,
                              \* then "crossed" until the link goes down, then "recovered"
  g_ui_wps_session_active,
  row,                        \* the state of the WPS row
  canceling                   \* the UI thread is inside wps_process_user_feedback

history == <<up, reconnects, meeting>>
link == <<g_wifi_connected, wifi_signal_strength_timer, running, made, link_pc, new_timer, history>>
wps == <<g_ui_wps_session_active, row, canceling>>
vars == <<link, wps>>

\* The observer's thread and the one that runs ui_sys_wireless_init.
Threads == {"sta", "init"}
Rested(t) == IF t = "sta" THEN "idle" ELSE "done"
Rests(t) == link_pc[t] \in {"idle", "look", "done"}

Init ==
  /\ g_wifi_connected = FALSE
  /\ wifi_signal_strength_timer = 0
  /\ running = {}
  /\ made = 0
  /\ link_pc = [t \in Threads |-> IF t = "sta" THEN "idle" ELSE "look"]
  /\ new_timer = [t \in Threads |-> 0]
  /\ up = FALSE /\ reconnects = 0 /\ meeting = "clean"
  /\ g_ui_wps_session_active = FALSE
  /\ row = "idle"
  /\ canceling = FALSE
-----------------------------------------------------------------------------
(* wifi_sta_event_cb on its thread, and the look at the link on the init    *)
(* thread, which does the same with what it sees.                           *)

\* Thread t goes on to another place.
Goto(t, place) == link_pc' = [link_pc EXCEPT ![t] = place]

LinkEvents == {"down", "connecting", "connected", "error"}

Meet(t, event) ==
  /\ up' = IF event = "connecting" THEN up ELSE event = "connected"
  /\ reconnects' = IF up /\ event = "connected" THEN reconnects + 1 ELSE reconnects
  /\ meeting' = IF \E u \in Threads \ {t} : ~Rests(u) THEN "crossed"
                ELSE IF meeting = "crossed" /\ event \in {"down", "error"} THEN "recovered"
                ELSE meeting

\* An event comes, or the init thread sees the state of the link: the flag is set.
LinkEvent(t, event) ==
  /\ link_pc[t] \in {"idle", "look"}
  /\ g_wifi_connected' = (event = "connected")
  /\ Goto(t, CASE event = "connected" -> "start" [] event = "connecting" -> Rested(t)
               [] OTHER -> "test")
  /\ Meet(t, event)
  /\ UNCHANGED <<wifi_signal_strength_timer, running, made, new_timer, wps>>

\* Connected: a timer is started, then its handle is stored over the last one.
StartTimer(t) ==
  /\ link_pc[t] = "start"
  /\ made < MaxTimers
  /\ made' = made + 1
  /\ running' = running \cup {made + 1}
  /\ new_timer' = [new_timer EXCEPT ![t] = made + 1]
  /\ Goto(t, "store")
  /\ UNCHANGED <<g_wifi_connected, wifi_signal_strength_timer, history, wps>>

StoreTimer(t) ==
  /\ link_pc[t] = "store"
  /\ wifi_signal_strength_timer' = new_timer[t]
  /\ Goto(t, Rested(t))
  /\ UNCHANGED <<g_wifi_connected, running, made, new_timer, history, wps>>

\* Down or in error: unless the handle is NULL ...
TestTimer(t) ==
  /\ link_pc[t] = "test"
  /\ Goto(t, IF wifi_signal_strength_timer = 0 THEN Rested(t) ELSE "cancel")
  /\ UNCHANGED <<g_wifi_connected, wifi_signal_strength_timer, running, made, new_timer,
                 history, wps>>

\* ... the timer is cancelled ...
CancelTimer(t) ==
  /\ link_pc[t] = "cancel"
  /\ running' = running \ {wifi_signal_strength_timer}
  /\ Goto(t, "clear")
  /\ UNCHANGED <<g_wifi_connected, wifi_signal_strength_timer, made, new_timer, history, wps>>

\* Mutant: the cancelled timer's handle is kept.
KeepTimer(t) ==
  /\ link_pc[t] = "clear"
  /\ Goto(t, Rested(t))
  /\ UNCHANGED <<g_wifi_connected, wifi_signal_strength_timer, running, made, new_timer,
                 history, wps>>

\* ... and the NULL that delay_msec_timer_cancel returns is stored.
ClearTimer(t) ==
  /\ link_pc[t] = "clear"
  /\ wifi_signal_strength_timer' = 0
  /\ Goto(t, Rested(t))
  /\ UNCHANGED <<g_wifi_connected, running, made, new_timer, history, wps>>

Link ==
  \E t \in Threads :
    \/ \E event \in LinkEvents : LinkEvent(t, event)
    \/ StartTimer(t) \/ StoreTimer(t) \/ TestTimer(t) \/ CancelTimer(t) \/ ClearTimer(t)
-----------------------------------------------------------------------------
(* wps_event_cb.                                                            *)

\* WPS_PROCESSING_EVENT, WPS_CONNECTING_EVENT
WpsProgress(state) ==
  /\ g_ui_wps_session_active' = TRUE
  /\ row' = state
  /\ UNCHANGED <<link, canceling>>

\* Mutant: the session ends, but its end is not reported.
WpsEndUnreported(state) ==
  /\ g_ui_wps_session_active
  /\ g_ui_wps_session_active' = FALSE
  /\ row' = IF state = "idle" THEN row ELSE state
  /\ UNCHANGED <<link, canceling>>

\* WPS_SUCCESS_EVENT, WPS_TIMEOUT_EVENT, WPS_SESSION_OVERLAP_EVENT,
\* WPS_UNKNOWN_FAILURE_EVENT and WPS_CANCEL_EVENT
WpsEnd(state) ==
  /\ g_ui_wps_session_active
  /\ g_ui_wps_session_active' = FALSE
  /\ row' = state
  /\ UNCHANGED <<link, canceling>>

(* wps_process_user_feedback.                                               *)

\* Cancel: WPS is told first ...
CancelWpsSession ==
  /\ ~canceling
  /\ g_ui_wps_session_active
  /\ canceling' = TRUE
  /\ UNCHANGED <<link, g_ui_wps_session_active, row>>

\* ... the row is changed then.
CancelShown ==
  /\ canceling
  /\ canceling' = FALSE
  /\ row' = "cancelled"
  /\ UNCHANGED <<link, g_ui_wps_session_active>>

Ok ==
  /\ ~canceling
  /\ row' = "idle"
  /\ UNCHANGED <<link, g_ui_wps_session_active, canceling>>
-----------------------------------------------------------------------------
Next ==
  \/ Link
  \/ \E state \in {"searching", "connecting"} : WpsProgress(state)
  \/ \E state \in {"success", "no_routers", "failed", "idle"} : WpsEnd(state)
  \/ CancelWpsSession \/ CancelShown \/ Ok

Spec == Init /\ [][Next]_vars
-----------------------------------------------------------------------------
TypeOK ==
  /\ {g_wifi_connected, up, g_ui_wps_session_active, canceling} \subseteq BOOLEAN
  /\ made \in 0..MaxTimers
  /\ wifi_signal_strength_timer \in 0..made
  /\ running \subseteq 1..made
  /\ link_pc \in [Threads -> {"idle", "look", "done", "start", "store", "test", "cancel", "clear"}]
  /\ new_timer \in [Threads -> 0..made]
  /\ reconnects \in Nat /\ meeting \in {"clean", "crossed", "recovered"}
  /\ row \in {"idle", "searching", "connecting", "success", "no_routers", "failed", "cancelled"}

\* When no event is being handled, a handle that is not NULL is that of a running timer
\* and it is not NULL while the link is up, through all drops and reconnections (81-85,
\* 97-110).  Once the look of the init thread (292-332) has met an event this holds
\* again from the next end of the link on.  And unless they have met, a timer is left
\* running without a handle exactly for each time the link is reported connected
\* while up, by an event or by the look of the init thread, as 98 and 316 do not test
\* the handle they store over.
HandleIsLive ==
  (\A t \in Threads : Rests(t)) =>
    /\ meeting # "crossed" =>
         /\ wifi_signal_strength_timer # 0 => wifi_signal_strength_timer \in running
         /\ g_wifi_connected => wifi_signal_strength_timer # 0
    /\ meeting = "clean" =>
         Cardinality(running \ {wifi_signal_strength_timer}) = reconnects

\* The row shows a session in progress only while there is one: the end of a
\* session, however it comes about, leaves no "searching" or "connecting" behind
\* (170-240).
ProgressIsActive ==
  row \in {"searching", "connecting"} => g_ui_wps_session_active
=============================================================================

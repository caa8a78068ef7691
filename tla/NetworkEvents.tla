----------------------------- MODULE NetworkEvents -----------------------------
(***************************************************************************)
(* The link events of one network interface                                *)
(* (ui_system_interface_network.c).  The network stack calls               *)
(* net_iface_event_callback after the link or the IPv4 configuration has   *)
(* changed; the callback looks at the state as it is then, which may have  *)
(* changed again, and tells the UI what differs from iface_info, what it   *)
(* saw last.  ui_sys_network_init "primes the pump" with a call of its own *)
(* after the callback has been registered.                                 *)
(***************************************************************************)
EXTENDS Integers

CONSTANT Links \* the links of the interface, numbered; 0: none

VARIABLES
  link_up, active_link, ipv4_configured, \* the interface
  pending,     \* the events the stack has not called back for yet
  overlapped,  \* history: the stack has called while the init thread was inside its own call
  iface_info,  \* what the callback saw last
  pc,          \* "init" is the init thread's call, "stack" the network stack's
  net_events,  \* the events a call is about
  read,        \* what a call has read of the interface
  told_link,   \* the last link event: [state, link]
  told_v4      \* the last configuration event

interface == <<link_up, active_link, ipv4_configured, pending, overlapped>>
told == <<told_link, told_v4>>
vars == <<interface, iface_info, pc, net_events, read, told>>

Threads == {"init", "stack"}
Events == {"link", "v4"}

Init ==
  /\ link_up \in BOOLEAN /\ active_link \in Links \cup {0} /\ ipv4_configured \in BOOLEAN
  /\ pending = {} /\ overlapped = FALSE
  /\ iface_info = [sent |-> FALSE, status |-> FALSE, link |-> 0, configured |-> FALSE]
  /\ pc = [t \in Threads |-> IF t = "init" THEN "register" ELSE "idle"]
  /\ net_events = [t \in Threads |-> {}]
  /\ read = [t \in Threads |-> [link |-> 0, up |-> FALSE, v4 |-> FALSE, differs |-> FALSE]]
  /\ told_link = [state |-> "none", link |-> 0]
  /\ told_v4 = "none"

Goto(t, label) == pc' = [pc EXCEPT ![t] = label]
Registered == pc["init"] # "register"
-----------------------------------------------------------------------------
(* The interface changes; a change is an event once the callback is known.  *)

Event(e) == pending' = IF Registered THEN pending \cup {e} ELSE pending

LinkChange ==
  /\ link_up' \in BOOLEAN /\ active_link' \in Links \cup {0}
  /\ <<link_up', active_link'>> # <<link_up, active_link>>
  /\ Event("link")
  /\ UNCHANGED <<ipv4_configured, overlapped, iface_info, pc, net_events, read, told>>

ConfigChange ==
  /\ ipv4_configured' = ~ipv4_configured
  /\ Event("v4")
  /\ UNCHANGED <<link_up, active_link, overlapped, iface_info, pc, net_events, read, told>>
-----------------------------------------------------------------------------
(* The calls of net_iface_event_callback.                                   *)

Call(t, events) ==
  /\ net_events' = [net_events EXCEPT ![t] = events]
  /\ Goto(t, IF "link" \in events THEN "read link" ELSE "read v4")

\* configure_network_ui_event_notifier registers the callback, then calls it.
Configure ==
  /\ pc["init"] = "register"
  /\ Call("init", Events)
  /\ UNCHANGED <<interface, iface_info, read, told>>

Deliver ==
  /\ pc["stack"] = "idle" /\ Registered
  /\ pending # {}
  /\ Call("stack", pending)
  /\ pending' = {}
  /\ overlapped' = (overlapped \/ pc["init"] # "idle")
  /\ UNCHANGED <<link_up, active_link, ipv4_configured, iface_info, read, told>>

ReadActiveLink(t) ==
  /\ pc[t] = "read link"
  /\ read' = [read EXCEPT ![t].link = active_link]
  /\ Goto(t, "read status")
  /\ UNCHANGED <<interface, iface_info, net_events, told>>

\* Does it differ from what iface_info has?
Differs(link, up) ==
  \/ ~iface_info.sent
  \/ up # iface_info.status
  \/ link # iface_info.link

ReadStatus(t) ==
  /\ pc[t] = "read status"
  /\ read' = [read EXCEPT ![t].up = link_up, ![t].differs = Differs(read[t].link, link_up)]
  /\ Goto(t, "tell down")
  /\ UNCHANGED <<interface, iface_info, net_events, told>>

\* Mutant: a switch to another link is told as its being up.
IsDownUnswitched(t) == ~read[t].up

\* The link is lost, or replaced by another ...
IsDown(t) ==
  \/ ~read[t].up
  \/ iface_info.link # 0 /\ read[t].link # iface_info.link

TellDown(t) ==
  /\ pc[t] = "tell down"
  /\ IF read[t].differs /\ IsDown(t)
       THEN /\ told_link' = [state |-> "down", link |-> 0]
            /\ iface_info' = [iface_info EXCEPT !.link = 0]
       ELSE UNCHANGED <<told_link, iface_info>>
  /\ Goto(t, "tell up")
  /\ UNCHANGED <<interface, net_events, read, told_v4>>

\* ... and the new one is up.  What was read is what differs from now on.
TellUp(t) ==
  /\ pc[t] = "tell up"
  /\ told_link' = IF read[t].differs /\ read[t].up
                    THEN [state |-> "up", link |-> read[t].link] ELSE told_link
  /\ Goto(t, "store")
  /\ UNCHANGED <<interface, iface_info, net_events, read, told_v4>>

\* Mutant: the status is not stored.
StoreLinkOnly(t) ==
  /\ pc[t] = "store"
  /\ iface_info' = [iface_info EXCEPT !.link = read[t].link]
  /\ Goto(t, IF "v4" \in net_events[t] THEN "read v4" ELSE "return")
  /\ UNCHANGED <<interface, net_events, read, told>>

Store(t) ==
  /\ pc[t] = "store"
  /\ iface_info' = [iface_info EXCEPT !.status = read[t].up, !.link = read[t].link]
  /\ Goto(t, IF "v4" \in net_events[t] THEN "read v4" ELSE "return")
  /\ UNCHANGED <<interface, net_events, read, told>>

ReadConfigured(t) ==
  /\ pc[t] = "read v4"
  /\ read' = [read EXCEPT ![t].v4 = ipv4_configured]
  /\ Goto(t, "tell v4")
  /\ UNCHANGED <<interface, iface_info, net_events, told>>

TellConfigured(t) ==
  /\ pc[t] = "tell v4"
  /\ told_v4' = IF iface_info.sent /\ read[t].v4 = iface_info.configured THEN told_v4
                ELSE IF read[t].v4 THEN "configured" ELSE "not_configured"
  /\ iface_info' = [iface_info EXCEPT !.configured = read[t].v4]
  /\ Goto(t, "return")
  /\ UNCHANGED <<interface, net_events, read, told_link>>

Return(t) ==
  /\ pc[t] = "return"
  /\ iface_info' = [iface_info EXCEPT !.sent = TRUE]
  /\ Goto(t, "idle")
  /\ net_events' = [net_events EXCEPT ![t] = {}]
  /\ read' = [read EXCEPT ![t] = [link |-> 0, up |-> FALSE, v4 |-> FALSE, differs |-> FALSE]]
  /\ UNCHANGED <<interface, told>>
-----------------------------------------------------------------------------
Next ==
  \/ LinkChange \/ ConfigChange \/ Configure \/ Deliver
  \/ \E t \in Threads :
       \/ ReadActiveLink(t) \/ ReadStatus(t) \/ TellDown(t) \/ TellUp(t) \/ Store(t)
       \/ ReadConfigured(t) \/ TellConfigured(t) \/ Return(t)

Spec == Init /\ [][Next]_vars
-----------------------------------------------------------------------------
TypeOK ==
  /\ {link_up, ipv4_configured, overlapped} \subseteq BOOLEAN
  /\ active_link \in Links \cup {0}
  /\ pending \subseteq Events
  /\ iface_info \in [sent: BOOLEAN, status: BOOLEAN, link: Links \cup {0}, configured: BOOLEAN]
  /\ pc \in [Threads -> {"register", "idle", "read link", "read status", "tell down", "tell up",
                         "store", "read v4", "tell v4", "return"}]
  /\ net_events \in [Threads -> SUBSET Events]
  /\ read \in [Threads -> [link: Links \cup {0}, up: BOOLEAN, v4: BOOLEAN, differs: BOOLEAN]]
  /\ told_link \in [state: {"none", "down", "up"}, link: Links \cup {0}]
  /\ told_v4 \in {"none", "configured", "not_configured"}

\* Once every event has been handled the UI has last been told the truth,
\* although the link may change between the reads of a call, or several times
\* before one (1120-1198): only the stack's call during the init thread's own, on
\* the same unlocked iface_info (1226), can leave the UI with something else.
Settled == pending = {} /\ \A t \in Threads : pc[t] = "idle"
ToldTheTruth ==
  Settled /\ ~overlapped =>
    /\ told_link = IF link_up THEN [state |-> "up", link |-> active_link]
                   ELSE [state |-> "down", link |-> 0]
    /\ told_v4 = IF ipv4_configured THEN "configured" ELSE "not_configured"

\* "let them know the old one is now down": a UI that has been told a link is up
\* is told it is down before another one is up.  (A call that reads the link
\* before there is one and the status after tells of link 0, which is left
\* without being told down.)  The two calls must not overlap for this either.
SwitchTellsDown ==
  [][told_link.state = "up" /\ told_link.link # 0 /\ told_link'.state = "up"
       => told_link' = told_link \/ overlapped]_vars
=============================================================================

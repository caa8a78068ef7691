------------------------------- MODULE InitOrder -------------------------------
(***************************************************************************)
(* The start of the components (ui_sys_init_level1 and the init functions  *)
(* it calls).  Each registers its modules for status, attaches observers   *)
(* to the subjects it follows, and, where a status may have been missed    *)
(* before that, looks at the subject and tells the UI itself.  The         *)
(* subjects are already alive: they call the observers from their own      *)
(* threads as soon as these are attached.  A status reported for a module  *)
(* that is not registered stops the machine (update_module_status).        *)
(***************************************************************************)
EXTENDS Integers, Sequences

CONSTANT Builds \* the sets of components the program is built with (HAVE_...)

\* What an init function does: the modules it registers, the observers it
\* attaches, named for their subjects, and the subjects it looks at.
PlatformInit == [name |-> "platform", registers |-> {"system", "platform"},
                 attaches |-> {"platform var", "string manager", "burn flash"}, polls |-> {}]
ConsumablesInit == [name |-> "consumables", registers |-> {"consumables"},
                    attaches |-> {"consumable"}, polls |-> {}]
\* Copy's observer of the print status only logs.
CopyInit == [name |-> "copy", registers |-> {"copy", "idcopy", "contcopy", "contscan"},
             attaches |-> {"job manager", "copy application", "page end"}, polls |-> {}]
PrintInit == [name |-> "print", registers |-> {"print"},
              attaches |-> {"print status", "media prompt"}, polls |-> {"print status"}]
ScanInit == [name |-> "scan", registers |-> {"scan"},
             attaches |-> {"scanner", "soap scan"}, polls |-> {"scanner"}]
NetworkInit == [name |-> "network", registers |-> {}, attaches |-> {"interface"}, polls |-> {}]
WirelessInit == [name |-> "wireless", registers |-> {"wireless", "wps"},
                 attaches |-> {"wps", "station", "uap"}, polls |-> {"station"}]

\* ui_sys_init_level1
InitFunctions == <<PlatformInit, ConsumablesInit, CopyInit, PrintInit, ScanInit,
                   NetworkInit, WirelessInit>>

\* Mutants: the observers are attached first; or last.
StagesAttachFirst == <<"attach", "register", "poll", "tell">>
StagesAttachLast == <<"register", "poll", "tell", "attach">>
Stages == <<"register", "attach", "poll", "tell">>

Polled == {"print status", "scanner", "station"}

VARIABLES
  todo,        \* the init functions still to run, by their places in InitFunctions
  stage,       \* where the first of them is
  registered,  \* modules
  attached,    \* observers
  status,      \* of a polled subject: "rest" or "active" (the scanner's: initializing)
  notifying,   \* polled subjects that have changed but not called their observers yet
  polled,      \* what the init function has read of the subject
  told,        \* what the UI was last told of it
  scan_start,  \* scan_device_state is SCANCORE_EVENT_SCAN_START
  crossed,     \* history: subjects that called back while an init function told their status
  built,       \* the components of this build
  wsd_early,   \* history: the WSD observer was attached before scan was registered
  stopped      \* a status was reported for a module that is not registered

progress == <<todo, stage>>
subject == <<status, notifying>>
outside == <<built, wsd_early>>
vars == <<progress, registered, attached, subject, polled, told, scan_start, crossed, outside, stopped>>

Init ==
  /\ built \in Builds
  /\ todo = {i \in DOMAIN InitFunctions : InitFunctions[i].name \in built}
  /\ stage = 1
  /\ registered = {} /\ attached = {}
  /\ status \in [Polled -> {"rest", "active"}]
  /\ notifying = {}
  /\ polled = [s \in Polled |-> "nothing"]
  /\ told = [s \in Polled |-> "nothing"]
  /\ scan_start = FALSE
  /\ crossed = {}
  /\ wsd_early = FALSE
  /\ stopped = FALSE

\* update_module_status: the module must have been registered.
ReportsFor(module) == stopped' = (stopped \/ module \notin registered)

\* The module whose status a subject's observer reports; the others only post events.
ModuleOf(s) ==
  CASE s = "burn flash" -> "platform"
    [] s \in {"job manager", "copy application", "page end"} -> "copy"
    [] s \in {"print status", "media prompt"} -> "print"
    [] s \in {"scanner", "soap scan", "wsd scan"} -> "scan"
    [] s = "wps" -> "wps"
    [] OTHER -> "none"
-----------------------------------------------------------------------------
(* The init functions.                                                      *)

First == CHOOSE i \in todo : \A j \in todo : i <= j
Current == InitFunctions[First]

At(name) == todo # {} /\ Stages[stage] = name
Advance ==
  /\ stage' = IF stage < Len(Stages) THEN stage + 1 ELSE 1
  /\ todo' = IF stage < Len(Stages) THEN todo ELSE todo \ {First}

\* A module registers with its idle state on display.
Register ==
  /\ At("register")
  /\ registered' = registered \cup Current.registers
  /\ told' = [s \in Polled |-> IF ModuleOf(s) \in Current.registers
                                 THEN "rest" ELSE told[s]]
  /\ Advance
  /\ UNCHANGED <<attached, subject, polled, scan_start, crossed, outside, stopped>>

Attach ==
  /\ At("attach")
  /\ attached' = attached \cup Current.attaches
  /\ Advance
  /\ UNCHANGED <<registered, subject, polled, told, scan_start, crossed, outside, stopped>>

Poll ==
  /\ At("poll")
  /\ polled' = [s \in Polled |-> IF s \in Current.polls THEN status[s] ELSE polled[s]]
  /\ Advance
  /\ UNCHANGED <<registered, attached, subject, told, scan_start, crossed, outside, stopped>>

\* print and wireless tell whatever they have read, scan only "initializing".
Tells(s) == s \in Current.polls /\ (s = "scanner" => polled[s] = "active")

Tell ==
  /\ At("tell")
  /\ told' = [s \in Polled |-> IF Tells(s) THEN polled[s] ELSE told[s]]
  /\ scan_start' = (scan_start \/ Tells("scanner"))
  /\ IF Tells("print status") THEN ReportsFor("print")
     ELSE IF Tells("scanner") THEN ReportsFor("scan") ELSE UNCHANGED stopped
  /\ Advance
  /\ UNCHANGED <<registered, attached, subject, polled, crossed, outside>>
-----------------------------------------------------------------------------
(* The subjects.                                                            *)

Change(s) ==
  /\ s \notin notifying
  /\ status' = [status EXCEPT ![s] = IF @ = "rest" THEN "active" ELSE "rest"]
  /\ notifying' = notifying \cup {s}
  /\ UNCHANGED <<progress, registered, attached, polled, told, scan_start, crossed, outside, stopped>>

\* The scanner's observer tells "initializing" only in state SCAN_START.
Passes(s) == s = "scanner" /\ status[s] = "active" => scan_start

\* A subject that has changed calls its observer, if there is one.
CallBack(s) ==
  /\ s \in notifying
  /\ notifying' = notifying \ {s}
  /\ IF s \in attached /\ Passes(s)
       THEN /\ told' = [told EXCEPT ![s] = status[s]]
            /\ scan_start' = (scan_start /\ (s = "scanner" => status[s] = "active"))
            /\ IF ModuleOf(s) = "none" THEN UNCHANGED stopped ELSE ReportsFor(ModuleOf(s))
            /\ crossed' = IF At("tell") /\ s \in Current.polls THEN crossed \cup {s} ELSE crossed
       ELSE UNCHANGED <<told, scan_start, crossed, stopped>>
  /\ UNCHANGED <<progress, registered, attached, status, polled, outside>>

\* Any other observer that is attached reports a status of its module.
OtherCallBack(s) ==
  /\ ModuleOf(s) # "none"
  /\ ReportsFor(ModuleOf(s))
  /\ UNCHANGED <<progress, registered, attached, subject, polled, told, scan_start, crossed, outside>>

\* attach_wsd_observer and dettach_wsd_observer of a build with scan are for others to
\* call, when they like.
AttachWsd ==
  /\ "scan" \in built
  /\ attached' = attached \cup {"wsd scan"}
  /\ wsd_early' = (wsd_early \/ "scan" \notin registered)
  /\ UNCHANGED <<progress, registered, subject, polled, told, scan_start, crossed, built, stopped>>

DetachWsd ==
  /\ attached' = attached \ {"wsd scan"}
  /\ UNCHANGED <<progress, registered, subject, polled, told, scan_start, crossed, outside, stopped>>

\* The user starts a copy: "busy" and "pending" are statuses of the system module
\* (212, 219, 231).  The UI knows of copying once the copy module is registered.
CopyStart ==
  /\ "copy" \in registered
  /\ ReportsFor("system")
  /\ UNCHANGED <<progress, registered, attached, subject, polled, told, scan_start, crossed, outside>>
-----------------------------------------------------------------------------
Next ==
  \/ Register \/ Attach \/ Poll \/ Tell
  \/ \E s \in Polled : Change(s) \/ CallBack(s)
  \/ \E s \in attached \ Polled : OtherCallBack(s)
  \/ AttachWsd \/ DetachWsd
  \/ CopyStart

Spec == Init /\ [][Next]_vars
-----------------------------------------------------------------------------
TypeOK ==
  /\ built \in Builds
  /\ todo \subseteq DOMAIN InitFunctions
  /\ stage \in DOMAIN Stages
  /\ status \in [Polled -> {"rest", "active"}]
  /\ notifying \subseteq Polled /\ crossed \subseteq Polled
  /\ polled \in [Polled -> {"nothing", "rest", "active"}]
  /\ told \in [Polled -> {"nothing", "rest", "active"}]
  /\ {scan_start, wsd_early, stopped} \subseteq BOOLEAN

\* "before attaching any observers, register": whenever the subjects call, no
\* status is reported for a module that is not registered yet, in any build that
\* has the platform, whose init function registers the system module for copy, and
\* while nobody has the WSD scans observed before the init function of scan has run.
RegisteredFirst == stopped => "platform" \notin built \/ wsd_early

\* No status is missed at the start: once its init function has run, the UI has
\* been told the present status of a subject, unless a call of the subject crossed
\* the init function's own report (print 345-351, wireless 301; scan 437-442, which
\* is only about not staying in "initializing").
NothingMissed ==
  \A i \in DOMAIN InitFunctions : \A s \in InitFunctions[i].polls \ (notifying \cup crossed) :
    InitFunctions[i].name \in built /\ i \notin todo =>
      IF s = "scanner" THEN told[s] = "active" => status[s] = "active" ELSE told[s] = status[s]
=============================================================================

------------------------------- MODULE Components -------------------------------
(***************************************************************************)
(* The components that share no state, side by side: each step is a step   *)
(* of one of them and leaves the others alone.                             *)
(***************************************************************************)
EXTENDS Integers, Sequences

VARIABLES
  \* print
  user_input, user_cancel, paper_out_event_occurred, paper_out_user_ok_received, print_row,
  job, oks, retries, answered, feedback, crashed,
  \* scan
  scan_device_state, last_known_paper_status, bad_pp_flag, is_soapscan_running,
  is_wsdscan_running, scan_row, paper_in_path, reporting, clearing, soap, outdated, stale,
  \* wireless
  g_wifi_connected, wifi_signal_strength_timer, running, made, link_pc, new_timer,
  up, reconnects, meeting, g_ui_wps_session_active, wps_row, canceling,
  \* a data block
  num_fields, cur_buffer_capacity, cur_buffer_size, text, failed,
  \* network
  link_up, active_link, ipv4_configured, pending, iface_info, pc, net_events, read,
  told_link, told_v4, net_overlapped,
  \* power manager
  wake_events, power_pc, event, call, wanted, overlapped,
  \* the start of the components
  todo, stage, registered, attached, status, notifying, polled, told, scan_start, crossed,
  built, wsd_early, stopped,
  \* IP settings
  store, settings_pc, if_index, flags, watched, asked,
  \* wireless settings
  mode, enabled, cable_in, refused, halted

CONSTANTS
  DocTypes, PrintKnown, MaxOks, ScanKnown, MaxTimers, Links, Numbers, Strings, MaxFields,
  WakeEvent, PowerCallers, Builds, IpCallers, IpTypes, Values

Printer == INSTANCE PrintPrompts WITH Known <- PrintKnown, row <- print_row
Scan == INSTANCE ScanStatus WITH Known <- ScanKnown, row <- scan_row
Wifi == INSTANCE Wireless WITH row <- wps_row
Net == INSTANCE NetworkEvents WITH overlapped <- net_overlapped
Block == INSTANCE DataBlock
Power == INSTANCE WakeEvents WITH Callers <- PowerCallers, pc <- power_pc
Boot == INSTANCE InitOrder
Ip == INSTANCE IpSettings WITH
  Callers <- IpCallers, Types <- IpTypes, pc <- settings_pc
Modes == INSTANCE WirelessSettings

\* The status table has the states of a job that starts and the first states of the
\* scan row; without them the row would keep the state before (status.c).  A number has
\* up to 11 characters (utils 1406), a text as many as the buffer has room for.  The
\* address a switch to manual settings stores, 0.0.0.0, is a value (network 1054-1060).
ComponentAssumption ==
  /\ MaxOks \in Nat /\ MaxTimers \in Nat
  /\ {"idle", "printing", "cleaning"} \subseteq PrintKnown
  /\ {"idle", "initializing"} \subseteq ScanKnown
  /\ Numbers \subseteq 1..11
  /\ \A s \in Strings : /\ Block!EncodedLength(s) \in Nat
                          /\ Block!EncodedLength(s) <= Block!LongestText
  /\ 0 \in Values
ASSUME ComponentAssumption

printVars == <<user_input, user_cancel, paper_out_event_occurred, paper_out_user_ok_received,
               print_row, job, oks, retries, answered, feedback, crashed>>
scanVars == <<scan_device_state, last_known_paper_status, bad_pp_flag, is_soapscan_running,
              is_wsdscan_running, scan_row, paper_in_path, reporting, clearing, soap,
              outdated, stale>>
wifiVars == <<g_wifi_connected, wifi_signal_strength_timer, running, made, link_pc,
              new_timer, up, reconnects, meeting, g_ui_wps_session_active, wps_row, canceling>>
blockVars == <<num_fields, cur_buffer_capacity, cur_buffer_size, text, failed>>
netVars == <<link_up, active_link, ipv4_configured, pending, iface_info, pc, net_events, read,
             told_link, told_v4, net_overlapped>>
powerVars == <<wake_events, power_pc, event, call, wanted, overlapped>>
bootVars == <<todo, stage, registered, attached, status, notifying, polled, told, scan_start,
              crossed, built, wsd_early, stopped>>
ipVars == <<store, settings_pc, if_index, flags, watched, asked>>
modeVars == <<mode, enabled, cable_in, refused, halted>>
settingVars == <<bootVars, ipVars, modeVars>>
deviceVars == <<printVars, scanVars, wifiVars, blockVars, netVars, powerVars>>
vars == <<deviceVars, settingVars>>

Init ==
  /\ Printer!Init /\ Scan!Init /\ Wifi!Init /\ Block!Init /\ Net!Init /\ Power!Init
  /\ Boot!Init /\ Ip!Init /\ Modes!Init

PrintStep ==
  /\ Printer!Next
  /\ UNCHANGED <<scanVars, wifiVars, blockVars, netVars, powerVars, settingVars>>
ScanStep ==
  /\ Scan!Next
  /\ UNCHANGED <<printVars, wifiVars, blockVars, netVars, powerVars, settingVars>>
WirelessStep ==
  /\ Wifi!Next
  /\ UNCHANGED <<printVars, scanVars, blockVars, netVars, powerVars, settingVars>>
BlockStep ==
  /\ Block!Next
  /\ UNCHANGED <<printVars, scanVars, wifiVars, netVars, powerVars, settingVars>>
NetworkStep ==
  /\ Net!Next
  /\ UNCHANGED <<printVars, scanVars, wifiVars, blockVars, powerVars, settingVars>>
PowerStep ==
  /\ Power!Next
  /\ UNCHANGED <<printVars, scanVars, wifiVars, blockVars, netVars, settingVars>>
StartStep == Boot!Next /\ UNCHANGED <<deviceVars, ipVars, modeVars>>
IpStep == Ip!Next /\ UNCHANGED <<deviceVars, bootVars, modeVars>>
ModeStep == Modes!Next /\ UNCHANGED <<deviceVars, bootVars, ipVars>>

Next ==
  \/ PrintStep \/ ScanStep \/ WirelessStep \/ BlockStep \/ NetworkStep \/ PowerStep
  \/ StartStep \/ IpStep \/ ModeStep

Spec == Init /\ [][Next]_vars
-----------------------------------------------------------------------------
\* The type invariants of the components.
TypeOK ==
  /\ Printer!TypeOK /\ Scan!TypeOK /\ Wifi!TypeOK
  /\ Block!TypeOK /\ Net!TypeOK /\ Power!TypeOK
  /\ Boot!TypeOK /\ Ip!TypeOK /\ Modes!TypeOK

\* print: the engine tries again only for a user who pressed OK during the job.
RetryNeedsOk == Printer!RetryNeedsOk
\* print: an unanswered paper prompt passes an OK on at once.
PromptIsLive == Printer!PromptIsLive
\* print: an OK is passed on once.
OneRetryPerOk == Printer!OneRetryPerOk
\* scan: the row says "scanning" only while an application scans, or by a stale report.
ScanningIsRunning == Scan!ScanningIsRunning
\* scan: a jam is not covered by the end of the canceled scan.
JamSurvivesCancel == Scan!JamSurvivesCancel
\* wireless: the handle of the signal timer is the running timer's, lost only where the
\* init thread and the observer meet or a link connects twice.
HandleIsLive == Wifi!HandleIsLive
\* wireless: the WPS row shows progress only during a session.
ProgressIsActive == Wifi!ProgressIsActive
\* data block: text and size agree and fit the buffer.
TextFits == Block!TextFits
\* data block: each field takes the room computed for it.
BytesAgree == Block!BytesAgree
\* network: with no event left the UI knows the link and its configuration.
ToldTheTruth == Net!ToldTheTruth
\* network: a link that is replaced is told down first.
SwitchTellsDown == Net!SwitchTellsDown
\* power manager: calls that take turns do not disturb each other's bit.
WakeSettingsHold == Power!WakeSettingsHold
\* start: no status is reported for a module that is not registered.
RegisteredFirst == Boot!RegisteredFirst
\* start: no status is missed between the subjects and the init functions.
NothingMissed == Boot!NothingMissed
\* IP settings: what was asked for last is what is got, whatever has been switched since.
SettingsHold == Ip!SettingsHold
\* wireless settings: a getter asserts only over a mode its setter has refused.
StopsOnlyOnRefused == Modes!StopsOnlyOnRefused
=============================================================================

------------------------------ MODULE ScanStatus ------------------------------
(***************************************************************************)
(* The scan component (ui_system_interface_scan.c): events of the scan     *)
(* manager, of the SOAP and WSD scan applications and of the paper sensor  *)
(* become states of the scan row; the user's OK clears a jam.  The         *)
(* observers and the UI run on threads of their own: each sets and reads   *)
(* the unlocked variables of the component in one step (the action of its  *)
(* event) and reports in another (Report), with the others in between.     *)
(***************************************************************************)
EXTENDS Integers

CONSTANT Known \* the scan states the status table has an entry for

VARIABLES
  scan_device_state,
  last_known_paper_status,
  bad_pp_flag,
  is_soapscan_running,
  is_wsdscan_running,
  row,          \* the state of the scan row
  paper_in_path, \* adf_sensor_paper_in_path()
  reporting,    \* the state each thread is about to report, or "none"
  clearing,     \* the UI thread is about to clear bad_pp_flag
  soap,         \* how the SOAP scan application last reported
  outdated,     \* history: the threads about to report from before a scan began or ended
  stale         \* history: the row was last reported by one of them

device == <<scan_device_state, last_known_paper_status, bad_pp_flag, paper_in_path>>
flags == <<is_soapscan_running, is_wsdscan_running, soap>>
history == <<outdated, stale>>
vars == <<device, flags, row, reporting, clearing, history>>

Threads == {"scanman", "soap", "wsd", "ui"}

\* Mutant: a state without an entry in the table is shown as it is.
NotifyUnknown(state) == row' = state

\* ui_sys_notify_ui_of_status: a state without an entry in the table is ignored.
Notify(state) == row' = IF state \in Known THEN state ELSE row

\* After ui_sys_scan_init.
Init ==
  /\ \/ scan_device_state = "SCAN_START" /\ row = "initializing"
     \/ scan_device_state = "NULL" /\ row = "idle"
  /\ last_known_paper_status \in {0, 1}
  /\ bad_pp_flag = FALSE
  /\ is_soapscan_running = FALSE /\ is_wsdscan_running = FALSE
  /\ paper_in_path = FALSE
  /\ reporting = [t \in Threads |-> "none"]
  /\ clearing = FALSE
  /\ soap = "none"
  /\ outdated = {} /\ stale = FALSE

ScanRunning == is_soapscan_running \/ is_wsdscan_running

\* Thread t goes on to report a state.
Decide(t, state) == reporting' = [reporting EXCEPT ![t] = state]
Decided(t) == reporting[t] # "none"

\* History: the running flags change under the threads that are about to report.
Outdate(t) ==
  /\ outdated' = {u \in Threads \ {t} : Decided(u)}
  /\ UNCHANGED stale

Report(t) ==
  /\ Decided(t)
  /\ Notify(reporting[t])
  /\ reporting' = [reporting EXCEPT ![t] = "none"]
  /\ outdated' = outdated \ {t}
  /\ stale' = IF reporting[t] \in Known THEN t \in outdated ELSE stale
  /\ UNCHANGED <<device, flags, clearing>>
-----------------------------------------------------------------------------
(* scanner_event_cb.                                                        *)

\* SCANMAN_EVENT_ADF_PAPER_PRESENT with send_paper_present_ui_event: -1 is a
\* failure of the sensor, the first other value after it clears the row.
PaperPresent(value) ==
  /\ ~Decided("scanman")
  /\ value # last_known_paper_status
  /\ last_known_paper_status' = value
  /\ bad_pp_flag' = (value = -1)
  /\ IF value = -1 THEN Decide("scanman", "paper_present_failure")
     ELSE IF bad_pp_flag THEN Decide("scanman", "idle") ELSE UNCHANGED reporting
  /\ UNCHANGED <<scan_device_state, paper_in_path, flags, row, clearing, history>>

\* The events that set scan_device_state, with the state each shows, if any.
DeviceEvent(state, show) ==
  /\ ~Decided("scanman")
  /\ scan_device_state' = state
  /\ Decide("scanman", show)
  /\ UNCHANGED <<last_known_paper_status, bad_pp_flag, flags, row, clearing, history>>

PaperJam == DeviceEvent("SCAN_JAM", "paper_jam") /\ paper_in_path' = TRUE
OtherDeviceEvent ==
  /\ \/ DeviceEvent("SCAN_NOPICK", "miss_pick")
     \/ DeviceEvent("IDLE", "none")   \* IDLE and SCAN_COMPLETE
     \/ DeviceEvent("IDLE", "idle")   \* INITIALIZED
     \/ DeviceEvent("BUSY", "none")   \* SCAN_START and SCAN_RUNNING
     \/ DeviceEvent("OFFLINE", "scanner_error")
  /\ UNCHANGED paper_in_path

\* The events that only report, from what the variables say.
ScanEvent(state) ==
  /\ ~Decided("scanman")
  /\ Decide("scanman", state)
  /\ UNCHANGED <<device, flags, row, clearing, history>>

\* SCANMAN_EVENT_INITIALIZING
Initializing == scan_device_state = "SCAN_START" /\ ScanEvent("initializing")
CalibrationRunning == ScanEvent("calibrating")

\* Mutant: a calibration always ends in the state of a running scan.
CalibrationResumes == ScanEvent("scanning")
CalibrationComplete == ScanEvent(IF ScanRunning THEN "scanning" ELSE "idle")

\* SCANMAN_EVENT_SCAN_CANCEL
ScanCancel ==
  /\ ScanRunning
  /\ scan_device_state # "SCAN_JAM"
  /\ ScanEvent("canceling_scan")
-----------------------------------------------------------------------------
(* soapscan2pc_event_cb and wsdscan2pc_event_cb.                            *)

SoapScan(event) ==
  /\ ~Decided("soap")
  /\ soap' = event
  /\ is_soapscan_running' = (event = "running")
  /\ is_wsdscan_running' = (is_wsdscan_running /\ event # "running")
  /\ Outdate("soap")
  /\ Decide("soap", CASE event = "running" -> "scanning" [] event = "complete" -> "idle"
                      [] event = "timeout" -> "device-busy-scan-later")
  /\ UNCHANGED <<device, row, clearing>>

WsdScan(event) ==
  /\ ~Decided("wsd")
  /\ is_wsdscan_running' = (event = "running")
  /\ is_soapscan_running' = (is_soapscan_running /\ event # "running")
  /\ Outdate("wsd")
  /\ Decide("wsd", IF event = "running" THEN "scanning" ELSE "idle")
  /\ UNCHANGED <<device, row, clearing, soap>>
-----------------------------------------------------------------------------
(* scan_process_user_feedback: OK.  (Cancel is passed on to the running     *)
(* application.)                                                            *)

\* Without a jam or a missed pick OK clears a sensor failure: the row first ...
OkOther ==
  /\ ~Decided("ui") /\ ~clearing
  /\ scan_device_state \notin {"SCAN_JAM", "SCAN_NOPICK"}
  /\ bad_pp_flag
  /\ Decide("ui", "idle")
  /\ clearing' = TRUE
  /\ UNCHANGED <<device, flags, row, history>>

\* ... and then the flag.
ClearFailure ==
  /\ ~Decided("ui") /\ clearing
  /\ bad_pp_flag' = FALSE
  /\ clearing' = FALSE
  /\ UNCHANGED <<scan_device_state, last_known_paper_status, paper_in_path, flags, row,
                 reporting, history>>

\* A jam is cleared only when no paper is in the path.
OkJam ==
  /\ ~Decided("ui") /\ ~clearing
  /\ scan_device_state \in {"SCAN_JAM", "SCAN_NOPICK"}
  /\ scan_device_state = "SCAN_JAM" => ~paper_in_path
  /\ scan_device_state' = "NULL"
  /\ Decide("ui", "idle")
  /\ UNCHANGED <<last_known_paper_status, bad_pp_flag, paper_in_path, flags, row, clearing,
                 history>>

\* The user pulls the paper out, or leaves some.
TouchPaper ==
  /\ scan_device_state = "SCAN_JAM"
  /\ paper_in_path' \in BOOLEAN
  /\ UNCHANGED <<scan_device_state, last_known_paper_status, bad_pp_flag, flags, row, reporting,
                 clearing, history>>
-----------------------------------------------------------------------------
Next ==
  \/ \E value \in {-1, 0, 1} : PaperPresent(value)
  \/ PaperJam \/ OtherDeviceEvent \/ Initializing \/ CalibrationRunning \/ CalibrationComplete
  \/ ScanCancel
  \/ \E event \in {"running", "complete", "timeout"} : SoapScan(event)
  \/ \E event \in {"running", "complete"} : WsdScan(event)
  \/ OkOther \/ ClearFailure \/ OkJam \/ TouchPaper
  \/ \E t \in Threads : Report(t)

Spec == Init /\ [][Next]_vars
-----------------------------------------------------------------------------
TypeOK ==
  /\ scan_device_state \in {"NULL", "IDLE", "SCAN_START", "SCAN_JAM", "SCAN_NOPICK", "BUSY", "OFFLINE"}
  /\ last_known_paper_status \in {-1, 0, 1}
  /\ {bad_pp_flag, is_soapscan_running, is_wsdscan_running, paper_in_path} \subseteq BOOLEAN
  /\ row \in Known
  /\ reporting \in [Threads -> {"none", "paper_present_failure", "idle", "paper_jam", "miss_pick",
       "scanner_error", "initializing", "calibrating", "scanning", "canceling_scan",
       "device-busy-scan-later"}]
  /\ clearing \in BOOLEAN /\ stale \in BOOLEAN /\ outdated \subseteq Threads
  /\ soap \in {"none", "running", "complete", "timeout"}

\* When nobody is about to report, the row says "scanning" only while one of the
\* applications scans, whichever of them started last, whatever calibrations ran in
\* between and in whatever order the four threads came.  Two exceptions: a SOAP scan
\* that timed out, whose state has no entry in the table (160-167); and a report made
\* from flags that another thread has changed since (the end of a calibration reads
\* them at 275 and reports at 278, a scan begins at 152 and is reported at 155).
ScanningIsRunning ==
  (\A t \in Threads : ~Decided(t)) /\ row = "scanning" =>
    ScanRunning \/ soap = "timeout" \/ stale

\* "to remove the race conditon between SCANMAN_EVENT_SCAN_CANCEL and
\* SCANMAN_EVENT_ADF_PAPER_JAM": a jam on the row is not covered by the end of the
\* canceled scan (265).
JamSurvivesCancel ==
  [][row = "paper_jam" => row' # "canceling_scan"]_vars
=============================================================================

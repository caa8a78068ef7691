---------------------------- MODULE ComponentsProofs ----------------------------
(***************************************************************************)
(* The print, scan and wireless components and the data blocks, for every  *)
(* set of documents, of states the status table knows and of texts; and    *)
(* the types of all the components.                                        *)
(***************************************************************************)
EXTENDS NetworkEventsProofs, InitOrderProofs, SettingsProofs, FiniteSetTheorems
-----------------------------------------------------------------------------
(* Printing.                                                                *)

\* An OK that is remembered or on its way is one of this job's, and a prompt is
\* answered by the OK or Cancel that is being handled.
PrintInv ==
  /\ oks \in Nat /\ retries \in Nat /\ MaxOks \in Nat
  /\ retries > 0 => oks > 0
  /\ paper_out_user_ok_received => oks > 0
  /\ feedback = "ok" => oks > 0
  /\ feedback # "none" => answered
  /\ Printer!PromptIsLive

LEMMA PrintStarts ==
  ASSUME MaxOks \in Nat, Printer!Init
  PROVE  PrintInv
BY DEF PrintInv, Printer!Init, Printer!PromptIsLive

LEMMA PrintSteps ==
  ASSUME PrintInv, [Printer!Next]_(Printer!vars)
  PROVE  PrintInv'
<1> USE DEF PrintInv, Printer!PromptIsLive, Printer!Prompts
<1>1. CASE Printer!Cancel
  BY <1>1 DEF Printer!Cancel, Printer!flags
<1>2. CASE Printer!Ok
  BY <1>2 DEF Printer!Ok
<1>3. CASE Printer!OkPassedOn
  <2>1. /\ retries' = retries \/ retries' = retries + 1
        /\ feedback = "ok" /\ feedback' \in {"passed on", "none"}
    BY <1>3 DEF Printer!OkPassedOn, Printer!Retry
  <2>2. UNCHANGED <<paper_out_event_occurred, paper_out_user_ok_received, print_row, job, oks,
                    answered>>
    BY <1>3 DEF Printer!OkPassedOn, Printer!flags
  <2>3. retries' \in Nat /\ oks' \in Nat /\ oks' > 0 /\ feedback' # "ok"
    <3>1. feedback' # "ok"
      BY <2>1
    <3>2. oks > 0 /\ oks \in Nat /\ retries \in Nat
      BY <2>1
    <3>3. oks' = oks
      BY <2>2
    <3>4. retries' = retries \/ retries' = retries + 1
      BY <2>1
    <3>5. retries' \in Nat
      BY ONLY <3>2, <3>4
    <3> QED BY ONLY <3>1, <3>2, <3>3, <3>5
  <2>4. answered'
    <3>1. answered
      BY <2>1
    <3> QED BY <2>2, <3>1
  <2>5. Printer!PromptIsLive'
    BY <2>2
  <2> QED BY <2>3, <2>4, <2>5
<1>4. CASE Printer!PromptOver
  BY <1>4 DEF Printer!PromptOver
<1>5. CASE Printer!MediaPrompt
  BY <1>5 DEF Printer!MediaPrompt, Printer!Notify
<1>6. CASE Printer!PrintEvent
  <2>1. ASSUME NEW doc \in DocTypes, Printer!StartJob(doc) PROVE PrintInv'
    <3>1. ~paper_out_user_ok_received' /\ feedback' = feedback /\ job' = doc
      BY <2>1 DEF Printer!StartJob, Printer!ResetPaperOutFlags
    <3>2. retries' = 0 /\ oks' = (IF feedback = "ok" THEN 1 ELSE 0)
      BY <2>1 DEF Printer!StartJob
    <3>3. CASE doc = "cal"
      <4>1. Printer!Notify("calibrating")
        BY <2>1, <3>3 DEF Printer!StartJob, Printer!CopyOrFax
      <4>2. feedback # "none" => answered'
        BY <4>1 DEF Printer!Notify
      <4> QED BY <3>1, <3>2, <3>3, <4>2
    <3>4. CASE doc # "cal"
      <4>1. PICK state \in {"idle", "printing", "cleaning"} : Printer!Notify(state)
        BY <2>1, <3>4 DEF Printer!StartJob
      <4>2. print_row' = state /\ answered'
        BY <4>1, ComponentAssumption DEF Printer!Notify, ComponentAssumption
      <4> QED BY <3>1, <3>2, <4>2
    <3> QED BY <3>3, <3>4
  <2>2. ASSUME NEW doc \in DocTypes, Printer!Canceling(doc) PROVE PrintInv'
    BY <2>2 DEF Printer!Canceling, Printer!Notify, Printer!flags
  <2>3. ASSUME NEW state \in Printer!EngineStates, Printer!Engine(state) PROVE PrintInv'
    BY <2>3 DEF Printer!Engine, Printer!EngineStates, Printer!Notify, Printer!flags
  <2>4. CASE Printer!PaperOutAll
    BY <2>4 DEF Printer!PaperOutAll, Printer!Notify
  <2>5. CASE Printer!NoMediaAvailable(user_input')
    BY <2>5 DEF Printer!NoMediaAvailable
  <2>6. CASE Printer!ManualDuplex
    BY <2>6 DEF Printer!ManualDuplex, Printer!Notify
  <2> QED BY <1>6, <2>1, <2>2, <2>3, <2>4, <2>5, <2>6 DEF Printer!PrintEvent
<1>7. CASE UNCHANGED Printer!vars
  BY <1>7 DEF Printer!vars, Printer!flags
<1> QED BY <1>1, <1>2, <1>3, <1>4, <1>5, <1>6, <1>7 DEF Printer!Next

LEMMA PrintTypes ==
  ASSUME ComponentAssumption, Printer!TypeOK, PrintInv, [Printer!Next]_(Printer!vars)
  PROVE  Printer!TypeOK'
<1> DEFINE Flags == {user_input, user_cancel, paper_out_event_occurred,
                     paper_out_user_ok_received, answered, crashed} \subseteq BOOLEAN
           Counts == oks \in 0..MaxOks /\ retries \in Nat
           Shown == /\ print_row \in PrintKnown /\ job \in DocTypes \cup {"none"}
                    /\ feedback \in {"none", "ok", "passed on"}
<1>0. /\ retries \in Nat /\ MaxOks \in Nat /\ oks \in 0..MaxOks
      /\ feedback = "ok" => oks > 0
  BY DEF Printer!TypeOK, PrintInv
<1>1. Flags /\ Counts /\ Shown
  BY DEF Printer!TypeOK
<1>2. ASSUME NEW state, Printer!Notify(state)
      PROVE  print_row' \in PrintKnown /\ answered' \in BOOLEAN
  BY <1>1, <1>2 DEF Printer!Notify
<1>3. ASSUME Printer!Retry PROVE retries' \in Nat /\ crashed' \in BOOLEAN
  <2>1. crashed' \in BOOLEAN
    BY <1>3 DEF Printer!Retry
  <2>2. retries' = retries \/ retries' = retries + 1
    BY <1>3 DEF Printer!Retry
  <2> QED BY <1>0, <2>1, <2>2
<1>4. CASE Printer!Cancel
  BY <1>1, <1>4 DEF Printer!Cancel, Printer!flags, Printer!TypeOK
<1>5. CASE Printer!Ok
  <2>1. oks' \in 0..MaxOks
    <3>1. oks < MaxOks /\ oks' = oks + 1
      BY <1>5 DEF Printer!Ok
    <3> QED BY <1>0, <3>1
  <2> QED BY <1>1, <1>5, <2>1 DEF Printer!Ok, Printer!TypeOK
<1>6. CASE Printer!OkPassedOn
  BY <1>1, <1>3, <1>6 DEF Printer!OkPassedOn, Printer!flags, Printer!TypeOK
<1>7. CASE Printer!PromptOver
  BY <1>1, <1>7 DEF Printer!PromptOver, Printer!TypeOK
<1>8. CASE Printer!MediaPrompt
  BY <1>1, <1>2, <1>8 DEF Printer!MediaPrompt, Printer!TypeOK
<1>9. CASE Printer!PrintEvent
  <2>1. user_input' \in BOOLEAN /\ user_cancel' \in BOOLEAN
    BY <1>9 DEF Printer!PrintEvent
  <2>2. ASSUME NEW doc \in DocTypes, Printer!StartJob(doc) PROVE Printer!TypeOK'
    <3>1. print_row' \in PrintKnown /\ answered' \in BOOLEAN
      BY <1>2, <2>2 DEF Printer!StartJob
    <3>2. oks' \in 0..MaxOks /\ retries' = 0
      <4>1. oks' = (IF feedback = "ok" THEN 1 ELSE 0) /\ retries' = 0
        BY <2>2 DEF Printer!StartJob
      <4>2. MaxOks \in Nat /\ (feedback = "ok" => 1 \in 0..MaxOks)
        BY <1>0
      <4> QED BY ONLY <4>1, <4>2
    <3>3. /\ paper_out_event_occurred' = FALSE /\ paper_out_user_ok_received' = FALSE
          /\ job' = doc /\ UNCHANGED <<feedback, crashed>>
      BY <2>2 DEF Printer!StartJob, Printer!ResetPaperOutFlags
    <3> QED BY <1>1, <2>1, <3>1, <3>2, <3>3 DEF Printer!TypeOK
  <2>3. ASSUME NEW doc \in DocTypes, Printer!Canceling(doc) PROVE Printer!TypeOK'
    BY <1>1, <1>2, <2>1, <2>3 DEF Printer!Canceling, Printer!flags, Printer!TypeOK
  <2>4. ASSUME NEW state \in Printer!EngineStates, Printer!Engine(state) PROVE Printer!TypeOK'
    BY <1>1, <1>2, <2>1, <2>4 DEF Printer!Engine, Printer!flags, Printer!TypeOK
  <2>5. CASE Printer!PaperOutAll
    BY <1>1, <1>2, <2>1, <2>5 DEF Printer!PaperOutAll, Printer!TypeOK
  <2>6. CASE Printer!NoMediaAvailable(user_input')
    <3>1. crashed' \in BOOLEAN /\ paper_out_user_ok_received' \in BOOLEAN
      BY <1>1, <2>6 DEF Printer!NoMediaAvailable
    <3>2. retries' \in Nat
      <4>1. retries' = retries \/ retries' = retries + 1
        BY <2>6 DEF Printer!NoMediaAvailable
      <4> QED BY <1>0, <4>1
    <3>3. paper_out_event_occurred' = TRUE /\ UNCHANGED <<print_row, job, oks, answered, feedback>>
      BY <2>6 DEF Printer!NoMediaAvailable
    <3> QED BY <1>1, <2>1, <3>1, <3>2, <3>3 DEF Printer!TypeOK
  <2>7. CASE Printer!ManualDuplex
    BY <1>1, <1>2, <2>1, <2>7 DEF Printer!ManualDuplex, Printer!TypeOK
  <2> QED BY <1>9, <2>2, <2>3, <2>4, <2>5, <2>6, <2>7 DEF Printer!PrintEvent
<1>10. CASE UNCHANGED Printer!vars
  BY <1>1, <1>10 DEF Printer!vars, Printer!flags, Printer!TypeOK
<1> QED BY <1>4, <1>5, <1>6, <1>7, <1>8, <1>9, <1>10 DEF Printer!Next

LEMMA PrintInvariant == Printer!Spec => [](Printer!TypeOK /\ PrintInv)
<1>1. Printer!Init => Printer!TypeOK /\ PrintInv
  <2> SUFFICES ASSUME Printer!Init PROVE Printer!TypeOK
    BY PrintStarts, ComponentAssumption DEF ComponentAssumption
  <2>1. oks \in 0..MaxOks /\ retries \in Nat /\ print_row \in PrintKnown
    BY ComponentAssumption DEF ComponentAssumption, Printer!Init
  <2>2. {user_input, user_cancel, paper_out_event_occurred, paper_out_user_ok_received,
         answered, crashed} \subseteq BOOLEAN
    BY DEF Printer!Init
  <2> QED BY <2>1, <2>2 DEF Printer!Init, Printer!TypeOK
<1>2. /\ Printer!TypeOK /\ PrintInv /\ [Printer!Next]_(Printer!vars)
      => Printer!TypeOK' /\ PrintInv'
  BY PrintTypes, PrintSteps, ComponentAssumption
<1> QED BY <1>1, <1>2, PTL DEF Printer!Spec

\* Beside the other components this one behaves as it does alone.
LEMMA PrintSlice == Spec => Printer!Spec
<1>1. Init => Printer!Init
  BY DEF Init
<1>2. [Next]_vars => [Printer!Next]_(Printer!vars)
  BY DEF Next, vars, deviceVars, settingVars, printVars, Printer!vars, Printer!flags,
    PrintStep, ScanStep, WirelessStep, BlockStep, NetworkStep, PowerStep,
    StartStep, IpStep, ModeStep
<1> QED BY <1>1, <1>2, PTL DEF Spec, Printer!Spec

\* The print engine tries again only for a user who has pressed OK during this very
\* job, however the prompt, the OK and the end of the paper are ordered (167-169).
THEOREM RetryIsEarned == Spec => []RetryNeedsOk
<1>1. PrintInv => Printer!RetryNeedsOk
  BY DEF PrintInv, Printer!RetryNeedsOk
<1> QED BY <1>1, PrintInvariant, PrintSlice, PTL DEF RetryNeedsOk

\* A paper prompt that is up and not answered passes an OK on at once, whatever
\* events came in between (105-115, 177-179).
THEOREM PromptCanBeAnswered == Spec => []PromptIsLive
<1>1. PrintInv => Printer!PromptIsLive
  BY DEF PrintInv
<1> QED BY <1>1, PrintInvariant, PrintSlice, PTL DEF PromptIsLive
-----------------------------------------------------------------------------
(* Scanning.                                                                *)

Scanning == is_soapscan_running \/ is_wsdscan_running

\* A report of a scan is made from flags that say so, unless they have changed since; and
\* a row that says "scanning" is about to become idle when the flags no longer say so.
ScanInv ==
  /\ \A t \in Scan!Threads : reporting[t] = "scanning" /\ t \notin outdated => Scanning
  /\ scan_row = "scanning" /\ ~stale =>
       Scanning \/ soap = "timeout" \/ \E t \in Scan!Threads : reporting[t] = "idle"

\* A thread that has nothing to report may decide to, from the flags as they are.
LEMMA ScanDecides ==
  ASSUME Scan!TypeOK, ScanInv, NEW t \in Scan!Threads, NEW state, reporting[t] = "none",
         reporting' = reporting \/ reporting' = [reporting EXCEPT ![t] = state],
         state = "scanning" => Scanning,
         UNCHANGED <<is_soapscan_running, is_wsdscan_running, soap, scan_row, outdated, stale>>
  PROVE  ScanInv'
<1>1. \A u \in Scan!Threads : reporting'[u] = reporting[u] \/ (u = t /\ reporting'[u] = state)
  BY DEF Scan!TypeOK
<1>2. \A u \in Scan!Threads : reporting[u] = "idle" => reporting'[u] = "idle"
  BY <1>1
<1>3. \A u \in Scan!Threads : reporting'[u] = "scanning" /\ u \notin outdated => Scanning
  BY <1>1 DEF ScanInv
<1> QED BY <1>2, <1>3 DEF ScanInv, Scanning

\* A scan application changes the flags under whoever else is about to report.
LEMMA ScanFlags ==
  ASSUME Scan!TypeOK, ScanInv, NEW t \in Scan!Threads, NEW state,
         reporting' = [reporting EXCEPT ![t] = state],
         outdated' = {u \in Scan!Threads \ {t} : reporting[u] # "none"},
         state = "scanning" => Scanning',
         Scanning' \/ state = "idle" \/ soap' = "timeout",
         UNCHANGED <<scan_row, stale>>
  PROVE  ScanInv'
<1>1. \A u \in Scan!Threads : reporting'[u] = IF u = t THEN state ELSE reporting[u]
  BY DEF Scan!TypeOK
<1>2. ASSUME NEW u \in Scan!Threads, reporting'[u] = "scanning", u \notin outdated' PROVE Scanning'
  BY <1>1, <1>2
<1>3. Scanning' \/ soap' = "timeout" \/ \E u \in Scan!Threads : reporting'[u] = "idle"
  BY <1>1
<1> QED BY <1>2, <1>3 DEF ScanInv

LEMMA ScanReports ==
  ASSUME "idle" \in ScanKnown, Scan!TypeOK, ScanInv, NEW t \in Scan!Threads, Scan!Report(t)
  PROVE  ScanInv'
<1>1. /\ scan_row' = IF reporting[t] \in ScanKnown THEN reporting[t] ELSE scan_row
      /\ outdated' = outdated \ {t}
      /\ stale' = IF reporting[t] \in ScanKnown THEN t \in outdated ELSE stale
      /\ UNCHANGED <<is_soapscan_running, is_wsdscan_running, soap>>
  BY DEF Scan!Report, Scan!Notify, Scan!flags
<1>2. \A u \in Scan!Threads : reporting'[u] = IF u = t THEN "none" ELSE reporting[u]
  BY DEF Scan!Report, Scan!TypeOK
<1>3. Scanning' <=> Scanning
  BY <1>1 DEF Scanning
<1>4. ASSUME NEW u \in Scan!Threads, reporting'[u] = "scanning", u \notin outdated' PROVE Scanning'
  BY <1>1, <1>2, <1>3, <1>4 DEF ScanInv
<1>5. ASSUME scan_row' = "scanning", ~stale'
      PROVE  Scanning' \/ soap' = "timeout" \/ \E u \in Scan!Threads : reporting'[u] = "idle"
  <2>1. CASE reporting[t] \in ScanKnown
    <3>1. reporting[t] = "scanning" /\ t \notin outdated
      BY <1>1, <1>5, <2>1
    <3> QED BY <1>3, <3>1 DEF ScanInv
  <2>2. CASE reporting[t] \notin ScanKnown
    <3>1. scan_row = "scanning" /\ ~stale /\ soap' = soap
      BY <1>1, <1>5, <2>2
    <3>2. \A u \in Scan!Threads : reporting[u] = "idle" => reporting'[u] = "idle"
      BY <1>2, <2>2
    <3> QED BY <1>3, <3>1, <3>2 DEF ScanInv
  <2> QED BY <2>1, <2>2
<1> QED BY <1>4, <1>5 DEF ScanInv

LEMMA ScanSteps ==
  ASSUME "idle" \in ScanKnown, Scan!TypeOK, ScanInv, [Scan!Next]_(Scan!vars)
  PROVE  ScanInv'
<1> DEFINE s == "scanman"
           u == "ui"
<1>0. s \in Scan!Threads /\ u \in Scan!Threads /\ "soap" \in Scan!Threads /\ "wsd" \in Scan!Threads
  BY DEF Scan!Threads
<1> USE DEF Scan!Decide, Scan!Decided, Scan!flags, Scan!history
<1>1. ASSUME NEW value \in {-1, 0, 1}, Scan!PaperPresent(value) PROVE ScanInv'
  <2>1. PICK state \in {"paper_present_failure", "idle"} :
          reporting' = reporting \/ reporting' = [reporting EXCEPT ![s] = state]
    BY <1>1 DEF Scan!PaperPresent
  <2> QED BY <1>0, <1>1, <2>1, ScanDecides DEF Scan!PaperPresent
<1>2. ASSUME NEW state, NEW show, show # "scanning", Scan!DeviceEvent(state, show) PROVE ScanInv'
  BY <1>0, <1>2, ScanDecides DEF Scan!DeviceEvent
<1>3. CASE Scan!PaperJam \/ Scan!OtherDeviceEvent
  BY <1>2, <1>3 DEF Scan!PaperJam, Scan!OtherDeviceEvent
<1>4. ASSUME NEW state, state = "scanning" => Scanning, Scan!ScanEvent(state) PROVE ScanInv'
  BY <1>0, <1>4, ScanDecides DEF Scan!ScanEvent
<1>5. CASE Scan!Initializing \/ Scan!CalibrationRunning \/ Scan!CalibrationComplete \/ Scan!ScanCancel
  <2>1. CASE Scan!CalibrationComplete
    <3> DEFINE state == IF Scanning THEN "scanning" ELSE "idle"
    <3>1. Scan!ScanEvent(state) /\ (state = "scanning" => Scanning)
      BY <2>1 DEF Scan!CalibrationComplete, Scan!ScanRunning, Scanning
    <3> QED BY <1>4, <3>1
  <2>2. CASE Scan!Initializing \/ Scan!CalibrationRunning \/ Scan!ScanCancel
    BY <1>4, <2>2 DEF Scan!Initializing, Scan!CalibrationRunning, Scan!ScanCancel
  <2> QED BY <1>5, <2>1, <2>2
<1>6. ASSUME NEW e \in {"running", "complete", "timeout"}, Scan!SoapScan(e) PROVE ScanInv'
  <2> DEFINE t == "soap"
             state == CASE e = "running" -> "scanning" [] e = "complete" -> "idle"
                        [] e = "timeout" -> "device-busy-scan-later"
  <2>1. /\ reporting' = [reporting EXCEPT ![t] = state]
        /\ outdated' = {v \in Scan!Threads \ {t} : reporting[v] # "none"}
        /\ UNCHANGED <<scan_row, stale>>
    BY <1>6 DEF Scan!SoapScan, Scan!Outdate
  <2>2. is_soapscan_running' = (e = "running") /\ soap' = e
    BY <1>6 DEF Scan!SoapScan
  <2>3. /\ state = "scanning" => Scanning'
        /\ Scanning' \/ state = "idle" \/ soap' = "timeout"
    BY <2>2 DEF Scanning
  <2>4. t \in Scan!Threads
    BY <1>0
  <2> HIDE DEF t, state
  <2> QED BY <2>1, <2>3, <2>4, ScanFlags
<1>7. ASSUME NEW e \in {"running", "complete"}, Scan!WsdScan(e) PROVE ScanInv'
  <2> DEFINE t == "wsd"
             state == IF e = "running" THEN "scanning" ELSE "idle"
  <2>1. /\ reporting' = [reporting EXCEPT ![t] = state]
        /\ outdated' = {v \in Scan!Threads \ {t} : reporting[v] # "none"}
        /\ UNCHANGED <<scan_row, stale>>
    BY <1>7 DEF Scan!WsdScan, Scan!Outdate
  <2>2. is_wsdscan_running' = (e = "running")
    BY <1>7 DEF Scan!WsdScan
  <2>3. (state = "scanning" => Scanning') /\ (Scanning' \/ state = "idle")
    BY <2>2 DEF Scanning
  <2>4. t \in Scan!Threads
    BY <1>0
  <2> HIDE DEF t, state
  <2> QED BY <2>1, <2>3, <2>4, ScanFlags
<1>8. CASE Scan!OkOther \/ Scan!OkJam
  <2> DEFINE state == "idle"
  <2>1. /\ reporting[u] = "none" /\ reporting' = [reporting EXCEPT ![u] = state]
        /\ UNCHANGED <<is_soapscan_running, is_wsdscan_running, soap, scan_row, outdated, stale>>
    BY <1>8 DEF Scan!OkOther, Scan!OkJam
  <2>2. state # "scanning"
    OBVIOUS
  <2> HIDE DEF state, u
  <2> QED BY <1>0, <2>1, <2>2, ScanDecides
<1>9. CASE Scan!ClearFailure \/ Scan!TouchPaper \/ UNCHANGED Scan!vars
  BY <1>9 DEF Scan!ClearFailure, Scan!TouchPaper, Scan!vars, ScanInv, Scanning
<1>10. ASSUME NEW t \in Scan!Threads, Scan!Report(t) PROVE ScanInv'
  BY <1>10, ScanReports
<1> QED
  BY <1>1, <1>3, <1>5, <1>6, <1>7, <1>8, <1>9, <1>10 DEF Scan!Next

LEMMA ScanTypes ==
  ASSUME "idle" \in ScanKnown, Scan!TypeOK, [Scan!Next]_(Scan!vars)
  PROVE  Scan!TypeOK'
<1> DEFINE Reports == {"none", "paper_present_failure", "idle", "paper_jam", "miss_pick",
             "scanner_error", "initializing", "calibrating", "scanning", "canceling_scan",
             "device-busy-scan-later"}
           Bools == {bad_pp_flag, is_soapscan_running, is_wsdscan_running, paper_in_path} \subseteq BOOLEAN
           Device == /\ scan_device_state \in {"NULL", "IDLE", "SCAN_START", "SCAN_JAM", "SCAN_NOPICK", "BUSY", "OFFLINE"}
                     /\ last_known_paper_status \in {-1, 0, 1}
           Rest == /\ scan_row \in ScanKnown
                   /\ clearing \in BOOLEAN /\ stale \in BOOLEAN /\ outdated \subseteq Scan!Threads
                   /\ soap \in {"none", "running", "complete", "timeout"}
<1>1. Bools /\ Device /\ Rest /\ reporting \in [Scan!Threads -> Reports]
  BY DEF Scan!TypeOK
<1>2. ASSUME Bools', Device', Rest', reporting' \in [Scan!Threads -> Reports]
      PROVE  Scan!TypeOK'
  BY <1>2 DEF Scan!TypeOK
<1>3. ASSUME NEW t, NEW state \in Reports, Scan!Decide(t, state) PROVE reporting' \in [Scan!Threads -> Reports]
  BY <1>1, <1>3 DEF Scan!Decide
<1> HIDE DEF Reports
<1>4. {"none", "paper_present_failure", "idle", "paper_jam", "miss_pick",
       "scanner_error", "initializing", "calibrating", "scanning", "canceling_scan",
       "device-busy-scan-later"} \subseteq Reports
  BY DEF Reports
<1> USE DEF Scan!device, Scan!flags, Scan!history
<1>5. ASSUME NEW value \in {-1, 0, 1}, Scan!PaperPresent(value) PROVE Scan!TypeOK'
  <2>1. bad_pp_flag' \in BOOLEAN
    BY <1>5 DEF Scan!PaperPresent
  <2>2. reporting' \in [Scan!Threads -> Reports]
    BY <1>1, <1>3, <1>4, <1>5 DEF Scan!PaperPresent
  <2> QED BY <1>1, <1>2, <1>5, <2>1, <2>2 DEF Scan!PaperPresent
<1>6. ASSUME NEW state \in {"IDLE", "SCAN_JAM", "SCAN_NOPICK", "BUSY", "OFFLINE"}, NEW show \in Reports,
             Scan!DeviceEvent(state, show), paper_in_path' \in BOOLEAN
      PROVE  Scan!TypeOK'
  <2>1. reporting' \in [Scan!Threads -> Reports]
    BY <1>3, <1>6 DEF Scan!DeviceEvent
  <2> QED BY <1>1, <1>2, <1>6, <2>1 DEF Scan!DeviceEvent
<1>7. CASE Scan!PaperJam \/ Scan!OtherDeviceEvent
  <2>1. paper_in_path' \in BOOLEAN
    BY <1>1, <1>7 DEF Scan!PaperJam, Scan!OtherDeviceEvent
  <2> QED BY <1>4, <1>6, <1>7, <2>1 DEF Scan!PaperJam, Scan!OtherDeviceEvent
<1>8. ASSUME NEW state \in Reports, Scan!ScanEvent(state) PROVE Scan!TypeOK'
  <2>1. reporting' \in [Scan!Threads -> Reports]
    BY <1>3, <1>8 DEF Scan!ScanEvent
  <2> QED BY <1>1, <1>2, <1>8, <2>1 DEF Scan!ScanEvent
<1>9. CASE Scan!Initializing \/ Scan!CalibrationRunning \/ Scan!CalibrationComplete \/ Scan!ScanCancel
  BY <1>4, <1>8, <1>9 DEF Scan!Initializing, Scan!CalibrationRunning, Scan!CalibrationComplete,
    Scan!ScanCancel
<1>10. ASSUME NEW e \in {"running", "complete", "timeout"}, Scan!SoapScan(e) PROVE Scan!TypeOK'
  <2>1. reporting' \in [Scan!Threads -> Reports]
    BY <1>3, <1>4, <1>10 DEF Scan!SoapScan
  <2>2. is_soapscan_running' \in BOOLEAN /\ is_wsdscan_running' \in BOOLEAN
    BY <1>10 DEF Scan!SoapScan
  <2>3. outdated' \subseteq Scan!Threads /\ stale' = stale
    BY <1>10 DEF Scan!SoapScan, Scan!Outdate
  <2> QED BY <1>1, <1>2, <1>10, <2>1, <2>2, <2>3 DEF Scan!SoapScan
<1>11. ASSUME NEW e \in {"running", "complete"}, Scan!WsdScan(e) PROVE Scan!TypeOK'
  <2>1. reporting' \in [Scan!Threads -> Reports]
    BY <1>3, <1>4, <1>11 DEF Scan!WsdScan
  <2>2. is_soapscan_running' \in BOOLEAN /\ is_wsdscan_running' \in BOOLEAN
    BY <1>11 DEF Scan!WsdScan
  <2>3. outdated' \subseteq Scan!Threads /\ stale' = stale
    BY <1>11 DEF Scan!WsdScan, Scan!Outdate
  <2> QED BY <1>1, <1>2, <1>11, <2>1, <2>2, <2>3 DEF Scan!WsdScan
<1>12. CASE Scan!OkOther \/ Scan!OkJam
  <2>1. reporting' \in [Scan!Threads -> Reports]
    BY <1>3, <1>4, <1>12 DEF Scan!OkOther, Scan!OkJam
  <2> QED BY <1>1, <1>2, <1>12, <2>1 DEF Scan!OkOther, Scan!OkJam
<1>13. CASE Scan!ClearFailure \/ Scan!TouchPaper \/ UNCHANGED Scan!vars
  BY <1>1, <1>2, <1>13 DEF Scan!ClearFailure, Scan!TouchPaper, Scan!vars
<1>14. ASSUME NEW t \in Scan!Threads, Scan!Report(t) PROVE Scan!TypeOK'
  <2>1. scan_row' \in ScanKnown
    BY <1>1, <1>14 DEF Scan!Report, Scan!Notify
  <2>2. reporting' \in [Scan!Threads -> Reports] /\ outdated' \subseteq Scan!Threads
    BY <1>1, <1>4, <1>14 DEF Scan!Report
  <2>3. stale' \in BOOLEAN
    <3>1. stale' = IF reporting[t] \in ScanKnown THEN t \in outdated ELSE stale
      BY <1>14 DEF Scan!Report
    <3>2. CASE reporting[t] \in ScanKnown
      <4>1. stale' = (t \in outdated)
        BY <3>1, <3>2
      <4>2. (t \in outdated) \in BOOLEAN
        OBVIOUS
      <4> QED BY <4>1, <4>2, Zenon
    <3>3. CASE reporting[t] \notin ScanKnown
      BY <1>1, <3>1, <3>3, Zenon
    <3> QED BY <3>2, <3>3
  <2> QED BY <1>1, <1>2, <1>14, <2>1, <2>2, <2>3 DEF Scan!Report
<1> QED
  BY <1>5, <1>7, <1>9, <1>10, <1>11, <1>12, <1>13, <1>14 DEF Scan!Next

LEMMA ScanInvariant == Scan!Spec => [](Scan!TypeOK /\ ScanInv)
<1>1. Scan!Init => Scan!TypeOK /\ ScanInv
  <2> SUFFICES ASSUME Scan!Init PROVE Scan!TypeOK /\ ScanInv
    OBVIOUS
  <2>1. Scan!TypeOK
    BY ComponentAssumption DEF ComponentAssumption, Scan!Init, Scan!TypeOK
  <2>2. ScanInv
    BY DEF Scan!Init, ScanInv
  <2> QED BY <2>1, <2>2
<1>2. Scan!TypeOK /\ ScanInv /\ [Scan!Next]_(Scan!vars) => Scan!TypeOK' /\ ScanInv'
  BY ScanTypes, ScanSteps, ComponentAssumption DEF ComponentAssumption
<1> QED BY <1>1, <1>2, PTL DEF Scan!Spec

\* Beside the other components this one behaves as it does alone.
LEMMA ScanSlice == Spec => Scan!Spec
<1>1. Init => Scan!Init
  BY DEF Init
<1>2. [Next]_vars => [Scan!Next]_(Scan!vars)
  BY DEF Next, vars, deviceVars, settingVars, scanVars, Scan!vars, Scan!device,
    Scan!flags, Scan!history, PrintStep, ScanStep, WirelessStep, BlockStep, NetworkStep, PowerStep,
    StartStep, IpStep, ModeStep
<1> QED BY <1>1, <1>2, PTL DEF Spec, Scan!Spec

\* When no thread is about to report, the row says "scanning" only while an application
\* scans, or after a SOAP scan has timed out (160-167), or when it was last written from
\* flags that had changed since they were read: in whatever order the scanner, the two
\* applications and the user come between each other's reading and reporting.
THEOREM ScanningRowIsTrue == Spec => []ScanningIsRunning
<1>1. ScanInv => Scan!ScanningIsRunning
  BY DEF ScanInv, Scan!ScanningIsRunning, Scan!ScanRunning, Scanning, Scan!Decided
<1> QED BY <1>1, ScanInvariant, ScanSlice, PTL DEF ScanningIsRunning
-----------------------------------------------------------------------------
(* The wireless link and WPS.                                               *)

\* The other thread rests, and the handle, the flag and the timers are as they should be
\* where thread t is.
OthersRest(t) == \A u \in Wifi!Threads \ {t} : Wifi!Rests(u)

Place(t) ==
  /\ Wifi!Rests(t) =>
       /\ wifi_signal_strength_timer # 0 => wifi_signal_strength_timer \in running
       /\ g_wifi_connected => wifi_signal_strength_timer # 0
  /\ link_pc[t] = "store" => new_timer[t] \in running
  /\ link_pc[t] \in {"test", "cancel", "clear"} => ~g_wifi_connected

\* One running timer has a handle, that of the variable or the one about to be stored.
Handled(t) ==
  \/ link_pc[t] = "store"
  \/ link_pc[t] \notin {"start", "clear"} /\ wifi_signal_strength_timer # 0

\* The timers without a handle are those of the reconnections.
Counted(t) ==
  /\ link_pc[t] \notin {"start", "store", "clear"} /\ wifi_signal_strength_timer # 0 =>
       wifi_signal_strength_timer \in running
  /\ Wifi!Rests(t) => (up <=> wifi_signal_strength_timer # 0)
  /\ link_pc[t] \in {"start", "store"} => up
  /\ link_pc[t] \in {"test", "cancel", "clear"} => ~up
  /\ link_pc[t] = "cancel" => wifi_signal_strength_timer # 0
  /\ Cardinality(running) = reconnects + (IF Handled(t) THEN 1 ELSE 0)

\* Unless the threads have met, one of them at most is under way.
WifiLink ==
  meeting # "crossed" =>
    \E t \in Wifi!Threads : OthersRest(t) /\ Place(t) /\ (meeting = "clean" => Counted(t))

WifiInv ==
  /\ WifiLink
  /\ IsFiniteSet(running)
  /\ Wifi!ProgressIsActive

\* The wireless component counts as this module does.
LEMMA SameCardinality == \A S : Wifi!Cardinality(S) = Cardinality(S)
BY DEF Wifi!Cardinality, Cardinality

\* The thread that moves is the one that is under way.
LEMMA WifiUnderWay ==
  ASSUME WifiLink, meeting # "crossed", NEW t \in Wifi!Threads, ~Wifi!Rests(t)
  PROVE  OthersRest(t) /\ Place(t) /\ (meeting = "clean" => Counted(t))
<1>1. PICK u \in Wifi!Threads : OthersRest(u) /\ Place(u) /\ (meeting = "clean" => Counted(u))
  BY DEF WifiLink
<1>2. u = t
  BY <1>1 DEF OthersRest
<1> QED BY <1>1, <1>2

LEMMA WifiGoes ==
  ASSUME Wifi!TypeOK, NEW t \in Wifi!Threads, NEW place, Wifi!Goto(t, place), OthersRest(t)
  PROVE  link_pc'[t] = place /\ OthersRest(t)'
<1>1. \A u \in Wifi!Threads : link_pc'[u] = IF u = t THEN place ELSE link_pc[u]
  BY DEF Wifi!Goto, Wifi!TypeOK
<1> QED BY <1>1 DEF OthersRest, Wifi!Rests

LEMMA WifiStarts ==
  ASSUME Wifi!TypeOK, WifiLink, IsFiniteSet(running), NEW t \in Wifi!Threads,
         Wifi!StartTimer(t)
  PROVE  WifiLink' /\ IsFiniteSet(running')
<1>1. /\ link_pc[t] = "start" /\ Wifi!Goto(t, "store") /\ made' = made + 1
      /\ running' = running \cup {made + 1}
      /\ new_timer' = [new_timer EXCEPT ![t] = made + 1]
      /\ UNCHANGED <<up, reconnects, meeting>>
      /\ UNCHANGED <<g_wifi_connected, wifi_signal_strength_timer>>
  BY DEF Wifi!StartTimer, Wifi!history
<1>2. new_timer'[t] = made + 1
  BY <1>1 DEF Wifi!TypeOK
<1>3. made \in Nat /\ made + 1 \notin running /\ Cardinality(running) \in Nat /\ reconnects \in Nat
  BY FS_CardinalityType DEF Wifi!TypeOK
<1>4. IsFiniteSet(running') /\ Cardinality(running') = Cardinality(running) + 1
  BY <1>1, <1>3, FS_AddElement
<1>5. ASSUME meeting # "crossed" PROVE WifiLink'
  <2>1. ~Wifi!Rests(t)
    BY <1>1 DEF Wifi!Rests
  <2>2. OthersRest(t) /\ Place(t) /\ (meeting = "clean" => Counted(t))
    BY <1>5, <2>1, WifiUnderWay
  <2>3. link_pc'[t] = "store" /\ OthersRest(t)'
    BY <1>1, <2>2, WifiGoes
  <2>4. Place(t)'
    BY <1>1, <1>2, <2>3 DEF Place, Wifi!Rests
  <2>5. meeting = "clean" => Counted(t)'
    <3>1. ASSUME meeting = "clean" PROVE up /\ Cardinality(running) = reconnects
      BY <1>1, <1>3, <2>2, <3>1 DEF Counted, Handled
    <3> QED BY <1>1, <1>3, <1>4, <2>3, <3>1 DEF Counted, Handled, Wifi!Rests
  <2> QED BY <1>1, <2>3, <2>4, <2>5 DEF WifiLink
<1> QED BY <1>1, <1>4, <1>5 DEF WifiLink

LEMMA WifiStores ==
  ASSUME Wifi!TypeOK, WifiLink, NEW t \in Wifi!Threads, Wifi!StoreTimer(t)
  PROVE  WifiLink' /\ running' = running
<1>1. /\ link_pc[t] = "store" /\ Wifi!Goto(t, Wifi!Rested(t)) /\ running' = running
      /\ wifi_signal_strength_timer' = new_timer[t]
      /\ UNCHANGED <<up, reconnects, meeting, g_wifi_connected>>
  BY DEF Wifi!StoreTimer, Wifi!history
<1>2. ASSUME meeting # "crossed" PROVE WifiLink'
  <2>1. ~Wifi!Rests(t)
    BY <1>1 DEF Wifi!Rests
  <2>2. OthersRest(t) /\ Place(t) /\ (meeting = "clean" => Counted(t))
    BY <1>2, <2>1, WifiUnderWay
  <2>3. link_pc'[t] \in {"idle", "done"} /\ OthersRest(t)'
    BY <1>1, <2>2, WifiGoes DEF Wifi!Rested
  <2>4. wifi_signal_strength_timer' \in running /\ wifi_signal_strength_timer' # 0
    BY <1>1, <2>2 DEF Place, Wifi!TypeOK
  <2>5. Place(t)'
    BY <1>1, <2>3, <2>4 DEF Place
  <2>6. meeting = "clean" => Counted(t)'
    BY <1>1, <2>2, <2>3, <2>4 DEF Counted, Handled
  <2> QED BY <1>1, <2>3, <2>5, <2>6 DEF WifiLink
<1> QED BY <1>1, <1>2 DEF WifiLink

LEMMA WifiTests ==
  ASSUME Wifi!TypeOK, WifiLink, NEW t \in Wifi!Threads, Wifi!TestTimer(t)
  PROVE  WifiLink' /\ running' = running
<1>1. /\ link_pc[t] = "test" /\ running' = running
      /\ Wifi!Goto(t, IF wifi_signal_strength_timer = 0 THEN Wifi!Rested(t) ELSE "cancel")
      /\ UNCHANGED <<wifi_signal_strength_timer, new_timer, g_wifi_connected>>
      /\ UNCHANGED <<up, reconnects, meeting>>
  BY DEF Wifi!TestTimer, Wifi!history
<1>2. ASSUME meeting # "crossed" PROVE WifiLink'
  <2>1. ~Wifi!Rests(t)
    BY <1>1 DEF Wifi!Rests
  <2>2. OthersRest(t) /\ Place(t) /\ (meeting = "clean" => Counted(t))
    BY <1>2, <2>1, WifiUnderWay
  <2>3. /\ OthersRest(t)'
        /\ link_pc'[t] = IF wifi_signal_strength_timer = 0 THEN Wifi!Rested(t) ELSE "cancel"
    BY <1>1, <2>2, WifiGoes
  <2>4. IF wifi_signal_strength_timer = 0 THEN link_pc'[t] \in {"idle", "done"}
        ELSE link_pc'[t] = "cancel"
    BY <2>3 DEF Wifi!Rested
  <2>5. Place(t)'
    BY <1>1, <2>2, <2>4 DEF Place, Wifi!Rests
  <2>6. meeting = "clean" => Counted(t)'
    BY <1>1, <2>2, <2>4 DEF Counted, Handled, Wifi!Rests
  <2> QED BY <1>1, <2>3, <2>5, <2>6 DEF WifiLink
<1> QED BY <1>1, <1>2 DEF WifiLink

LEMMA WifiCancels ==
  ASSUME Wifi!TypeOK, WifiLink, IsFiniteSet(running), NEW t \in Wifi!Threads,
         Wifi!CancelTimer(t)
  PROVE  WifiLink' /\ IsFiniteSet(running')
<1>1. /\ link_pc[t] = "cancel" /\ Wifi!Goto(t, "clear")
      /\ running' = running \ {wifi_signal_strength_timer}
      /\ UNCHANGED <<wifi_signal_strength_timer, new_timer, g_wifi_connected>>
      /\ UNCHANGED <<up, reconnects, meeting>>
  BY DEF Wifi!CancelTimer, Wifi!history
<1>2. /\ Cardinality(running) \in Nat /\ reconnects \in Nat /\ IsFiniteSet(running')
      /\ wifi_signal_strength_timer \in running =>
           Cardinality(running') = Cardinality(running) - 1
  BY <1>1, FS_CardinalityType, FS_RemoveElement DEF Wifi!TypeOK
<1>3. ASSUME meeting # "crossed" PROVE WifiLink'
  <2>1. ~Wifi!Rests(t)
    BY <1>1 DEF Wifi!Rests
  <2>2. OthersRest(t) /\ Place(t) /\ (meeting = "clean" => Counted(t))
    BY <1>3, <2>1, WifiUnderWay
  <2>3. link_pc'[t] = "clear" /\ OthersRest(t)'
    BY <1>1, <2>2, WifiGoes
  <2>4. Place(t)'
    BY <1>1, <2>2, <2>3 DEF Place, Wifi!Rests
  <2>5. ASSUME meeting = "clean" PROVE Counted(t)'
    <3>1. /\ wifi_signal_strength_timer # 0 /\ wifi_signal_strength_timer \in running /\ ~up
          /\ Cardinality(running) = reconnects + 1
      BY <1>1, <2>2, <2>5 DEF Counted, Handled
    <3>2. Cardinality(running') = reconnects
      BY <1>2, <3>1
    <3> QED BY <1>1, <2>3, <3>1, <3>2, <1>2 DEF Counted, Handled, Wifi!Rests
  <2> QED BY <1>1, <2>3, <2>4, <2>5 DEF WifiLink
<1> QED BY <1>1, <1>2, <1>3 DEF WifiLink

LEMMA WifiClears ==
  ASSUME Wifi!TypeOK, WifiLink, NEW t \in Wifi!Threads, Wifi!ClearTimer(t)
  PROVE  WifiLink' /\ running' = running
<1>1. /\ link_pc[t] = "clear" /\ Wifi!Goto(t, Wifi!Rested(t)) /\ running' = running
      /\ wifi_signal_strength_timer' = 0
      /\ UNCHANGED <<up, reconnects, meeting, g_wifi_connected>>
  BY DEF Wifi!ClearTimer, Wifi!history
<1>2. ASSUME meeting # "crossed" PROVE WifiLink'
  <2>1. ~Wifi!Rests(t)
    BY <1>1 DEF Wifi!Rests
  <2>2. OthersRest(t) /\ Place(t) /\ (meeting = "clean" => Counted(t))
    BY <1>2, <2>1, WifiUnderWay
  <2>3. link_pc'[t] \in {"idle", "done"} /\ OthersRest(t)'
    BY <1>1, <2>2, WifiGoes DEF Wifi!Rested
  <2>4. Place(t)'
    BY <1>1, <2>2, <2>3 DEF Place
  <2>5. meeting = "clean" => Counted(t)'
    BY <1>1, <2>2, <2>3 DEF Counted, Handled
  <2> QED BY <1>1, <2>3, <2>4, <2>5 DEF WifiLink
<1> QED BY <1>1, <1>2 DEF WifiLink

\* An event finds the handle as it should be, or is an end of the link.
LEMMA WifiEvents ==
  ASSUME Wifi!TypeOK, WifiLink, IsFiniteSet(running), NEW t \in Wifi!Threads,
         NEW what \in Wifi!LinkEvents, Wifi!LinkEvent(t, what)
  PROVE  WifiLink' /\ running' = running
<1> DEFINE place == CASE what = "connected" -> "start"
                      [] what = "connecting" -> Wifi!Rested(t)
                      [] OTHER -> "test"
<1>1. /\ link_pc[t] \in {"idle", "look"} /\ Wifi!Goto(t, place) /\ running' = running
      /\ g_wifi_connected' = (what = "connected") /\ Wifi!Meet(t, what)
      /\ UNCHANGED <<wifi_signal_strength_timer, new_timer>>
  BY DEF Wifi!LinkEvent
<1>2. /\ what = "connected" => place = "start"
      /\ what = "connecting" => place \in {"idle", "done"}
      /\ what \in {"down", "error"} => place = "test"
      /\ what \in {"connected", "connecting", "down", "error"}
  BY DEF Wifi!Rested, Wifi!LinkEvents
<1> HIDE DEF place
<1>3. ASSUME meeting' # "crossed" PROVE WifiLink'
  <2>1. OthersRest(t)
    BY <1>1, <1>3 DEF Wifi!Meet, OthersRest
  <2>2. \A u \in Wifi!Threads : Wifi!Rests(u)
    BY <1>1, <2>1 DEF OthersRest, Wifi!Rests
  <2>3. link_pc'[t] = place /\ OthersRest(t)'
    BY <1>1, <2>1, WifiGoes
  <2>4. meeting = "crossed" => what \in {"down", "error"} /\ meeting' # "clean"
    BY <1>1, <1>3 DEF Wifi!Meet
  <2>5. meeting # "crossed" => meeting' = meeting
    BY <1>1, <1>3 DEF Wifi!Meet
  <2>6. ASSUME meeting # "crossed"
        PROVE  /\ wifi_signal_strength_timer # 0 => wifi_signal_strength_timer \in running
               /\ meeting = "clean" =>
                    /\ up <=> wifi_signal_strength_timer # 0
                    /\ Cardinality(running) =
                         reconnects + (IF wifi_signal_strength_timer # 0 THEN 1 ELSE 0)
    <3>1. PICK u \in Wifi!Threads : Place(u) /\ (meeting = "clean" => Counted(u))
      BY <2>6 DEF WifiLink
    <3>2. link_pc[u] \in {"idle", "look", "done"}
      BY <2>2 DEF Wifi!Rests
    <3> QED BY <3>1, <3>2, <2>2 DEF Place, Counted, Handled
  <2>7. Place(t)'
    <3>1. CASE what = "connected"
      BY <1>2, <2>3, <3>1 DEF Place, Wifi!Rests
    <3>2. CASE what = "connecting"
      BY <1>1, <1>2, <2>3, <2>4, <2>6, <3>2 DEF Place, Wifi!Rests
    <3>3. CASE what \in {"down", "error"}
      BY <1>1, <1>2, <2>3, <3>3 DEF Place, Wifi!Rests
    <3> QED BY <1>2, <3>1, <3>2, <3>3
  <2>8. ASSUME meeting' = "clean" PROVE Counted(t)'
    <3>1. meeting = "clean"
      BY <2>4, <2>5, <2>8
    <3>2. /\ wifi_signal_strength_timer # 0 => wifi_signal_strength_timer \in running
          /\ up <=> wifi_signal_strength_timer # 0
          /\ Cardinality(running) =
               reconnects + (IF wifi_signal_strength_timer # 0 THEN 1 ELSE 0)
      BY <2>6, <3>1
    <3>3. /\ up' = IF what = "connecting" THEN up ELSE what = "connected"
          /\ reconnects' = IF up /\ what = "connected" THEN reconnects + 1 ELSE reconnects
          /\ reconnects \in Nat
      BY <1>1 DEF Wifi!Meet, Wifi!TypeOK
    <3>4. CASE what = "connected"
      <4>1. link_pc'[t] = "start" /\ up'
        BY <1>2, <2>3, <3>3, <3>4
      <4>2. Cardinality(running) = reconnects'
        BY <3>2, <3>3, <3>4
      <4>3. Cardinality(running') = reconnects' + 0
        BY <1>1, <4>2, <3>3
      <4> QED BY <4>1, <4>3 DEF Counted, Handled, Wifi!Rests
    <3>5. CASE what = "connecting"
      BY <1>1, <1>2, <2>3, <3>2, <3>3, <3>5 DEF Counted, Handled, Wifi!Rests
    <3>6. CASE what \in {"down", "error"}
      BY <1>1, <1>2, <2>3, <3>2, <3>3, <3>6 DEF Counted, Handled, Wifi!Rests
    <3> QED BY <1>2, <3>4, <3>5, <3>6
  <2> QED BY <2>3, <2>7, <2>8 DEF WifiLink
<1> QED BY <1>1, <1>3 DEF WifiLink

LEMMA WifiSteps ==
  ASSUME Wifi!TypeOK, WifiInv, [Wifi!Next]_(Wifi!vars)
  PROVE  WifiInv'
<1>0. ASSUME UNCHANGED Wifi!link PROVE WifiLink' /\ running' = running
  BY <1>0 DEF WifiInv, WifiLink, OthersRest, Place, Counted, Handled, Wifi!Rests, Wifi!link,
    Wifi!history
<1>1. ASSUME UNCHANGED Wifi!wps PROVE Wifi!ProgressIsActive'
  BY <1>1 DEF WifiInv, Wifi!ProgressIsActive, Wifi!wps
<1>2. CASE Wifi!Link
  <2>1. UNCHANGED Wifi!wps
    BY <1>2 DEF Wifi!Link, Wifi!LinkEvent, Wifi!StartTimer, Wifi!StoreTimer, Wifi!TestTimer,
      Wifi!CancelTimer, Wifi!ClearTimer
  <2>2. WifiLink' /\ IsFiniteSet(running')
    BY <1>2, WifiEvents, WifiStarts, WifiStores, WifiTests, WifiCancels, WifiClears
      DEF Wifi!Link, WifiInv
  <2> QED BY <1>1, <2>1, <2>2 DEF WifiInv
<1>3. ASSUME NEW state \in {"searching", "connecting"}, Wifi!WpsProgress(state) PROVE WifiInv'
  BY <1>0, <1>3 DEF Wifi!WpsProgress, WifiInv, Wifi!ProgressIsActive
<1>4. ASSUME NEW state \in {"success", "no_routers", "failed", "idle"}, Wifi!WpsEnd(state)
      PROVE  WifiInv'
  BY <1>0, <1>4 DEF Wifi!WpsEnd, WifiInv, Wifi!ProgressIsActive
<1>5. CASE Wifi!CancelWpsSession \/ Wifi!CancelShown \/ Wifi!Ok
  BY <1>0, <1>5 DEF Wifi!CancelWpsSession, Wifi!CancelShown, Wifi!Ok, WifiInv,
    Wifi!ProgressIsActive
<1>6. CASE UNCHANGED Wifi!vars
  BY <1>0, <1>1, <1>6 DEF Wifi!vars, WifiInv
<1> QED BY <1>2, <1>3, <1>4, <1>5, <1>6 DEF Wifi!Next

LEMMA WifiTypes ==
  ASSUME MaxTimers \in Nat, Wifi!TypeOK, [Wifi!Next]_(Wifi!vars)
  PROVE  Wifi!TypeOK'
<1> DEFINE LinkPlaces == {"idle", "look", "done", "start", "store", "test", "cancel", "clear"}
           Linked == /\ {g_wifi_connected, up} \subseteq BOOLEAN
                     /\ made \in 0..MaxTimers
                     /\ wifi_signal_strength_timer \in 0..made
                     /\ running \subseteq 1..made
                     /\ link_pc \in [Wifi!Threads -> LinkPlaces]
                     /\ new_timer \in [Wifi!Threads -> 0..made]
                     /\ reconnects \in Nat /\ meeting \in {"clean", "crossed", "recovered"}
           Session == /\ {g_ui_wps_session_active, canceling} \subseteq BOOLEAN
                      /\ wps_row \in {"idle", "searching", "connecting", "success", "no_routers",
                                  "failed", "cancelled"}
<1>0. Wifi!TypeOK <=> Linked /\ Session
  BY DEF Wifi!TypeOK
<1>1. Linked' /\ Session' => Wifi!TypeOK'
  BY DEF Wifi!TypeOK
<1>2. ASSUME UNCHANGED Wifi!link PROVE Linked'
  BY <1>0, <1>2 DEF Wifi!link, Wifi!history
<1>3. ASSUME UNCHANGED Wifi!wps PROVE Session'
  BY <1>0, <1>3 DEF Wifi!wps
<1>4. ASSUME NEW t \in Wifi!Threads, NEW place \in LinkPlaces, Wifi!Goto(t, place)
      PROVE  link_pc' \in [Wifi!Threads -> LinkPlaces]
  BY <1>0, <1>4 DEF Wifi!Goto
<1>5. ASSUME NEW t \in Wifi!Threads, NEW what \in Wifi!LinkEvents, Wifi!LinkEvent(t, what)
      PROVE  Linked'
  <2> DEFINE place == CASE what = "connected" -> "start"
                        [] what = "connecting" -> Wifi!Rested(t)
                        [] OTHER -> "test"
  <2>1. place \in LinkPlaces
    BY DEF Wifi!Rested
  <2>2. link_pc' \in [Wifi!Threads -> LinkPlaces]
    <3>1. Wifi!Goto(t, place)
      BY <1>5 DEF Wifi!LinkEvent
    <3> HIDE DEF place
    <3> QED BY <1>4, <2>1, <3>1
  <2>3. Wifi!Meet(t, what) /\ g_wifi_connected' = (what = "connected")
    BY <1>5 DEF Wifi!LinkEvent
  <2>4. up' \in BOOLEAN /\ g_wifi_connected' \in BOOLEAN
    BY <1>0, <2>3 DEF Wifi!Meet
  <2>5. reconnects' \in Nat /\ meeting' \in {"clean", "crossed", "recovered"}
    BY <1>0, <2>3 DEF Wifi!Meet
  <2>6. UNCHANGED <<wifi_signal_strength_timer, running, made, new_timer>>
    BY <1>5 DEF Wifi!LinkEvent
  <2> QED BY <1>0, <2>2, <2>4, <2>5, <2>6
<1>6. ASSUME NEW t \in Wifi!Threads, Wifi!StartTimer(t) PROVE Linked'
  <2>1. link_pc' \in [Wifi!Threads -> LinkPlaces]
    BY <1>4, <1>6 DEF Wifi!StartTimer
  <2>2. made \in Nat /\ made' = made + 1 /\ made < MaxTimers
    BY <1>0, <1>6 DEF Wifi!StartTimer
  <2>3. made' \in 0..MaxTimers /\ made' \in 0..made' /\ 0..made \subseteq 0..made'
        /\ 1..made \subseteq 1..made' /\ made' \in 1..made'
    BY <2>2
  <2>4. new_timer' \in [Wifi!Threads -> 0..made']
    BY <1>0, <1>6, <2>2, <2>3 DEF Wifi!StartTimer
  <2>5. running' \subseteq 1..made'
    BY <1>0, <1>6, <2>2, <2>3 DEF Wifi!StartTimer
  <2>6. UNCHANGED <<g_wifi_connected, wifi_signal_strength_timer, up, reconnects, meeting>>
    BY <1>6 DEF Wifi!StartTimer, Wifi!history
  <2> QED BY <1>0, <2>1, <2>3, <2>4, <2>5, <2>6
<1>7. ASSUME NEW t \in Wifi!Threads, Wifi!StoreTimer(t) \/ Wifi!ClearTimer(t) PROVE Linked'
  <2>1. link_pc' \in [Wifi!Threads -> LinkPlaces]
    BY <1>4, <1>7 DEF Wifi!StoreTimer, Wifi!ClearTimer, Wifi!Rested
  <2>2. wifi_signal_strength_timer' \in 0..made
    BY <1>0, <1>7 DEF Wifi!StoreTimer, Wifi!ClearTimer
  <2>3. UNCHANGED <<g_wifi_connected, running, made, new_timer, up, reconnects, meeting>>
    BY <1>7 DEF Wifi!StoreTimer, Wifi!ClearTimer, Wifi!history
  <2> QED BY <1>0, <2>1, <2>2, <2>3
<1>8. ASSUME NEW t \in Wifi!Threads, Wifi!TestTimer(t) \/ Wifi!CancelTimer(t) PROVE Linked'
  <2>1. link_pc' \in [Wifi!Threads -> LinkPlaces]
    BY <1>4, <1>8 DEF Wifi!TestTimer, Wifi!CancelTimer, Wifi!Rested
  <2>2. running' \subseteq running
    BY <1>8 DEF Wifi!TestTimer, Wifi!CancelTimer
  <2>3. UNCHANGED <<g_wifi_connected, wifi_signal_strength_timer, made, new_timer>>
    BY <1>8 DEF Wifi!TestTimer, Wifi!CancelTimer
  <2>4. UNCHANGED <<up, reconnects, meeting>>
    BY <1>8 DEF Wifi!TestTimer, Wifi!CancelTimer, Wifi!history
  <2> QED BY <1>0, <2>1, <2>2, <2>3, <2>4
<1>9. CASE Wifi!Link
  <2>1. UNCHANGED Wifi!wps
    BY <1>9 DEF Wifi!Link, Wifi!LinkEvent, Wifi!StartTimer, Wifi!StoreTimer, Wifi!TestTimer,
      Wifi!CancelTimer, Wifi!ClearTimer
  <2>2. Linked'
    BY <1>5, <1>6, <1>7, <1>8, <1>9 DEF Wifi!Link
  <2> QED BY <1>1, <1>3, <2>1, <2>2
<1>10. ASSUME NEW state \in {"searching", "connecting"}, Wifi!WpsProgress(state)
       PROVE  Wifi!TypeOK'
  BY <1>0, <1>1, <1>2, <1>10 DEF Wifi!WpsProgress
<1>11. ASSUME NEW state \in {"success", "no_routers", "failed", "idle"}, Wifi!WpsEnd(state)
       PROVE  Wifi!TypeOK'
  BY <1>0, <1>1, <1>2, <1>11 DEF Wifi!WpsEnd
<1>12. CASE Wifi!CancelWpsSession \/ Wifi!CancelShown \/ Wifi!Ok
  BY <1>0, <1>1, <1>2, <1>12 DEF Wifi!CancelWpsSession, Wifi!CancelShown, Wifi!Ok
<1>13. CASE UNCHANGED Wifi!vars
  BY <1>1, <1>2, <1>3, <1>13 DEF Wifi!vars
<1> QED BY <1>9, <1>10, <1>11, <1>12, <1>13 DEF Wifi!Next

LEMMA WifiInvariant == Wifi!Spec => [](Wifi!TypeOK /\ WifiInv)
<1>1. Wifi!Init => Wifi!TypeOK /\ WifiInv
  <2> SUFFICES ASSUME Wifi!Init PROVE Wifi!TypeOK /\ WifiInv
    OBVIOUS
  <2>1. made \in 0..MaxTimers /\ wifi_signal_strength_timer \in 0..made /\ running \subseteq 1..made
    BY ComponentAssumption DEF ComponentAssumption, Wifi!Init
  <2>2. {g_wifi_connected, up, g_ui_wps_session_active, canceling} \subseteq BOOLEAN
    BY DEF Wifi!Init
  <2>3. /\ new_timer \in [Wifi!Threads -> 0..made] /\ reconnects = 0
        /\ link_pc \in [Wifi!Threads -> {"idle", "look"}] /\ meeting = "clean"
        /\ wps_row = "idle" /\ running = {} /\ wifi_signal_strength_timer = 0
        /\ ~up /\ ~g_wifi_connected
    BY <2>1 DEF Wifi!Init
  <2>4. Wifi!TypeOK
    BY <2>1, <2>2, <2>3 DEF Wifi!TypeOK
  <2>5. IsFiniteSet(running) /\ Cardinality(running) = 0
    BY <2>3, FS_EmptySet
  <2>6. \A t \in Wifi!Threads : OthersRest(t) /\ Place(t) /\ Counted(t)
    BY <2>3, <2>5 DEF OthersRest, Place, Counted, Handled, Wifi!Rests
  <2>7. WifiLink
    BY <2>6 DEF WifiLink, Wifi!Threads
  <2> QED BY <2>3, <2>4, <2>5, <2>7 DEF WifiInv, Wifi!ProgressIsActive
<1>2. Wifi!TypeOK /\ WifiInv /\ [Wifi!Next]_(Wifi!vars) => Wifi!TypeOK' /\ WifiInv'
  BY WifiTypes, WifiSteps, ComponentAssumption DEF ComponentAssumption
<1> QED BY <1>1, <1>2, PTL DEF Wifi!Spec

\* Beside the other components this one behaves as it does alone.
LEMMA WifiSlice == Spec => Wifi!Spec
<1>1. Init => Wifi!Init
  BY DEF Init
<1>2. [Next]_vars => [Wifi!Next]_(Wifi!vars)
  BY DEF Next, vars, deviceVars, settingVars, wifiVars, Wifi!vars, Wifi!link, Wifi!wps,
    Wifi!history, PrintStep, ScanStep, WirelessStep, BlockStep, NetworkStep, PowerStep,
    StartStep, IpStep, ModeStep
<1> QED BY <1>1, <1>2, PTL DEF Spec, Wifi!Spec

\* Between events the handle of the signal-strength timer is NULL or that of a running
\* timer, and not NULL while the link is up, in whatever order the events come and the
\* init thread looks at the link, until the two have met and again from the next end of
\* the link on; and unless they have met the timers without a handle are as many as the
\* connections reported while the link was up (81-110, 292-332).
THEOREM TimerHandleIsLive == Spec => []HandleIsLive
<1>1. Wifi!TypeOK /\ WifiInv => Wifi!HandleIsLive
  <2> SUFFICES ASSUME Wifi!TypeOK, WifiInv, \A t \in Wifi!Threads : Wifi!Rests(t)
               PROVE  /\ meeting # "crossed" =>
                           /\ wifi_signal_strength_timer # 0 =>
                                wifi_signal_strength_timer \in running
                           /\ g_wifi_connected => wifi_signal_strength_timer # 0
                      /\ meeting = "clean" =>
                           Cardinality(running \ {wifi_signal_strength_timer}) = reconnects
    BY SameCardinality DEF Wifi!HandleIsLive
  <2> SUFFICES ASSUME meeting # "crossed"
               PROVE  /\ wifi_signal_strength_timer # 0 => wifi_signal_strength_timer \in running
                      /\ g_wifi_connected => wifi_signal_strength_timer # 0
                      /\ meeting = "clean" =>
                           Cardinality(running \ {wifi_signal_strength_timer}) = reconnects
    OBVIOUS
  <2>1. PICK t \in Wifi!Threads : Place(t) /\ (meeting = "clean" => Counted(t))
    BY DEF WifiInv, WifiLink
  <2>2. link_pc[t] \in {"idle", "look", "done"}
    BY DEF Wifi!Rests
  <2>3. /\ wifi_signal_strength_timer # 0 => wifi_signal_strength_timer \in running
        /\ g_wifi_connected => wifi_signal_strength_timer # 0
    BY <2>1, <2>2 DEF Place, Wifi!Rests
  <2>4. ASSUME meeting = "clean"
        PROVE  Cardinality(running \ {wifi_signal_strength_timer}) = reconnects
    <3>1. Cardinality(running) =
            reconnects + (IF wifi_signal_strength_timer # 0 THEN 1 ELSE 0)
      BY <2>1, <2>2, <2>4 DEF Counted, Handled
    <3>2. IsFiniteSet(running) /\ Cardinality(running) \in Nat /\ reconnects \in Nat
      BY FS_CardinalityType DEF WifiInv, Wifi!TypeOK
    <3>3. CASE wifi_signal_strength_timer = 0
      <4>1. running \ {wifi_signal_strength_timer} = running
        BY <3>3 DEF Wifi!TypeOK
      <4> QED BY <3>1, <3>2, <3>3, <4>1
    <3>4. CASE wifi_signal_strength_timer # 0
      <4>1. Cardinality(running \ {wifi_signal_strength_timer}) = Cardinality(running) - 1
        BY <2>3, <3>2, <3>4, FS_RemoveElement
      <4> QED BY <3>1, <3>2, <3>4, <4>1
    <3> QED BY <3>3, <3>4
  <2> QED BY <2>3, <2>4
<1> QED BY <1>1, WifiInvariant, WifiSlice, PTL DEF HandleIsLive

\* No end of a WPS session leaves "searching" or "connecting" on its row (170-240).
THEOREM WpsProgressIsTrue == Spec => []ProgressIsActive
<1>1. WifiInv => Wifi!ProgressIsActive
  BY DEF WifiInv
<1> QED BY <1>1, WifiInvariant, WifiSlice, PTL DEF ProgressIsActive
-----------------------------------------------------------------------------
(* Data blocks.                                                             *)

\* What a field takes at most, and the largest capacity.
FieldRoom == 10000020
LargestCapacity == 1073741824

\* As long as no text is absurdly long the capacity can be doubled far enough.
BlockInv ==
  /\ Block!TypeOK /\ Block!TextFits /\ Block!BytesAgree
  /\ cur_buffer_size <= 1 + FieldRoom * num_fields

\* The room computed for a field is the room sprintf takes.
LEMMA FieldLength ==
  ASSUME NEW index \in 1..99, NEW length \in Nat
  PROVE  /\ Block!BytesNeeded(index, length) = Block!BytesUsed(index, length)
         /\ Block!BytesUsed(index, length) \in Nat
         /\ Block!BytesUsed(index, length) <= length + 20
BY DEF Block!BytesNeeded, Block!BytesUsed, Block!Digits

LEMMA CapacitiesAreNumbers ==
  32 \in Block!Capacities /\ \A c \in Block!Capacities : c \in Nat /\ c >= 32
BY SMT DEF Block!Capacities

LEMMA CapacityBetween ==
  ASSUME NEW size \in Nat, size >= 32, size <= LargestCapacity
  PROVE  \E c \in Block!Capacities : size <= c /\ c < 2 * size
BY SMT DEF Block!Capacities, LargestCapacity

\* Doubling a capacity finds one that is large enough.
LEMMA DoubledSuffices ==
  ASSUME NEW capacity \in Block!Capacities, NEW size \in Nat, size <= LargestCapacity
  PROVE  /\ Block!Doubled(capacity, size) \in Block!Capacities
         /\ size <= Block!Doubled(capacity, size)
<1>1. CASE size <= capacity
  BY <1>1 DEF Block!Doubled
<1>2. CASE size > capacity
  <2>1. size >= 32
    BY <1>2, CapacitiesAreNumbers, SMT
  <2>2. \E c \in Block!Capacities : size <= c /\ c < 2 * size
    BY <2>1, CapacityBetween
  <2> DEFINE d == CHOOSE c \in Block!Capacities : size <= c /\ c < 2 * size
  <2>3. d \in Block!Capacities /\ size <= d
    BY <2>2
  <2>4. ~(size <= capacity)
    BY <1>2, CapacitiesAreNumbers
  <2>5. Block!Doubled(capacity, size) = d
    BY <2>4 DEF Block!Doubled
  <2> QED BY <2>3, <2>5
<1> QED BY <1>1, <1>2, CapacitiesAreNumbers

LEMMA BlockAdds ==
  ASSUME BlockInv, NEW length \in Nat, length <= Block!LongestText, Block!AddField(length)
  PROVE  BlockInv'
<1> DEFINE index == num_fields + 1
           size == cur_buffer_size + Block!BytesNeeded(index, length)
           used == Block!BytesUsed(index, length)
<1>1. /\ num_fields \in 0..99 /\ text \in Nat /\ cur_buffer_size \in Nat
      /\ cur_buffer_capacity \in Block!Capacities /\ ~failed
      /\ text + 1 = cur_buffer_size /\ cur_buffer_size <= cur_buffer_capacity
      /\ cur_buffer_size <= 1 + FieldRoom * num_fields
  BY DEF BlockInv, Block!TypeOK, Block!TextFits, Block!AddField
<1>2. CASE index >= 100
  <2>1. failed' = TRUE /\ UNCHANGED <<num_fields, cur_buffer_capacity, cur_buffer_size, text>>
    BY <1>2 DEF Block!AddField
  <2>2. num_fields = 99
    BY <1>1, <1>2
  <2> QED BY <1>1, <2>1, <2>2 DEF BlockInv, Block!TypeOK, Block!TextFits, Block!BytesAgree
<1>3. CASE ~(index >= 100)
  <2>1. /\ size = cur_buffer_size + used /\ used \in Nat /\ used <= FieldRoom
        /\ index \in 1..99 /\ Block!BytesNeeded(index, length) = used
    <3>1. index \in 1..99 /\ length \in Nat /\ length <= Block!LongestText
      BY <1>1, <1>3, SMT DEF Block!LongestText
    <3> HIDE DEF index
    <3>2. /\ Block!BytesNeeded(index, length) = used /\ used \in Nat /\ used <= length + 20
      BY <3>1, FieldLength
    <3>3. used <= FieldRoom
      <4> HIDE DEF used
      <4> QED BY <3>1, <3>2, SMT DEF FieldRoom, Block!LongestText
    <3> QED BY <3>1, <3>2, <3>3
  <2>2. /\ cur_buffer_capacity' \in {Block!Doubled(cur_buffer_capacity, size),
                                     cur_buffer_capacity}
        /\ IF size <= cur_buffer_capacity' THEN Block!Write(index, length)
           ELSE UNCHANGED <<num_fields, cur_buffer_size, text, failed>>
    BY <1>3 DEF Block!AddField
  <2>3. index = num_fields + 1
    OBVIOUS
  <2> HIDE DEF index, size, used
  <2>4. size \in Nat /\ size <= LargestCapacity
    BY <1>1, <2>1, <2>3, SMT DEF FieldRoom, Block!LongestText, LargestCapacity
  <2>5. /\ cur_buffer_capacity' \in Block!Capacities
        /\ cur_buffer_size <= cur_buffer_capacity'
    <3>1. CASE cur_buffer_capacity' = cur_buffer_capacity
      BY <1>1, <3>1
    <3>2. CASE cur_buffer_capacity' = Block!Doubled(cur_buffer_capacity, size)
      <4>1. cur_buffer_capacity' \in Block!Capacities /\ size <= cur_buffer_capacity'
        BY <1>1, <2>4, <3>2, DoubledSuffices
      <4> QED BY <1>1, <2>1, <4>1, CapacitiesAreNumbers
    <3> QED BY <2>2, <3>1, <3>2
  <2>6. CASE size <= cur_buffer_capacity'
    <3>1. /\ text' = text + used /\ cur_buffer_size' = cur_buffer_size + used
          /\ num_fields' = index
          /\ failed' = (used # used \/ cur_buffer_size' > cur_buffer_capacity')
      BY <2>1, <2>2, <2>6 DEF Block!Write, index, used
    <3>2. cur_buffer_size' <= cur_buffer_capacity'
      BY <2>1, <2>6, <3>1
    <3>3. ~failed'
      <4>1. ~(cur_buffer_size' > cur_buffer_capacity')
        BY <1>1, <2>1, <2>5, <3>1, <3>2, CapacitiesAreNumbers, SMT
      <4> QED BY <3>1, <4>1
    <3>4. /\ text' \in Nat /\ cur_buffer_size' \in Nat /\ text' + 1 = cur_buffer_size'
          /\ cur_buffer_size' <= 1 + FieldRoom * num_fields' /\ num_fields' \in 0..99
      BY <1>1, <2>1, <2>3, <3>1, SMT DEF FieldRoom, Block!LongestText
    <3>5. failed' \in BOOLEAN
      BY <3>3, <3>1
    <3> QED
      BY <2>5, <3>2, <3>3, <3>4, <3>5 DEF BlockInv, Block!TypeOK, Block!TextFits, Block!BytesAgree
  <2>7. CASE ~(size <= cur_buffer_capacity')
    <3>1. UNCHANGED <<num_fields, cur_buffer_size, text, failed>>
      BY <2>2, <2>7
    <3> QED
      BY <1>1, <2>5, <3>1 DEF BlockInv, Block!TypeOK, Block!TextFits, Block!BytesAgree
  <2> QED BY <2>6, <2>7
<1> QED BY <1>2, <1>3

LEMMA BlockInvariant == Block!Spec => []BlockInv
<1>1. Block!Init => BlockInv
  <2> SUFFICES ASSUME Block!Init PROVE BlockInv
    OBVIOUS
  <2>1. /\ num_fields = 0 /\ cur_buffer_capacity = 32 /\ cur_buffer_size = 1 /\ text = 0
        /\ failed = FALSE
    BY DEF Block!Init
  <2>2. cur_buffer_size <= 1 + FieldRoom * num_fields /\ text + 1 = cur_buffer_size
    BY <2>1, SMT DEF FieldRoom
  <2>3. num_fields \in 0..99 /\ text \in Nat /\ cur_buffer_size \in Nat
    BY <2>1, SMT
  <2>4. Block!TypeOK /\ Block!BytesAgree
    BY <2>1, <2>3, CapacitiesAreNumbers DEF Block!TypeOK, Block!BytesAgree
  <2>5. cur_buffer_size <= cur_buffer_capacity
    BY <2>1, SMT
  <2> QED BY <2>2, <2>4, <2>5 DEF BlockInv, Block!TextFits
<1>2. BlockInv /\ [Block!Next]_(Block!vars) => BlockInv'
  <2> SUFFICES ASSUME BlockInv, [Block!Next]_(Block!vars) PROVE BlockInv'
    OBVIOUS
  <2>1. ASSUME NEW length \in Numbers, Block!AddInt(length) PROVE BlockInv'
    <3>1. length \in Nat /\ length <= Block!LongestText
      BY ComponentAssumption, SMT DEF ComponentAssumption, Block!LongestText
    <3> QED BY <2>1, <3>1, BlockAdds DEF Block!AddInt
  <2>2. ASSUME NEW s \in Strings, Block!AddString(s) PROVE BlockInv'
    BY <2>2, BlockAdds, ComponentAssumption DEF ComponentAssumption, Block!AddString
  <2>3. CASE UNCHANGED Block!vars
    BY <2>3 DEF Block!vars, BlockInv, Block!TypeOK, Block!TextFits, Block!BytesAgree
  <2> QED BY <2>1, <2>2, <2>3 DEF Block!Next
<1> QED BY <1>1, <1>2, PTL DEF Block!Spec

\* Beside the other components this one behaves as it does alone.
LEMMA BlockSlice == Spec => Block!Spec
<1>1. Init => Block!Init
  BY DEF Init
<1>2. [Next]_vars => [Block!Next]_(Block!vars)
  BY DEF Next, vars, deviceVars, settingVars, blockVars, Block!vars,
    PrintStep, ScanStep, WirelessStep, BlockStep, NetworkStep, PowerStep,
    StartStep, IpStep, ModeStep
<1> QED BY <1>1, <1>2, PTL DEF Spec, Block!Spec

\* The text of a block and its zero fit the buffer, whether or not a larger buffer could
\* be had, and the size kept with the block is the text's (1350-1396).
THEOREM BufferHoldsText == Spec => []TextFits
<1>1. BlockInv => Block!TextFits
  BY DEF BlockInv
<1> QED BY <1>1, BlockInvariant, BlockSlice, PTL DEF TextFits

\* No ASSERT fails in a block of up to 99 fields, whatever their values: sprintf
\* takes the room computed for the field (1333-1347, 1389-1392).
THEOREM RoomIsExact == Spec => []BytesAgree
<1>1. BlockInv => Block!BytesAgree
  BY DEF BlockInv
<1> QED BY <1>1, BlockInvariant, BlockSlice, PTL DEF BytesAgree
-----------------------------------------------------------------------------
\* Every component keeps to its types, side by side with the others: the rows show only
\* states the status table has, the capacity of a buffer is one its doubling reaches,
\* and a call holds only labels, settings and statuses of its own table.
THEOREM ComponentsTyped == Spec => []TypeOK
<1>1. Spec => [](Printer!TypeOK /\ Scan!TypeOK /\ Wifi!TypeOK)
  BY PrintInvariant, PrintSlice, ScanInvariant, ScanSlice, WifiInvariant, WifiSlice, PTL
<1>2. BlockInv => Block!TypeOK
  BY DEF BlockInv
<1>3. OrderInv => Boot!TypeOK
  BY DEF OrderInv
<1>4. IpInv => Ip!TypeOK
  BY DEF IpInv
<1>5. Spec => [](Block!TypeOK /\ Net!TypeOK /\ Power!TypeOK)
  BY <1>2, BlockInvariant, BlockSlice, NetInvariant, NetSlice, PowerTypes, PowerSlice, PTL
<1>6. Spec => [](Boot!TypeOK /\ Ip!TypeOK /\ Modes!TypeOK)
  BY <1>3, <1>4, OrderInvariant, BootSlice, IpInvariant, IpSlice, ModeTypes, ModeSlice, PTL
<1>7. TypeOK <=> /\ Printer!TypeOK /\ Scan!TypeOK /\ Wifi!TypeOK
                 /\ Block!TypeOK /\ Net!TypeOK /\ Power!TypeOK
                 /\ Boot!TypeOK /\ Ip!TypeOK /\ Modes!TypeOK
  BY DEF TypeOK
<1> QED BY <1>1, <1>5, <1>6, <1>7, PTL
=============================================================================

SPECIFICATION FocusSpec
CONSTANTS
  DocTypes = {"page", "copy", "cal", "cleaning"}
  PrintKnown <- MCPrintKnown
  MaxOks = 2
  ScanKnown <- MCScanKnown
  MaxTimers = 3
  Links = {1, 2}
  Numbers = {11}
  Strings <- MCStrings
  MaxFields = 100
  WakeEvent = {"usb_job", "ethernet_job"}
  PowerCallers = {"ui", "other"}
  Builds <- MCBuilds
  IpCallers = {"ui", "other"}
  IpTypes = {"ethernet", "station"}
  Values = {0, 1}
INVARIANTS TypeOK RetryNeedsOk PromptIsLive ScanningIsRunning HandleIsLive ProgressIsActive TextFits BytesAgree ToldTheTruth WakeSettingsHold RegisteredFirst NothingMissed SettingsHold StopsOnlyOnRefused
PROPERTY SwitchTellsDown
CONSTRAINTS UntilExcepted FewAtOnce
CHECK_DEADLOCK FALSE

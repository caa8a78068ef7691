----------------------------- MODULE PrintPrompts -----------------------------
(***************************************************************************)
(* The print component (ui_system_interface_print.c): it turns engine and  *)
(* media-prompt events into states of the print row, and the user's answer *)
(* to a paper prompt into a call of the print engine's retry callback.     *)
(* Prompt, answer and "no media" event come in any order, on two threads;  *)
(* two flags are to pair them.                                             *)
(***************************************************************************)
EXTENDS Integers

CONSTANTS
  DocTypes, \* the documents of jobs: "page", "copy" or "fax", "cal", "cleaning"
  Known,    \* the print states the status table has an entry for
  MaxOks    \* bound: OKs the user presses during one job

VARIABLES
  user_input,                 \* whether the retry callback is set
  user_cancel,                \* whether the cancel callback is
  paper_out_event_occurred,
  paper_out_user_ok_received,
  row,      \* the state of the print row
  job,      \* the document of the job that started last
  oks,      \* OKs the user has pressed since
  retries,  \* calls of the retry callback since
  answered, \* the row's prompt has been answered, or came up during an answer
  feedback, \* print_process_user_feedback: "none", "ok" recorded, or answer "passed on"
  crashed   \* a NULL retry callback was called

flags == <<paper_out_event_occurred, paper_out_user_ok_received>>
vars == <<user_input, user_cancel, flags, row, job, oks, retries, answered, feedback, crashed>>

Init ==
  /\ user_input = FALSE /\ user_cancel = FALSE
  /\ paper_out_event_occurred = FALSE
  /\ paper_out_user_ok_received = FALSE
  /\ row = "idle"
  /\ job = "none"
  /\ oks = 0 /\ retries = 0
  /\ answered = TRUE
  /\ feedback = "none"
  /\ crashed = FALSE

Prompts == {"paper_out", "paper_out_all", "manual_duplex"}
CopyOrFax(doc) == doc \in {"copy", "fax"}

\* ui_sys_notify_ui_of_status: a state without an entry in the table is ignored.
Notify(state) ==
  /\ row' = IF state \in Known THEN state ELSE row
  /\ answered' = IF state \in Known THEN state \notin Prompts \/ feedback # "none"
                  ELSE answered

Retry ==
  /\ retries' = IF user_input THEN retries + 1 ELSE retries
  /\ crashed' = ~user_input
-----------------------------------------------------------------------------
(* print_process_user_feedback, on the thread of the UI.                    *)

\* Cancel: the job is cancelled first, the flag is lowered then.
Cancel ==
  /\ feedback = "none"
  /\ user_cancel
  /\ answered' = TRUE
  /\ feedback' = "passed on"
  /\ UNCHANGED <<user_input, user_cancel, flags, row, job, oks, retries, crashed>>

\* OK, with a retry callback to call: it is recorded ...
Ok ==
  /\ feedback = "none"
  /\ user_input
  /\ oks < MaxOks
  /\ oks' = oks + 1
  /\ answered' = TRUE
  /\ paper_out_user_ok_received' = TRUE
  /\ feedback' = "ok"
  /\ UNCHANGED <<user_input, user_cancel, paper_out_event_occurred, row, job, retries, crashed>>

\* ... and passed on if the paper is known to be out.
OkPassedOn ==
  /\ feedback = "ok"
  /\ IF paper_out_event_occurred THEN Retry /\ feedback' = "passed on"
     ELSE UNCHANGED <<retries, crashed>> /\ feedback' = "none"
  /\ UNCHANGED <<user_input, user_cancel, flags, row, job, oks, answered>>

\* The prompt is over once the answer has been passed on.
PromptOver ==
  /\ feedback = "passed on"
  /\ feedback' = "none"
  /\ paper_out_event_occurred' = FALSE
  /\ UNCHANGED <<user_input, user_cancel, paper_out_user_ok_received, row, job, oks, retries,
                 answered, crashed>>
-----------------------------------------------------------------------------
(* print_media_event_cb and print_event_cb with handle_print_event.  Every  *)
(* event brings its callbacks.                                              *)

\* Mutant: the prompt does not raise paper_out_event_occurred.
MediaPromptOnly ==
  /\ user_input' \in BOOLEAN /\ user_cancel' \in BOOLEAN
  /\ Notify("paper_out")
  /\ UNCHANGED <<flags, job, oks, retries, feedback, crashed>>

MediaPrompt ==
  /\ user_input' \in BOOLEAN /\ user_cancel' \in BOOLEAN
  /\ paper_out_event_occurred' = TRUE
  /\ Notify("paper_out")
  /\ UNCHANGED <<paper_out_user_ok_received, job, oks, retries, feedback, crashed>>

\* Mutant: the flags of the job before are kept.
KeepPaperOutFlags == UNCHANGED flags
ResetPaperOutFlags == paper_out_event_occurred' = FALSE /\ paper_out_user_ok_received' = FALSE

\* STATUS_INFO_PRINTING and STATUS_JOBINFO_START_JOB.  An OK that is being
\* handled counts for the job that starts.
StartJob(doc) ==
  /\ ResetPaperOutFlags
  /\ Notify(CASE CopyOrFax(doc) -> "idle" [] doc = "cal" -> "calibrating"
              [] doc = "cleaning" -> "cleaning" [] OTHER -> "printing")
  /\ job' = doc /\ oks' = (IF feedback = "ok" THEN 1 ELSE 0) /\ retries' = 0
  /\ UNCHANGED <<feedback, crashed>>

\* STATUS_INFO_CANCELING
Canceling(doc) ==
  /\ Notify(IF CopyOrFax(doc) THEN "idle" ELSE "canceling")
  /\ UNCHANGED <<flags, job, oks, retries, feedback, crashed>>

\* The states that only change the row: jams, doors, initializing, online, ...
Engine(state) ==
  /\ Notify(state)
  /\ UNCHANGED <<flags, job, oks, retries, feedback, crashed>>

EngineStates == {"initializing", "idle", "door_open", "rear_door_open", "paper_jam",
                 "paper_jam_output", "engine_cooldown"}

\* STATUS_PAPER_OUT_ALL: a prompt, unless one is up or was answered.
PaperOutAll ==
  /\ IF paper_out_user_ok_received \/ paper_out_event_occurred
       THEN UNCHANGED <<paper_out_event_occurred, row, answered>>
       ELSE paper_out_event_occurred' = TRUE /\ Notify("paper_out_all")
  /\ UNCHANGED <<paper_out_user_ok_received, job, oks, retries, feedback, crashed>>

\* STATUS_INPUT_LOAD_TRAY_1_NO_MEDIA_AVAILABLE: an OK that came before is passed
\* on, to the callback this event has just brought.
NoMediaAvailable(callback) ==
  /\ paper_out_event_occurred' = TRUE
  /\ IF paper_out_user_ok_received
       THEN /\ retries' = IF callback THEN retries + 1 ELSE retries
            /\ crashed' = ~callback
            /\ paper_out_user_ok_received' = FALSE
       ELSE UNCHANGED <<retries, crashed, paper_out_user_ok_received>>
  /\ UNCHANGED <<row, job, oks, answered, feedback>>

\* STATUS_INPUT_MANUAL_DUPLEX_TRAY_1
ManualDuplex ==
  /\ paper_out_event_occurred' = TRUE
  /\ Notify("manual_duplex")
  /\ UNCHANGED <<paper_out_user_ok_received, job, oks, retries, feedback, crashed>>

\* print_event_cb takes the event's callbacks and handles its status.
PrintEvent ==
  /\ user_input' \in BOOLEAN /\ user_cancel' \in BOOLEAN
  /\ \/ \E doc \in DocTypes : StartJob(doc) \/ Canceling(doc)
     \/ \E state \in EngineStates : Engine(state)
     \/ PaperOutAll
     \/ NoMediaAvailable(user_input')
     \/ ManualDuplex
-----------------------------------------------------------------------------
Next == ~crashed /\ (Cancel \/ Ok \/ OkPassedOn \/ PromptOver \/ MediaPrompt \/ PrintEvent)
Spec == Init /\ [][Next]_vars
-----------------------------------------------------------------------------
TypeOK ==
  /\ {user_input, user_cancel, paper_out_event_occurred, paper_out_user_ok_received, answered,
      crashed} \subseteq BOOLEAN
  /\ row \in Known
  /\ job \in DocTypes \cup {"none"}
  /\ oks \in 0..MaxOks /\ retries \in Nat
  /\ feedback \in {"none", "ok", "passed on"}

\* The engine tries again only for a user who has pressed OK during this very job:
\* an OK of the job before does not answer this job's prompt (167-169).
RetryNeedsOk == retries > 0 => oks > 0

\* A paper prompt on the row can be answered: while it is up and the user has not
\* answered it, an OK will be passed on at once, whatever other events came.  The
\* exceptions: a calibration page is not shown and leaves the prompt of the job
\* before (177-179), and a prompt that comes up while the answer to an earlier one is
\* being passed on loses its flag to that answer (111-115).
PromptIsLive ==
  row \in Prompts /\ ~answered /\ job # "cal" => paper_out_event_occurred

\* "If the paper_out_event has already occurred then it is ok to send the
\* user_input.  Otherwise the paper_out_user_ok is set": an OK is passed on once,
\* now or later (105-109).
OneRetryPerOk == retries <= oks
=============================================================================

-------------------------- MODULE StatusSerialProofs --------------------------
(***************************************************************************)
(* What the status manager promises the UI when calls take turns: for      *)
(* every table, every set of modules and every number of threads.  The     *)
(* inductive invariant follows the one running call through its labels:    *)
(* what it knows of the worst row, and how far the overall message, the    *)
(* static prev_worst_entry and the table agree meanwhile.                  *)
(***************************************************************************)
EXTENDS StatusManagerProofs

Busy(labels) == \E t \in Threads : pc[t] \in labels
Notifying == {"scan", "publish", "load", "compare", "commit"}

EntryOfModule ==
  \A i \in Rows : entry[i] # NoEntry => DispStatusMessage[entry[i]].module = Module(i)

\* Before the first row has an entry a call can only fail, or send feedback to nobody; a
\* rebroadcast does not get past the NULL entry.
Early == {"idle", "update", "route", "gather", "ASSERT", "NULL"}
EarlyCalls ==
  entry[1] = NoEntry =>
    \A t \in Threads : /\ pc[t] \in Early
                       /\ pc[t] = "gather" => "state" \in msg[t].todo

\* A callback on its way finds the state whose timer ran out.
ExpiredIsTransitory ==
  \A t \in TimerThreads, i \in Rows :
    Resetting(t, i) => IsTransitory(entry[i]) /\ timer[i] = "expired"

\* worst_index is the worst row's except between an update and the publishing of
\* the scan that follows it.
WorstKnown ==
  /\ entry[1] # NoEntry /\ ~Busy({"scan", "publish"}) => IsWorst(worst_index)
  /\ \A t \in Threads : pc[t] \in {"publish", "route"} => IsWorst(index[t])
  /\ \A t \in Threads : pc[t] \in {"compare", "commit"} => worst_entry[t] = entry[worst_index]

PrevIsWorst ==
  entry[1] # NoEntry /\ ~Busy(Notifying) => prev_worst_entry = entry[worst_index]

\* The overall message shows prev_worst_entry; it has the data of that status, or
\* that was reported without data since, or the running call brings new data.
NewData(i) ==
  \E t \in Threads : /\ pc[t] \in Notifying
                     /\ Module(i) = req[t].module
                     /\ req[t].data # NoBlock

OverallIsPrev ==
  ~Busy({"gather", "post", "NULL"}) =>
    /\ overall.state = prev_worst_entry
    /\ prev_worst_entry # NoEntry => Consistent(overall)
    /\ \A i \in Rows : entry[i] # NoEntry /\ entry[i] = prev_worst_entry =>
         data[i] \in {overall.data, NoBlock} \/ NewData(i)

\* What is evaluated of the message is that of the worst row.
Gathered ==
  \A t \in Threads : pc[t] \in {"gather", "post"} =>
    /\ "module" \notin msg[t].todo => msg[t].module = Module(worst_index)
    /\ "state" \notin msg[t].todo => msg[t].state = entry[worst_index]
    /\ "type" \notin msg[t].todo => msg[t].type = DispStatusMessage[entry[worst_index]].type
    /\ "data" \notin msg[t].todo => msg[t].data = data[worst_index]
    /\ pc[t] = "post" => msg[t].todo = {}

SerialInv ==
  /\ OneAtATime /\ EntryOfModule /\ ExpiredIsTransitory /\ EarlyCalls
  /\ WorstKnown /\ PrevIsWorst /\ OverallIsPrev /\ Gathered
-----------------------------------------------------------------------------
(* The shape of a step when calls take turns.                               *)

\* The invariants of any interleaving that the proofs below rest on.
Base == TypeOK /\ WorstLoaded /\ DataOwnedOnce /\ TimerInv /\ EntryInv

LEMMA BaseTypes ==
  ASSUME TypeOK
  PROVE  /\ entry \in [Rows -> Entries \cup {NoEntry}] /\ data \in [Rows -> Handles]
         /\ worst_index \in Rows /\ prev_worst_entry \in Entries \cup {NoEntry}
         /\ \A t \in Threads : /\ index[t] \in Rows
                               /\ worst_entry[t] \in Entries \cup {NoEntry}
                               /\ req[t].data \in Handles
         /\ pc \in [Threads -> {"idle", "update", "scan", "publish", "load", "compare",
                                "commit", "gather", "post", "route", "ASSERT", "NULL"}]
         /\ DOMAIN req = Threads /\ DOMAIN index = Threads
         /\ DOMAIN worst_entry = Threads /\ DOMAIN msg = Threads
         /\ 1 \in Rows /\ NoEntry \notin Entries
BY EntryType, RowType DEF TypeOK

\* The thread that moves is the only one that is not idle, before and after.
LEMMA Alone ==
  ASSUME TypeOK, OneAtATime, OneAtATime', NEW t \in Threads, NEW b,
         pc[t] # "idle" \/ b # "idle",
         pc' = [pc EXCEPT ![t] = b]
  PROVE  /\ pc'[t] = b
         /\ \A w \in Threads \ {t} : pc[w] = "idle" /\ pc'[w] = "idle"
         /\ \A L : "idle" \notin L => (Busy(L) <=> pc[t] \in L)
<1>1. pc'[t] = b /\ \A w \in Threads \ {t} : pc'[w] = pc[w]
  BY DEF TypeOK
<1>2. \A w \in Threads \ {t} : pc[w] = "idle"
  BY <1>1 DEF OneAtATime
<1> QED BY <1>1, <1>2 DEF Busy

\* The same set of labels after the step.
LEMMA AloneAfter ==
  ASSUME NEW t \in Threads, NEW b, pc'[t] = b,
         \A w \in Threads \ {t} : pc'[w] = "idle"
  PROVE  /\ Busy({"scan", "publish"})' <=> b \in {"scan", "publish"}
         /\ Busy(Notifying)' <=> b \in Notifying
         /\ Busy({"gather", "post", "NULL"})' <=> b \in {"gather", "post", "NULL"}
BY DEF Busy, Notifying

\* Both, and what the label says of the first row.
LEMMA SerialShape ==
  ASSUME TypeOK, OneAtATime, OneAtATime', EarlyCalls, NEW t \in Threads, NEW b,
         pc[t] # "idle" \/ b # "idle",
         pc' = [pc EXCEPT ![t] = b]
  PROVE  /\ pc'[t] = b /\ \A w \in Threads \ {t} : pc[w] = "idle" /\ pc'[w] = "idle"
         /\ Busy({"scan", "publish"}) <=> pc[t] \in {"scan", "publish"}
         /\ Busy(Notifying) <=> pc[t] \in Notifying
         /\ Busy({"gather", "post", "NULL"}) <=> pc[t] \in {"gather", "post", "NULL"}
         /\ Busy({"scan", "publish"})' <=> b \in {"scan", "publish"}
         /\ Busy(Notifying)' <=> b \in Notifying
         /\ Busy({"gather", "post", "NULL"})' <=> b \in {"gather", "post", "NULL"}
         /\ pc[t] \notin Early => entry[1] # NoEntry
<1>1. pc'[t] = b /\ \A w \in Threads \ {t} : pc[w] = "idle" /\ pc'[w] = "idle"
  BY Alone
<1>2. \A L : "idle" \notin L => (Busy(L) <=> pc[t] \in L)
  BY Alone
<1>3. "idle" \notin Notifying
  BY DEF Notifying
<1>4. pc[t] \notin Early => entry[1] # NoEntry
  BY DEF EarlyCalls
<1>5. /\ Busy({"scan", "publish"}) <=> pc[t] \in {"scan", "publish"}
      /\ Busy(Notifying) <=> pc[t] \in Notifying
      /\ Busy({"gather", "post", "NULL"}) <=> pc[t] \in {"gather", "post", "NULL"}
  BY <1>2, <1>3
<1> QED BY <1>1, <1>4, <1>5, AloneAfter

\* Two worst rows are the same row.
LEMMA WorstIsUnique ==
  ASSUME TypeOK, NEW i \in Rows, NEW j \in Rows, IsWorst(i), IsWorst(j)
  PROVE  i = j
<1>1. \A k \in Rows : entry[k] # NoEntry => Code(entry[k]) \in Nat
  BY EntryType DEF TypeOK, Code
<1>2. i \in Nat /\ j \in Nat
  BY DEF Rows
<1> QED BY <1>1, <1>2 DEF IsWorst, NONE

\* The worst row's entry is no better than any other.
LEMMA WorstBounds ==
  ASSUME TypeOK, NEW i \in Rows, IsWorst(i), entry[1] # NoEntry
  PROVE  \A j \in Rows : entry[j] # NoEntry => Code(entry[j]) <= Code(entry[i])
<1>1. \A k \in Rows : entry[k] # NoEntry => Code(entry[k]) \in Nat
  BY EntryType DEF TypeOK, Code
<1> QED BY <1>1 DEF IsWorst, NONE

\* Rows with the same entry are the same row.
LEMMA EntryGivesRow ==
  ASSUME EntryOfModule, NEW i \in Rows, NEW j \in Rows, entry[i] = entry[j], entry[i] # NoEntry
  PROVE  i = j
BY ModulesDiffer DEF EntryOfModule

\* A step that leaves the entries alone leaves the worst row the worst.
LEMMA KeepsWorst ==
  ASSUME UNCHANGED entry
  PROVE  /\ \A i \in Rows : IsWorst(i) => IsWorst(i)'
         /\ UNCHANGED worst_index /\ IsWorst(worst_index) => IsWorst(worst_index)'
BY DEF IsWorst

LEMMA InitSerial == Init => SerialInv
<1> SUFFICES ASSUME Init PROVE SerialInv
  OBVIOUS
<1>1. /\ \A t \in Threads : pc[t] = "idle"
      /\ \A i \in Rows : entry[i] = NoEntry
      /\ 1 \in Rows /\ TimerThreads \subseteq Threads
      /\ overall.state = NoEntry /\ prev_worst_entry = NoEntry
  BY RowType, BootIsThread DEF Init, NoMessage
<1>2. OneAtATime /\ EntryOfModule /\ ExpiredIsTransitory /\ EarlyCalls
  BY <1>1 DEF OneAtATime, EntryOfModule, ExpiredIsTransitory, Resetting, EarlyCalls, Early
<1>3. WorstKnown /\ PrevIsWorst /\ OverallIsPrev /\ Gathered
  BY <1>1 DEF WorstKnown, PrevIsWorst, OverallIsPrev, Gathered
<1> QED BY <1>2, <1>3 DEF SerialInv

\* A call begins: the table, the worst row and the overall message stay.
LEMMA BeginSerial ==
  ASSUME Base, SerialInv, OneAtATime', NEW t \in Threads, pc[t] = "idle",
         pc' = [pc EXCEPT ![t] = "update"],
         UNCHANGED <<entry, data, worst_index, prev_worst_entry, overall>>,
         ExpiredIsTransitory'
  PROVE  SerialInv'
<1>1. /\ pc'[t] = "update" /\ \A w \in Threads \ {t} : pc[w] = "idle" /\ pc'[w] = "idle"
      /\ ~Busy({"scan", "publish"}) /\ ~Busy(Notifying) /\ ~Busy({"gather", "post", "NULL"})
      /\ ~Busy({"scan", "publish"})' /\ ~Busy(Notifying)' /\ ~Busy({"gather", "post", "NULL"})'
  BY SerialShape DEF Base, EntryInv, SerialInv, Notifying
<1>2. EntryOfModule' /\ EarlyCalls'
  BY <1>1 DEF SerialInv, EntryOfModule, EarlyCalls, Early
<1>3. WorstKnown'
  BY <1>1, KeepsWorst DEF SerialInv, WorstKnown
<1>4. PrevIsWorst'
  BY <1>1 DEF SerialInv, PrevIsWorst
<1>5. OverallIsPrev'
  BY <1>1 DEF SerialInv, OverallIsPrev, NewData, Notifying, Consistent
<1>6. Gathered'
  BY <1>1 DEF Gathered
<1> QED BY <1>2, <1>3, <1>4, <1>5, <1>6 DEF SerialInv

\* The first update to be made is the init thread's, of the first row.
LEMMA UpdateFillsFirst ==
  ASSUME Base, OneAtATime, [Next]_vars, NEW t \in Threads, UpdateModuleStatus(t)
  PROVE  entry'[1] # NoEntry
<1> USE BaseTypes, BootIsThread DEF Base
<1>1. CASE entry[1] # NoEntry
  BY <1>1, EntriesStay
<1>2. CASE entry[1] = NoEntry
  <2>1. PICK i \in Rows, e \in Entries \cup {NoEntry} :
          /\ i <= registered
          /\ Module(i) = req[t].module
          /\ FindsEntry(req[t].module, req[t].state, e)
          /\ IF e # NoEntry THEN SetRow(i, e, req[t].data) ELSE IgnoreReport(req[t].data)
    BY DEF UpdateModuleStatus
  <2>2. pc[t] = "update"
    BY DEF UpdateModuleStatus
  <2>3. t = Boot /\ registered = 1
    BY <1>2, <2>1, <2>2 DEF EntryInv, BootFirst, OneAtATime, Rows
  <2>4. /\ i = 1
        /\ req[t].module = Registrations[1].module
        /\ req[t].state = Registrations[1].state
    BY <1>2, <2>1, <2>2, <2>3 DEF EntryInv, BootFirst, Rows
  <2>5. e # NoEntry
    BY <2>1, <2>4, ModuleAssumption DEF FindsEntry
  <2>6. entry' = [entry EXCEPT ![1] = e]
    BY <2>1, <2>4, <2>5 DEF SetRow
  <2> QED BY <2>5, <2>6
<1> QED BY <1>1, <1>2

\* The update: row by row, what the running call may have changed is NewData.
LEMMA UpdateSerial ==
  ASSUME Base, SerialInv, OneAtATime', [Next]_vars, NEW t \in Threads, UpdateModuleStatus(t)
  PROVE  SerialInv'
<1> USE BaseTypes DEF Base
<1>1. /\ pc[t] = "update" /\ pc' = [pc EXCEPT ![t] = "scan"]
      /\ UNCHANGED <<worst_index, prev_worst_entry, overall, req>>
  BY DEF UpdateModuleStatus, Goto, local
<1>2. /\ pc'[t] = "scan" /\ \A w \in Threads \ {t} : pc[w] = "idle" /\ pc'[w] = "idle"
      /\ ~Busy(Notifying) /\ ~Busy({"gather", "post", "NULL"})
      /\ Busy({"scan", "publish"})' /\ Busy(Notifying)' /\ ~Busy({"gather", "post", "NULL"})'
  BY <1>1, SerialShape DEF EntryInv, SerialInv, Notifying
<1>3. PICK i \in Rows, e \in Entries \cup {NoEntry} :
        /\ Module(i) = req[t].module
        /\ FindsEntry(req[t].module, req[t].state, e)
        /\ IF e # NoEntry THEN SetRow(i, e, req[t].data) ELSE IgnoreReport(req[t].data)
  BY DEF UpdateModuleStatus
<1>4. /\ \A j \in Rows : (entry'[j] = entry[j] /\ data'[j] = data[j])
                         \/ (j = i /\ entry'[j] = e /\ data'[j] = req[t].data /\ e # NoEntry)
      /\ e # NoEntry => DispStatusMessage[e].module = Module(i)
  BY <1>3 DEF SetRow, IgnoreReport, FindsEntry
<1>5. EntryOfModule' /\ EarlyCalls'
  <2>1. EntryOfModule'
    BY <1>4 DEF SerialInv, EntryOfModule
  <2>2. entry'[1] # NoEntry
    BY UpdateFillsFirst DEF SerialInv
  <2> QED BY <2>1, <2>2 DEF EarlyCalls
<1>6. ExpiredIsTransitory'
  BY <1>2, BootIsThread DEF ExpiredIsTransitory, Resetting
<1>7. WorstKnown' /\ PrevIsWorst' /\ Gathered'
  BY <1>2 DEF WorstKnown, PrevIsWorst, Gathered
<1>8. \A j \in Rows : ~NewData(j)
  BY <1>2 DEF NewData, Busy
<1>9. \A j \in Rows : Module(j) = req[t].module /\ req[t].data # NoBlock => NewData(j)'
  BY <1>1, <1>2 DEF NewData, Notifying
<1>10. OverallIsPrev'
  BY <1>1, <1>2, <1>3, <1>4, <1>8, <1>9 DEF SerialInv, OverallIsPrev, Consistent
<1> QED BY <1>5, <1>6, <1>7, <1>10 DEF SerialInv

\* Steps that read: the table and the overall message stay.
LEMMA QuietStep ==
  ASSUME Base, SerialInv, OneAtATime', NEW t \in Threads, NEW b,
         pc[t] # "idle" \/ b # "idle", pc' = [pc EXCEPT ![t] = b],
         UNCHANGED <<entry, data, timer, overall>>, b # "update"
  PROVE  /\ EntryOfModule' /\ ExpiredIsTransitory'
         /\ pc[t] \notin Early \/ b \in Early \ {"gather"} => EarlyCalls'
<1>1. EntryOfModule'
  BY DEF SerialInv, EntryOfModule
<1>2. \A w \in Threads : pc'[w] # "update"
  <2>1. pc'[t] = b /\ \A w \in Threads \ {t} : pc'[w] = "idle"
    BY Alone DEF SerialInv, Base
  <2> QED BY <2>1
<1>4. ASSUME pc[t] \notin Early \/ b \in Early \ {"gather"}
      PROVE  EarlyCalls'
  <2>1. pc'[t] = b /\ \A w \in Threads \ {t} : pc'[w] = "idle"
    BY Alone DEF SerialInv, Base
  <2> QED BY <1>4, <2>1 DEF SerialInv, EarlyCalls, Early
<1>3. ExpiredIsTransitory'
  BY <1>2, BootIsThread DEF ExpiredIsTransitory, Resetting
<1> QED BY <1>1, <1>3, <1>4

LEMMA ScanSerial ==
  ASSUME Base, SerialInv, OneAtATime', NEW t \in Threads, Scan(t)
  PROVE  SerialInv'
<1> USE BaseTypes DEF Base, EntryInv
<1>1. /\ pc[t] = "scan" /\ pc' = [pc EXCEPT ![t] = "publish"]
      /\ UNCHANGED <<entry, data, timer, worst_index, prev_worst_entry, overall, req>>
  BY DEF Scan, Goto, table
<1>2. PICK i \in Rows : IsWorst(i) /\ index' = [index EXCEPT ![t] = i]
  BY DEF Scan
<1>3. index'[t] = i /\ IsWorst(i)'
  BY <1>1, <1>2, KeepsWorst
<1>4. EntryOfModule' /\ ExpiredIsTransitory' /\ EarlyCalls'
  BY <1>1, QuietStep DEF Early
<1>5. WorstKnown' /\ PrevIsWorst' /\ Gathered'
  BY <1>1, <1>3, SerialShape DEF SerialInv, WorstKnown, PrevIsWorst, Gathered, Notifying
<1>6. \A j \in Rows : NewData(j) => NewData(j)'
  BY <1>1, SerialShape DEF SerialInv, NewData, Notifying
<1>7. OverallIsPrev'
  BY <1>1, <1>6, SerialShape DEF SerialInv, OverallIsPrev, Consistent
<1> QED BY <1>4, <1>5, <1>7 DEF SerialInv

LEMMA PublishSerial ==
  ASSUME Base, SerialInv, OneAtATime', NEW t \in Threads, Publish(t)
  PROVE  SerialInv'
<1> USE BaseTypes DEF Base, EntryInv
<1>1. /\ pc[t] = "publish" /\ pc' = [pc EXCEPT ![t] = "load"]
      /\ UNCHANGED <<entry, data, timer, prev_worst_entry, overall, req>>
      /\ worst_index' = index[t]
  BY DEF Publish, Goto, table
<1>2. IsWorst(worst_index)'
  <2>1. IsWorst(index[t])
    BY <1>1 DEF SerialInv, WorstKnown
  <2> QED BY <1>1, <2>1 DEF IsWorst
<1>3. EntryOfModule' /\ ExpiredIsTransitory' /\ EarlyCalls'
  BY <1>1, QuietStep DEF Early
<1>4. WorstKnown' /\ PrevIsWorst' /\ Gathered'
  BY <1>1, <1>2, SerialShape DEF SerialInv, WorstKnown, PrevIsWorst, Gathered, Notifying
<1>5. \A j \in Rows : NewData(j) => NewData(j)'
  BY <1>1, SerialShape DEF SerialInv, NewData, Notifying
<1>6. OverallIsPrev'
  BY <1>1, <1>5, SerialShape DEF SerialInv, OverallIsPrev, Consistent
<1> QED BY <1>3, <1>4, <1>6 DEF SerialInv

LEMMA LoadSerial ==
  ASSUME Base, SerialInv, OneAtATime', NEW t \in Threads, LoadWorstEntry(t)
  PROVE  SerialInv'
<1> USE BaseTypes DEF Base, EntryInv
<1>7. entry[worst_index] # NoEntry
  <2>1. pc[t] = "load" /\ \A w \in Threads \ {t} : pc[w] = "idle"
    BY DEF SerialInv, OneAtATime, LoadWorstEntry
  <2>2. ~Busy({"scan", "publish"}) /\ entry[1] # NoEntry
    BY <2>1 DEF Busy, SerialInv, EarlyCalls, Early
  <2> QED BY <2>2 DEF SerialInv, WorstKnown, IsWorst
<1>1. /\ pc[t] = "load" /\ pc' = [pc EXCEPT ![t] = "compare"]
      /\ UNCHANGED <<entry, data, timer, worst_index, prev_worst_entry, overall, req>>
      /\ worst_entry'[t] = entry[worst_index]
  BY <1>7 DEF LoadWorstEntry, Goto, table
<1>2. IsWorst(worst_index) /\ IsWorst(worst_index)'
  BY <1>1, SerialShape, KeepsWorst DEF SerialInv, WorstKnown, Early
<1>3. EntryOfModule' /\ ExpiredIsTransitory' /\ EarlyCalls'
  BY <1>1, QuietStep DEF Early
<1>4. WorstKnown' /\ PrevIsWorst' /\ Gathered'
  BY <1>1, <1>2, SerialShape DEF SerialInv, WorstKnown, PrevIsWorst, Gathered, Notifying
<1>5. \A j \in Rows : NewData(j) => NewData(j)'
  BY <1>1, SerialShape DEF SerialInv, NewData, Notifying
<1>6. OverallIsPrev'
  BY <1>1, <1>5, SerialShape DEF SerialInv, OverallIsPrev, Consistent
<1> QED BY <1>3, <1>4, <1>6 DEF SerialInv

\* The comparison: a call that returns here leaves the shown status the worst, and
\* has brought no data for it.
LEMMA CompareSerial ==
  ASSUME Base, SerialInv, OneAtATime', NEW t \in Threads, Compare(t)
  PROVE  SerialInv'
<1> USE BaseTypes DEF Base, EntryInv
<1>1. /\ pc[t] = "compare"
      /\ UNCHANGED <<entry, data, timer, worst_index, prev_worst_entry, overall, index, msg>>
  BY DEF Compare, Goto, table
<1>2. worst_entry[t] = entry[worst_index]
  BY <1>1 DEF SerialInv, WorstKnown
<1>3. CASE NothingNew(t)
  <2>1. pc' = [pc EXCEPT ![t] = "idle"]
    BY <1>3 DEF Compare, Goto
  <2>2. IsWorst(worst_index) /\ IsWorst(worst_index)'
    BY <1>1, <2>1, SerialShape, KeepsWorst DEF SerialInv, WorstKnown, Early
  <2>3. EntryOfModule' /\ ExpiredIsTransitory' /\ EarlyCalls'
    BY <1>1, <2>1, QuietStep DEF Early
  <2>4. WorstKnown' /\ PrevIsWorst' /\ Gathered'
    BY <1>1, <1>2, <1>3, <2>1, <2>2, SerialShape, ZenonT(60)
    DEF SerialInv, WorstKnown, PrevIsWorst, Gathered, Notifying, NothingNew
  <2>5. ASSUME NEW j \in Rows, entry[j] # NoEntry, entry[j] = prev_worst_entry
        PROVE  ~NewData(j)
    <3>1. DispStatusMessage[worst_entry[t]].module = Module(j)
      BY <1>3, <2>5 DEF SerialInv, EntryOfModule, NothingNew
    <3>2. \A w \in Threads : pc[w] \in Notifying => w = t
      BY <1>1, <2>1, SerialShape DEF SerialInv, Notifying
    <3> QED BY <1>3, <3>1, <3>2 DEF NothingNew, NewData
  <2>6. OverallIsPrev'
    BY <1>1, <2>1, <2>5, SerialShape DEF SerialInv, OverallIsPrev, Consistent
  <2> QED BY <2>3, <2>4, <2>6 DEF SerialInv
<1>4. CASE ~NothingNew(t)
  <2>1. pc' = [pc EXCEPT ![t] = "commit"] /\ UNCHANGED <<req, worst_entry>>
    BY <1>4 DEF Compare, Goto
  <2>2. IsWorst(worst_index) /\ IsWorst(worst_index)'
    BY <1>1, <2>1, SerialShape, KeepsWorst DEF SerialInv, WorstKnown, Early
  <2>3. EntryOfModule' /\ ExpiredIsTransitory' /\ EarlyCalls'
    BY <1>1, <2>1, QuietStep DEF Early
  <2>4. WorstKnown' /\ PrevIsWorst' /\ Gathered'
    BY <1>1, <1>2, <2>1, <2>2, SerialShape
    DEF SerialInv, WorstKnown, PrevIsWorst, Gathered, Notifying
  <2>5. \A j \in Rows : NewData(j) => NewData(j)'
    BY <1>1, <2>1, SerialShape DEF SerialInv, NewData, Notifying
  <2>6. OverallIsPrev'
    BY <1>1, <2>1, <2>5, SerialShape DEF SerialInv, OverallIsPrev, Consistent
  <2> QED BY <2>3, <2>4, <2>6 DEF SerialInv
<1> QED BY <1>3, <1>4

LEMMA CommitSerial ==
  ASSUME Base, SerialInv, OneAtATime', NEW t \in Threads, Commit(t)
  PROVE  SerialInv'
<1> USE BaseTypes DEF Base, EntryInv
<1>1. /\ pc[t] = "commit" /\ pc' = [pc EXCEPT ![t] = "gather"]
      /\ UNCHANGED <<entry, data, timer, worst_index, overall, index>>
      /\ worst_entry[t] \in Entries
      /\ prev_worst_entry' = worst_entry[t]
      /\ msg'[t].todo = {"module", "state", "data"}
      /\ msg'[t].type = IF Code(worst_entry[t]) # NONE
                           THEN DispStatusMessage[worst_entry[t]].type ELSE "MSG_READY"
  BY DEF Commit, Goto, table, NoMessage, WorstLoaded
<1>2. worst_entry[t] = entry[worst_index]
  BY <1>1 DEF SerialInv, WorstKnown
<1>3. IsWorst(worst_index)'
  BY <1>1, SerialShape, KeepsWorst DEF SerialInv, WorstKnown, Early
<1>4. msg'[t].type = DispStatusMessage[entry[worst_index]].type
  BY <1>1, <1>2, IdleAssumption DEF Code
<1>5. EntryOfModule' /\ ExpiredIsTransitory' /\ EarlyCalls'
  BY <1>1, QuietStep DEF Early
<1>6. WorstKnown' /\ PrevIsWorst' /\ OverallIsPrev'
  BY <1>1, <1>2, <1>3, SerialShape DEF SerialInv, WorstKnown, PrevIsWorst, OverallIsPrev, Notifying
<1>7. Gathered'
  <2>1. pc'[t] = "gather" /\ \A w \in Threads : pc'[w] \in {"gather", "post"} => w = t
    BY <1>1, SerialShape DEF SerialInv
  <2> QED BY <1>1, <1>4, <2>1 DEF Gathered
<1> QED BY <1>5, <1>6, <1>7 DEF SerialInv

\* Until the first row has an entry, no row has.
LEMMA EarlyWorst ==
  ASSUME Base, entry[1] = NoEntry
  PROVE  entry[worst_index] = NoEntry
<1>1. registered \in 0..1
  BY DEF Base, EntryInv, BootFirst
<1>2. worst_index \in Rows
  BY DEF Base, TypeOK
<1> QED BY <1>1, <1>2 DEF Base, TimerInv, EntryRegistered, Rows

\* Each field that is evaluated is read from the worst row as it is.
LEMMA GatherSerial ==
  ASSUME Base, SerialInv, OneAtATime', NEW t \in Threads,
         NEW field \in {"module", "state", "type", "data"}, Gather(t, field)
  PROVE  SerialInv'
<1> USE BaseTypes DEF Base, EntryInv
<1> DEFINE b == IF msg[t].todo = {field} THEN "post" ELSE "gather"
<1>1. /\ pc[t] = "gather" /\ pc' = [pc EXCEPT ![t] = b]
      /\ UNCHANGED <<entry, data, timer, worst_index, prev_worst_entry, overall>>
      /\ field \in msg[t].todo
      /\ field \in {"state", "type"} => entry[worst_index] # NoEntry
      /\ msg'[t] = Fetch(msg[t], field)
  BY DEF Gather, Goto, table
<1>2. /\ msg[t] \in Messages /\ b \in {"gather", "post"}
  BY DEF TypeOK
<1>3. /\ msg'[t].todo = msg[t].todo \ {field}
      /\ msg'[t].module = IF field = "module" THEN Module(worst_index) ELSE msg[t].module
      /\ msg'[t].state = IF field = "state" THEN entry[worst_index] ELSE msg[t].state
      /\ msg'[t].type = IF field = "type" THEN DispStatusMessage[entry[worst_index]].type ELSE msg[t].type
      /\ msg'[t].data = IF field = "data" THEN data[worst_index] ELSE msg[t].data
  BY <1>1, <1>2 DEF Fetch, Messages
<1>4. b = "post" => msg'[t].todo = {}
  BY <1>3
<1> HIDE DEF b
<1>5. /\ pc'[t] = b /\ \A w \in Threads \ {t} : pc[w] = "idle" /\ pc'[w] = "idle"
      /\ ~Busy({"scan", "publish"}) /\ ~Busy(Notifying)
      /\ ~Busy({"scan", "publish"})' /\ ~Busy(Notifying)' /\ Busy({"gather", "post", "NULL"})'
  BY <1>1, <1>2, SerialShape DEF SerialInv, Notifying
<1>6. EntryOfModule' /\ ExpiredIsTransitory' /\ EarlyCalls'
  <2>1. EntryOfModule' /\ ExpiredIsTransitory'
    BY <1>1, <1>2, QuietStep
  <2>2. ASSUME entry'[1] = NoEntry
        PROVE  pc'[t] = "gather" /\ "state" \in msg'[t].todo
    <3>1. entry[1] = NoEntry /\ entry[worst_index] = NoEntry
      BY <1>1, <2>2, EarlyWorst
    <3>2. "state" \in msg[t].todo /\ field # "state"
      BY <1>1, <3>1 DEF SerialInv, EarlyCalls
    <3> QED BY <1>2, <1>3, <1>4, <1>5, <3>2
  <2> QED BY <1>5, <2>1, <2>2 DEF EarlyCalls, Early
<1>7. WorstKnown'
  BY <1>1, <1>2, <1>5, KeepsWorst DEF SerialInv, WorstKnown
<1>8. PrevIsWorst' /\ OverallIsPrev'
  BY <1>1, <1>5 DEF SerialInv, PrevIsWorst, OverallIsPrev
<1>9. Gathered'
  <2>1. \A w \in Threads : pc'[w] \in {"gather", "post"} => w = t
    BY <1>5
  <2> QED BY <1>1, <1>3, <1>4, <1>5, <2>1 DEF SerialInv, Gathered
<1> QED BY <1>6, <1>7, <1>8, <1>9 DEF SerialInv

LEMMA PostSerial ==
  ASSUME Base, SerialInv, OneAtATime', NEW t \in Threads, Post(t)
  PROVE  SerialInv'
<1> USE BaseTypes DEF Base, EntryInv
<1>1. /\ pc[t] = "post" /\ pc' = [pc EXCEPT ![t] = "idle"]
      /\ UNCHANGED <<entry, data, timer, worst_index, prev_worst_entry>>
      /\ overall' = msg[t]
  BY DEF Post, Goto, table
<1>2. /\ pc'[t] = "idle" /\ \A w \in Threads \ {t} : pc[w] = "idle" /\ pc'[w] = "idle"
      /\ ~Busy({"scan", "publish"}) /\ ~Busy(Notifying) /\ entry[1] # NoEntry
      /\ ~Busy({"scan", "publish"})' /\ ~Busy(Notifying)' /\ ~Busy({"gather", "post", "NULL"})'
  <2>1. /\ pc'[t] = "idle" /\ \A w \in Threads \ {t} : pc[w] = "idle" /\ pc'[w] = "idle"
        /\ pc[t] \notin {"scan", "publish"} \cup Notifying
        /\ "idle" \notin {"scan", "publish", "gather", "post", "NULL"} \cup Notifying
    BY <1>1, SerialShape DEF SerialInv, Notifying
  <2>2. entry[1] # NoEntry
    BY <1>1 DEF SerialInv, EarlyCalls, Early
  <2> QED BY <2>1, <2>2 DEF Busy
<1>3. /\ overall'.module = Module(worst_index) /\ overall'.state = entry[worst_index]
      /\ overall'.type = DispStatusMessage[entry[worst_index]].type
      /\ overall'.data = data[worst_index]
  BY <1>1 DEF SerialInv, Gathered
<1>4. prev_worst_entry = entry[worst_index]
  BY <1>2 DEF SerialInv, PrevIsWorst
<1>5. IsWorst(worst_index) /\ entry[worst_index] # NoEntry
  BY <1>2 DEF SerialInv, WorstKnown, IsWorst
<1>6. EntryOfModule' /\ EarlyCalls'
  BY <1>1, <1>2 DEF SerialInv, EntryOfModule, EarlyCalls, Early
<1>7. ExpiredIsTransitory'
  BY <1>2, BootIsThread DEF ExpiredIsTransitory, Resetting
<1>8. WorstKnown' /\ PrevIsWorst' /\ Gathered'
  BY <1>1, <1>2, <1>4, <1>5, KeepsWorst DEF SerialInv, WorstKnown, PrevIsWorst, Gathered
<1>9. OverallIsPrev'
  <2>1. Consistent(overall)'
    BY <1>1, <1>3, <1>5 DEF Consistent, SerialInv, EntryOfModule
  <2>2. \A i \in Rows : entry[i] = prev_worst_entry => i = worst_index
    BY <1>4, <1>5, EntryGivesRow DEF SerialInv
  <2> QED BY <1>1, <1>3, <1>4, <2>1, <2>2 DEF OverallIsPrev
<1> QED BY <1>6, <1>7, <1>8, <1>9 DEF SerialInv

\* Steps of the feedback call, and the beginning of a rebroadcast.
LEMMA FeedbackSerial ==
  ASSUME Base, SerialInv, OneAtATime', NEW t \in Threads,
         Feedback(t) \/ Route(t) \/ Rebroadcast(t)
  PROVE  SerialInv'
<1> USE BaseTypes DEF Base, EntryInv
<1>1. PICK b \in {"route", "idle", "gather"} :
        /\ pc' = [pc EXCEPT ![t] = b] /\ (pc[t] # "idle" \/ b # "idle")
        /\ pc[t] \in {"idle", "route"}
  BY DEF Feedback, Route, Rebroadcast, Goto
<1>2. /\ UNCHANGED <<entry, data, timer, worst_index, prev_worst_entry, overall>>
  BY DEF Feedback, Route, Rebroadcast, table
<1>3. /\ b = "route" => IsWorst(index'[t])
      /\ b = "gather" => msg'[t].todo = {"module", "state", "type", "data"}
  BY <1>1 DEF Feedback, Route, Rebroadcast, Goto, NoMessage
<1>4. /\ pc'[t] = b /\ \A w \in Threads \ {t} : pc[w] = "idle" /\ pc'[w] = "idle"
      /\ ~Busy({"scan", "publish"}) /\ ~Busy(Notifying) /\ ~Busy({"gather", "post", "NULL"})
      /\ ~Busy({"scan", "publish"})' /\ ~Busy(Notifying)'
  BY <1>1, SerialShape DEF SerialInv, Notifying
<1>5. EntryOfModule' /\ ExpiredIsTransitory' /\ EarlyCalls'
  <2>1. EntryOfModule' /\ ExpiredIsTransitory'
    BY <1>1, <1>2, QuietStep
  <2> QED BY <1>2, <1>3, <1>4, <2>1 DEF EarlyCalls, Early
<1>6. WorstKnown'
  <2>1. b = "route" => IsWorst(index[t])'
    BY <1>2, <1>3 DEF IsWorst
  <2> QED BY <1>2, <1>4, <2>1, KeepsWorst DEF SerialInv, WorstKnown
<1>7. PrevIsWorst' /\ OverallIsPrev'
  <2>1. PrevIsWorst'
    BY <1>2, <1>4 DEF SerialInv, PrevIsWorst
  <2>2. \A i \in Rows : ~NewData(i)
    BY <1>4 DEF NewData, Busy
  <2>3. /\ overall.state = prev_worst_entry
        /\ prev_worst_entry # NoEntry => Consistent(overall)
        /\ \A i \in Rows : entry[i] # NoEntry /\ entry[i] = prev_worst_entry =>
             data[i] \in {overall.data, NoBlock}
    BY <1>4, <2>2 DEF SerialInv, OverallIsPrev
  <2>4. OverallIsPrev'
    BY <1>2, <2>3 DEF OverallIsPrev, Consistent
  <2> QED BY <2>1, <2>4
<1>8. Gathered'
  BY <1>1, <1>3, <1>4 DEF Gathered
<1> QED BY <1>5, <1>6, <1>7, <1>8 DEF SerialInv

\* Steps that stop the machine.
LEMMA HaltSerial ==
  ASSUME Base, SerialInv, OneAtATime', NEW t \in Threads, NEW b \in {"ASSERT", "NULL"},
         pc[t] \in {"idle", "update"} \/ (pc[t] = "gather" /\ b = "NULL"),
         pc' = [pc EXCEPT ![t] = b],
         UNCHANGED <<table, worst_index, prev_worst_entry, overall, local>>
  PROVE  SerialInv'
<1> USE BaseTypes DEF Base, EntryInv, table
<1>1. /\ pc'[t] = b /\ \A w \in Threads \ {t} : pc[w] = "idle" /\ pc'[w] = "idle"
      /\ ~Busy({"scan", "publish"}) /\ ~Busy(Notifying)
      /\ ~Busy({"scan", "publish"})' /\ ~Busy(Notifying)'
      /\ Busy({"gather", "post", "NULL"}) => Busy({"gather", "post", "NULL"})'
  BY SerialShape DEF SerialInv, Notifying
<1>2. EntryOfModule' /\ ExpiredIsTransitory' /\ EarlyCalls'
  BY <1>1, QuietStep DEF Early
<1>3. WorstKnown' /\ PrevIsWorst' /\ Gathered'
  BY <1>1, KeepsWorst DEF SerialInv, WorstKnown, PrevIsWorst, Gathered
<1>4. OverallIsPrev'
  <2>1. \A i \in Rows : ~NewData(i)
    BY <1>1 DEF NewData, Busy
  <2> QED BY <1>1, <2>1 DEF SerialInv, OverallIsPrev, Consistent
<1> QED BY <1>1, <1>2, <1>3, <1>4 DEF SerialInv

\* A step that leaves every thread where it is and the table as it is.
LEMMA StillSerial ==
  ASSUME SerialInv, UNCHANGED <<table, worst_index, prev_worst_entry, overall, pc, local>>
  PROVE  SerialInv'
<1>1. OneAtATime' /\ EntryOfModule' /\ ExpiredIsTransitory' /\ EarlyCalls'
  BY DEF SerialInv, OneAtATime, EntryOfModule, ExpiredIsTransitory, EarlyCalls, Resetting, table, local
<1>2. \A L : Busy(L)' = Busy(L)
  BY DEF Busy
<1>3. WorstKnown' /\ PrevIsWorst' /\ Gathered'
  BY <1>2, KeepsWorst DEF SerialInv, WorstKnown, PrevIsWorst, Gathered, IsWorst, table, local
<1>4. OverallIsPrev'
  BY <1>2 DEF SerialInv, OverallIsPrev, NewData, Consistent, table, local
<1> QED BY <1>1, <1>3, <1>4 DEF SerialInv

\* A step of the threads taking turns, or none.
LEMMA StepSerial ==
  ASSUME Base, SerialInv, [Next /\ OneAtATime']_vars
  PROVE  SerialInv'
<1> USE BootIsThread
<1>1. CASE UNCHANGED vars
  <2>1. UNCHANGED <<table, worst_index, prev_worst_entry, overall, pc, local>>
    BY <1>1 DEF vars, table, local
  <2> QED BY <2>1, StillSerial
<1> SUFFICES ASSUME OneAtATime', [Next]_vars, ~UNCHANGED vars
             PROVE  SerialInv'
  BY <1>1
<1>2. /\ DOMAIN pc = Threads /\ DOMAIN req = Threads /\ DOMAIN timer = Rows
      /\ \A i, j \in Rows : Module(i) = Module(j) => i = j
  BY ModulesDiffer DEF Base, TypeOK
<1>3. ASSUME NEW t \in Callers, NEW r \in Reports, Report(t, r)
      PROVE  SerialInv'
  <2>1. /\ pc[t] = "idle" /\ pc' = [pc EXCEPT ![t] = "update"]
        /\ UNCHANGED <<entry, data, worst_index, prev_worst_entry, overall>>
    BY <1>3 DEF Report, BeginNotify, Goto
  <2>2. \A w \in Threads \ {t} : pc'[w] = "idle"
    BY <2>1, <1>2, Alone DEF Base, SerialInv
  <2>3. ExpiredIsTransitory'
    BY <2>2, ThreadAssumption DEF ExpiredIsTransitory, Resetting
  <2> QED BY <2>1, <2>3, BeginSerial
<1>4. CASE Register
  <2>1. /\ pc[Boot] = "idle" /\ pc' = [pc EXCEPT ![Boot] = "update"]
        /\ UNCHANGED <<entry, data, worst_index, prev_worst_entry, overall>>
    BY <1>4 DEF Register, BeginNotify, Goto
  <2>2. \A w \in Threads \ {Boot} : pc'[w] = "idle"
    BY <2>1, <1>2, Alone DEF Base, SerialInv
  <2>3. ExpiredIsTransitory'
    BY <2>2, ThreadAssumption DEF ExpiredIsTransitory, Resetting
  <2> QED BY <2>1, <2>3, BeginSerial
<1>5. ASSUME NEW t \in TimerThreads, NEW i \in Rows, Expire(t, i)
      PROVE  SerialInv'
  <2>1. /\ pc[t] = "idle" /\ pc' = [pc EXCEPT ![t] = "update"]
        /\ UNCHANGED <<entry, data, worst_index, prev_worst_entry, overall>>
        /\ timer[i] = "armed" /\ timer'[i] = "expired" /\ req'[t].module = Module(i)
    BY <1>2, <1>5 DEF Expire, BeginNotify, Goto
  <2>2. \A w \in Threads \ {t} : pc'[w] = "idle"
    BY <2>1, <1>2, Alone DEF Base, SerialInv
  <2>3. IsTransitory(entry[i])
    BY <2>1 DEF Base, TimerInv, TimerOnlyForTransitory
  <2>4. ExpiredIsTransitory'
    <3> SUFFICES ASSUME NEW w \in TimerThreads, NEW j \in Rows, Resetting(w, j)'
                 PROVE  IsTransitory(entry'[j]) /\ timer'[j] = "expired"
      BY DEF ExpiredIsTransitory, IsTransitory
    <3>1. w = t /\ j = i
      BY <1>2, <2>1, <2>2 DEF Resetting, Module
    <3> QED BY <2>1, <2>3, <3>1
  <2> QED BY <2>1, <2>4, BeginSerial
<1>6. ASSUME NEW t \in Callers, NEW i \in Rows, FeedbackTo(t, i)
      PROVE  SerialInv'
  <2>1. UNCHANGED <<table, worst_index, prev_worst_entry, overall, local>> /\ pc[t] = "idle"
    BY <1>6 DEF FeedbackTo
  <2>2. CASE i <= registered
    <3>1. pc' = pc
      BY <1>6, <2>1, <2>2, BaseTypes DEF FeedbackTo, Goto, Base
    <3> QED BY <2>1, <3>1, StillSerial
  <2>3. CASE ~(i <= registered)
    <3>1. pc' = [pc EXCEPT ![t] = "ASSERT"]
      BY <1>6, <2>3 DEF FeedbackTo, Goto
    <3>2. t \in Threads /\ pc[t] \in {"idle", "update"} /\ "ASSERT" \in {"ASSERT", "NULL"}
      BY <2>1
    <3> QED BY <2>1, <3>1, <3>2, HaltSerial, Zenon
  <2> QED BY <2>2, <2>3
<1>7. ASSUME NEW t \in Threads, AssertRegistered(t)
      PROVE  SerialInv'
  <2>1. pc[t] \in {"idle", "update"} /\ "ASSERT" \in {"ASSERT", "NULL"}
    BY <1>7 DEF AssertRegistered
  <2>2. /\ pc' = [pc EXCEPT ![t] = "ASSERT"]
        /\ UNCHANGED <<table, worst_index, prev_worst_entry, overall, local>>
    BY <1>7 DEF AssertRegistered, Goto
  <2> QED BY <2>1, <2>2, HaltSerial, Zenon
<1>8. ASSUME NEW t \in Threads, GatherNull(t)
      PROVE  SerialInv'
  BY <1>8, HaltSerial DEF GatherNull, Goto
<1> QED
  BY <1>3, <1>4, <1>5, <1>6, <1>7, <1>8, NextGroups, UpdateSerial, ScanSerial, PublishSerial, LoadSerial,
     CompareSerial, CommitSerial, GatherSerial, PostSerial, FeedbackSerial
-----------------------------------------------------------------------------
(* The invariant of the serial specification.                               *)

LEMMA BaseInit == Init => Base
BY InitType, OwnedInit, TimerInit, EntryInit DEF Base

LEMMA BaseStep ==
  ASSUME Base, [Next]_vars
  PROVE  Base'
BY StepType, LoadedStep, OwnedStep, TimerStep, BootStep, WorstEntryStep, NoNullStep DEF Base, EntryInv

LEMMA SerialInvariant == SerialSpec => [](Base /\ SerialInv)
<1>1. Base /\ SerialInv /\ [Next /\ OneAtATime']_vars => (Base /\ SerialInv)'
  <2>1. [Next /\ OneAtATime']_vars => [Next]_vars
    OBVIOUS
  <2> QED BY <2>1, BaseStep, StepSerial
<1> QED BY <1>1, BaseInit, InitSerial, PTL DEF SerialSpec

\* Between calls the overall message is of the worst row.
LEMMA QuiescentShows ==
  ASSUME Base, SerialInv, Quiescent, registered > 0
  PROVE  /\ entry[1] # NoEntry /\ IsWorst(worst_index) /\ entry[worst_index] # NoEntry
         /\ overall.state = entry[worst_index] /\ Consistent(overall)
         /\ Module(worst_index) = overall.module
         /\ data[worst_index] \in {overall.data, NoBlock}
<1> USE BaseTypes DEF Base
<1>1. \A L : "idle" \notin L => ~Busy(L)
  BY DEF Quiescent, Busy
<1>2. /\ ~Busy({"scan", "publish"}) /\ ~Busy(Notifying) /\ ~Busy({"gather", "post", "NULL"})
      /\ \A i \in Rows : ~NewData(i)
  BY <1>1 DEF Notifying, NewData, Quiescent
<1>3. entry[1] # NoEntry
  BY BootIsThread DEF EntryInv, BootFirst, Quiescent
<1>4. IsWorst(worst_index) /\ entry[worst_index] # NoEntry
  BY <1>2, <1>3 DEF SerialInv, WorstKnown, IsWorst
<1>5. prev_worst_entry = entry[worst_index]
  BY <1>2, <1>3 DEF SerialInv, PrevIsWorst
<1>6. /\ overall.state = entry[worst_index] /\ Consistent(overall)
      /\ data[worst_index] \in {overall.data, NoBlock}
  BY <1>2, <1>4, <1>5 DEF SerialInv, OverallIsPrev
<1>7. Module(worst_index) = overall.module
  BY <1>4, <1>6 DEF Consistent, SerialInv, EntryOfModule
<1> QED BY <1>3, <1>4, <1>6, <1>7

\* When calls take turns, the last overall broadcast is one entry of the table,
\* the state of the module it names, and no module is in a worse one (433, 461).
THEOREM OverallShowsWorst == SerialSpec => []OverallIsWorst
<1>1. Base /\ SerialInv => OverallIsWorst
  <2> SUFFICES ASSUME Base, SerialInv, Quiescent, registered > 0
               PROVE  /\ Consistent(overall)
                      /\ \E i \in Rows : Module(i) = overall.module /\ entry[i] = overall.state
                      /\ \A i \in Rows : entry[i] # NoEntry => Code(entry[i]) <= Code(overall.state)
    BY DEF OverallIsWorst
  <2>1. \A i \in Rows : entry[i] # NoEntry => Code(entry[i]) <= Code(entry[worst_index])
    BY QuiescentShows, WorstBounds, BaseTypes DEF Base
  <2> QED BY <2>1, QuiescentShows, BaseTypes DEF Base
<1> QED BY <1>1, SerialInvariant, PTL

\* Between calls the overall message carries the data of the status it shows,
\* unless that status was reported again without data (438).
THEOREM OverallDataIsCurrent == SerialSpec => []OverallHasCurrentData
<1>1. Base /\ SerialInv => OverallHasCurrentData
  BY QuiescentShows, BaseTypes, ModulesDiffer DEF Base, OverallHasCurrentData
<1> QED BY <1>1, SerialInvariant, PTL

\* When calls take turns, no message is formatted from a data block that
\* update_module_status has disposed of (336-338).
THEOREM DataOutlivesMessage == SerialSpec => []NoUseAfterFree
<1>1. Base /\ SerialInv => NoUseAfterFree
  BY BaseTypes DEF Base, SerialInv, Gathered, NoUseAfterFree, DataOwnedOnce
<1> QED BY <1>1, SerialInvariant, PTL

\* When calls take turns, feedback without a module reaches the module that the
\* UI is showing: the row a later scan finds is the row last broadcast.
THEOREM FeedbackIsRouted == SerialSpec => FeedbackReachesShown
<1>1. ASSUME Base, SerialInv, NEW t \in Threads, pc[t] = "route", registered > 0
      PROVE  Module(index[t]) = overall.module
  <2> USE BaseTypes DEF Base
  <2>1. \A w \in Threads \ {t} : pc[w] = "idle"
    BY <1>1 DEF SerialInv, OneAtATime
  <2>2. ~Busy({"scan", "publish"}) /\ ~Busy(Notifying) /\ ~Busy({"gather", "post", "NULL"})
    BY <1>1, <2>1 DEF Busy, Notifying
  <2>3. entry[1] # NoEntry
    BY <1>1, <2>1, BootIsThread DEF EntryInv, BootFirst
  <2>4. IsWorst(worst_index) /\ IsWorst(index[t])
    BY <1>1, <2>2, <2>3 DEF SerialInv, WorstKnown
  <2>5. index[t] = worst_index /\ entry[worst_index] # NoEntry
    BY <1>1, <2>3, <2>4, WorstIsUnique DEF IsWorst
  <2>6. overall.state = entry[worst_index] /\ Consistent(overall)
    BY <1>1, <2>2, <2>3, <2>5 DEF SerialInv, PrevIsWorst, OverallIsPrev
  <2> QED BY <1>1, <2>5, <2>6 DEF Consistent, SerialInv, EntryOfModule
<1>2. Base /\ SerialInv =>
        \A t \in Threads : pc[t] = "route" /\ pc'[t] = "idle" /\ registered > 0 => Module(index[t]) = overall.module
  BY <1>1
<1> QED BY <1>2, SerialInvariant, PTL DEF FeedbackReachesShown

\* When calls take turns, a timer callback resets a row only while the row is in
\* the transitory state whose timer ran out (301).
THEOREM ExpiryIsTimely == SerialSpec => ExpiryEndsTransitory
<1>1. SerialInv => \A t \in TimerThreads, i \in Rows :
        Resetting(t, i) /\ pc'[t] = "scan" => IsTransitory(entry[i]) /\ timer[i] = "expired"
  BY DEF SerialInv, ExpiredIsTransitory
<1> QED BY <1>1, SerialInvariant, PTL DEF ExpiryEndsTransitory
-----------------------------------------------------------------------------
(* The manager implements the board, step by step.                          *)

RowOf(m) == CHOOSE i \in Rows : Module(i) = m

LEMMA RowOfModule == \A i \in Rows : RowOf(Module(i)) = i
BY ModulesDiffer DEF RowOf

\* Only an update changes the table, and only the end of a broadcast the display.
LEMMA WhoWrites ==
  ASSUME [Next]_vars
  PROVE  \/ \E t \in Threads : UpdateModuleStatus(t)
         \/ \E t \in Threads : Post(t)
         \/ UNCHANGED <<entry, overall>>
BY NextGroups DEF vars, table, Register, Report, Expire, Rebroadcast, Feedback, FeedbackTo,
  AssertRegistered, Scan, Publish, LoadWorstEntry, Compare, Commit, GatherNull, Gather, Route

\* Every step of the manager is a step of the board or leaves the board alone.
LEMMA BoardStep ==
  ASSUME Base, SerialInv, [Next]_vars
  PROVE  [Board!Next]_(Board!board)
<1> USE BaseTypes DEF Base
<1> DEFINE status == [m \in Modules |-> entry[RowOf(m)]]
<1>1. ASSUME UNCHANGED <<entry, overall>>
      PROVE  UNCHANGED Board!board
  BY <1>1 DEF Board!board
<1>2. ASSUME NEW t \in Threads, UpdateModuleStatus(t)
      PROVE  [Board!Next]_(Board!board)
  <2>1. PICK i \in Rows, e \in Entries \cup {NoEntry} :
          IF e # NoEntry THEN SetRow(i, e, req[t].data) ELSE IgnoreReport(req[t].data)
    BY <1>2 DEF UpdateModuleStatus
  <2>2. UNCHANGED overall
    BY <1>2 DEF UpdateModuleStatus
  <2>3. CASE e = NoEntry
    BY <1>1, <2>1, <2>2, <2>3 DEF IgnoreReport
  <2>4. CASE e # NoEntry
    <3>1. e \in Entries /\ entry' = [entry EXCEPT ![i] = e]
      BY <2>1, <2>4 DEF SetRow
    <3>2. Module(i) \in Modules /\ \A m \in Modules : RowOf(m) = i <=> m = Module(i)
      BY RowType, RowOfModule DEF Modules, Module
    <3>3. \A m \in Modules : RowOf(m) \in Rows
      BY RowOfModule DEF Modules, Module
    <3>4. [m \in Modules |-> entry'[RowOf(m)]]
            = [[m \in Modules |-> entry[RowOf(m)]] EXCEPT ![Module(i)] = e]
      BY <3>1, <3>2, <3>3
    <3>5. Board!Change(Module(i), e)
      BY <2>2, <3>4 DEF Board!Change, RowOf
    <3> QED BY <3>1, <3>2, <3>5 DEF Board!Next
  <2> QED BY <2>3, <2>4
<1>3. ASSUME NEW t \in Threads, Post(t)
      PROVE  [Board!Next]_(Board!board)
  <2>1. pc[t] = "post" /\ UNCHANGED entry /\ overall' = msg[t]
    BY <1>3 DEF Post, table
  <2>2. overall'.state = entry[worst_index]
    BY <2>1 DEF SerialInv, Gathered
  <2>3. entry[1] # NoEntry
    BY <2>1 DEF SerialInv, EarlyCalls, Early
  <2>4. \A w \in Threads \ {t} : pc[w] = "idle"
    BY <2>1 DEF SerialInv, OneAtATime
  <2>5. ~Busy({"scan", "publish"})
    BY <2>1, <2>4 DEF Busy
  <2>6. IsWorst(worst_index) /\ entry[worst_index] \in Entries
    BY <2>3, <2>5 DEF SerialInv, WorstKnown, IsWorst
  <2>7. \A i \in Rows : entry[i] # NoEntry => Code(entry[i]) <= Code(entry[worst_index])
    BY <2>3, <2>6, WorstBounds
  <2>8. \A m \in Modules : RowOf(m) \in Rows
    BY RowOfModule DEF Modules, Module
  <2>9. Board!IsWorst(entry[worst_index])
    <3>1. Module(worst_index) \in Modules /\ RowOf(Module(worst_index)) = worst_index
      BY RowType, RowOfModule
    <3>2. \A m \in Modules : entry[RowOf(m)] # NoEntry =>
            entry[RowOf(m)] \in Entries /\ Code(entry[RowOf(m)]) <= Code(entry[worst_index])
      BY <2>7, <2>8
    <3> DEFINE S == [m \in Modules |-> entry[RowOf(m)]]
               Sev == [e \in Entries |-> Code(e)]
    <3>3. \E m \in Modules : S[m] = entry[worst_index]
      BY <3>1
    <3>4. \A m \in Modules : S[m] # NoEntry => Sev[S[m]] <= Sev[entry[worst_index]]
      BY <2>6, <3>2
    <3> QED BY <2>6, <3>3, <3>4 DEF Board!IsWorst, RowOf
  <2>10. Board!Show(entry[worst_index])
    BY <2>1, <2>2, <2>9 DEF Board!Show
  <2> QED BY <2>6, <2>10 DEF Board!Next
<1> QED BY <1>1, <1>2, <1>3, WhoWrites

\* The safety half of ImplementsBoard: when calls take turns, a display changes
\* only to a status that is the worst at that moment, and statuses change one
\* module at a time.  (The board's liveness is checked, not proved.)
THEOREM BoardRefined == SerialSpec => Board!Init /\ [][Board!Next]_(Board!board)
<1>1. Init => Board!Init
  <2> SUFFICES ASSUME Init PROVE Board!Init
    OBVIOUS
  <2>1. \A m \in Modules : RowOf(m) \in Rows
    BY RowOfModule DEF Modules, Module
  <2> QED BY <2>1 DEF Init, NoMessage, Board!Init, RowOf
<1>2. [Next /\ OneAtATime']_vars => [Next]_vars
  OBVIOUS
<1>3. Base /\ SerialInv /\ [Next /\ OneAtATime']_vars => [Board!Next]_(Board!board)
  BY <1>2, BoardStep
<1> QED BY <1>1, <1>3, SerialInvariant, PTL DEF SerialSpec
=============================================================================

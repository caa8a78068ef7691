-------------------------- MODULE StatusManagerProofs --------------------------
(***************************************************************************)
(* What holds of the status manager for every table, every set of modules  *)
(* and every number of threads, however the threads interleave.            *)
(***************************************************************************)
EXTENDS StatusManager, TLAPS

\* The elements of a sequence.
LEMMA ElementOfSeq ==
  ASSUME NEW S, NEW s \in Seq(S), NEW i \in 1..Len(s)
  PROVE  s[i] \in S
OBVIOUS

\* What the assumptions say of a table index.
LEMMA EntryType ==
  /\ NoEntry \notin Entries
  /\ \A e \in Entries : /\ DispStatusMessage[e].type \in Types
                        /\ DispStatusMessage[e].state \in STRING
                        /\ DispStatusMessage[e].code \in Nat
<1> SUFFICES ASSUME NEW e \in Entries
             PROVE  /\ e # 0
                    /\ DispStatusMessage[e].type \in Types
                    /\ DispStatusMessage[e] \in [type: STRING, code: Nat, module: STRING, state: STRING]
  BY DEF NoEntry
<1>1. e \in Nat \ {0} /\ e \in 1..Len(DispStatusMessage)
  BY TableAssumption DEF Entries
<1>2. DispStatusMessage[e] \in [type: STRING, code: Nat, module: STRING, state: STRING]
  <2>1. DispStatusMessage \in Seq([type: STRING, code: Nat, module: STRING, state: STRING])
    BY TableAssumption
  <2> QED BY <1>1, <2>1, ElementOfSeq, Zenon
<1>3. DispStatusMessage[e].type \in Types
  BY DEF Types
<1> QED BY <1>1, <1>2, <1>3

\* The row of a module, and the first row.
LEMMA RowType ==
  /\ 1 \in Rows
  /\ \A i \in Rows : Module(i) \in Modules /\ Registrations[i].state \in STRING
<1>1. 1 \in Rows
  BY ModuleAssumption DEF Rows
<1> SUFFICES ASSUME NEW i \in Rows
             PROVE  Module(i) \in Modules /\ Registrations[i].state \in STRING
  BY <1>1
<1>2. Registrations[i] \in [module: STRING, state: STRING]
  <2>1. Registrations \in Seq([module: STRING, state: STRING])
    BY ModuleAssumption
  <2> QED BY <2>1, ElementOfSeq, Zenon DEF Rows
<1>3. Module(i) \in Modules
  BY DEF Module, Modules
<1> QED BY <1>2, <1>3

LEMMA NoMessageType == NoMessage \in Messages
BY RowType DEF NoMessage, Messages, Types, Handles

\* What a call asks for is made of strings.
LEMMA RequestType ==
  /\ \A i \in Rows : Module(i) \in STRING
  /\ NoRequest \in [module: STRING, state: STRING, data: Handles]
  /\ \A r \in Reports : r.module \in STRING /\ r.state \in STRING
<1>1. ASSUME NEW i \in Rows
      PROVE  Registrations[i] \in [module: STRING, state: STRING]
  <2>1. Registrations \in Seq([module: STRING, state: STRING])
    BY ModuleAssumption
  <2> QED BY <2>1, ElementOfSeq, Zenon DEF Rows
<1>2. \A i \in Rows : Module(i) \in STRING
  BY <1>1 DEF Module
<1>3. NoRequest \in [module: STRING, state: STRING, data: Handles]
  BY <1>2, RowType DEF NoRequest, Handles
<1>4. \A r \in Reports : r.module \in STRING /\ r.state \in STRING
  BY ModuleAssumption
<1> QED BY <1>2, <1>3, <1>4

LEMMA BootIsThread == Boot \in Threads /\ Callers \subseteq Threads /\ TimerThreads \subseteq Threads
BY DEF Threads

\* A thread gets past the load of the worst entry only with an entry.
WorstLoaded ==
  \A t \in Threads : pc[t] \in {"compare", "commit"} => worst_entry[t] # NoEntry

LEMMA InitType == Init => TypeOK /\ WorstLoaded
BY RowType, NoMessageType, RequestType DEF Init, TypeOK, WorstLoaded, Handles, NoEntry

LEMMA StepType ==
  ASSUME TypeOK, WorstLoaded, [Next]_vars
  PROVE  TypeOK'
<1> USE DEF TypeOK, table, local, Goto
<1> USE EntryType, RowType, NoMessageType, RequestType, BootIsThread
<1>1. CASE Register
  BY <1>1, ModuleAssumption DEF Register, BeginNotify, Rows, Handles
<1>2. ASSUME NEW t \in Callers, NEW r \in Reports, Report(t, r)
      PROVE  TypeOK'
  BY <1>2, ModuleAssumption DEF Report, BeginNotify, Handles
<1>3. ASSUME NEW t \in Callers, Rebroadcast(t)
      PROVE  TypeOK'
  <2>1. msg'[t] \in Messages
    BY <1>3 DEF Rebroadcast, Messages
  <2> QED BY <1>3, <2>1 DEF Rebroadcast
<1>4. ASSUME NEW t \in Callers, Feedback(t)
      PROVE  TypeOK'
  BY <1>4 DEF Feedback
<1>5. ASSUME NEW t \in Callers, NEW i \in Rows, FeedbackTo(t, i)
      PROVE  TypeOK'
  BY <1>5 DEF FeedbackTo
<1>6. ASSUME NEW t \in TimerThreads, NEW i \in Rows, Expire(t, i)
      PROVE  TypeOK'
  BY <1>6 DEF Expire, BeginNotify, Handles
<1>7. ASSUME NEW t \in Threads, UpdateModuleStatus(t)
      PROVE  TypeOK'
  <2>1. PICK i \in Rows, e \in Entries \cup {NoEntry} :
          IF e # NoEntry THEN SetRow(i, e, req[t].data) ELSE IgnoreReport(req[t].data)
    BY <1>7 DEF UpdateModuleStatus
  <2>2. req[t].data \in Handles
    OBVIOUS
  <2>3. CASE e # NoEntry
    <3>1. /\ entry' = [entry EXCEPT ![i] = e]
          /\ data' = [data EXCEPT ![i] = req[t].data]
          /\ timer' = [timer EXCEPT ![i] = IF IsTransitory(e) THEN "armed" ELSE "none"]
          /\ live' = live \ {data[i]}
      BY <2>1, <2>3 DEF SetRow
    <3>2. entry' \in [Rows -> Entries \cup {NoEntry}] /\ data' \in [Rows -> Handles]
      BY <2>2, <3>1
    <3>3. timer' \in [Rows -> {"none", "armed", "expired"}]
      <4>1. CASE IsTransitory(e)
        BY <3>1, <4>1
      <4>2. CASE ~IsTransitory(e)
        BY <3>1, <4>2
      <4> QED BY <4>1, <4>2
    <3>4. live' \subseteq Blocks
      BY <3>1
    <3> QED BY <1>7, <3>2, <3>3, <3>4 DEF UpdateModuleStatus
  <2>4. CASE e = NoEntry
    BY <1>7, <2>1, <2>4 DEF UpdateModuleStatus, IgnoreReport
  <2> QED BY <2>3, <2>4
<1>8. ASSUME NEW t \in Threads, Scan(t)
      PROVE  TypeOK'
  BY <1>8 DEF Scan
<1>9. ASSUME NEW t \in Threads, Publish(t)
      PROVE  TypeOK'
  BY <1>9 DEF Publish
<1>10. ASSUME NEW t \in Threads, LoadWorstEntry(t)
       PROVE  TypeOK'
  BY <1>10 DEF LoadWorstEntry
<1>11. ASSUME NEW t \in Threads, Compare(t)
       PROVE  TypeOK'
  <2>1. CASE NothingNew(t)
    <3>1. pc' = [pc EXCEPT ![t] = "idle"] /\ req' = [req EXCEPT ![t] = NoRequest]
      BY <1>11, <2>1 DEF Compare
    <3>2. worst_entry' = [worst_entry EXCEPT ![t] = NoEntry]
      BY <1>11, <2>1 DEF Compare
    <3>3. UNCHANGED <<table, worst_index, prev_worst_entry, overall, routed, index, msg>>
      BY <1>11 DEF Compare
    <3> QED BY <3>1, <3>2, <3>3
  <2>2. CASE ~NothingNew(t)
    BY <1>11, <2>2 DEF Compare
  <2> QED BY <2>1, <2>2
<1>12. ASSUME NEW t \in Threads, Commit(t)
       PROVE  TypeOK'
  <2>1. worst_entry[t] \in Entries
    BY <1>12 DEF Commit, WorstLoaded
  <2>2. msg'[t] \in Messages
    BY <1>12, <2>1, ZenonT(60) DEF Commit, Messages, Types
  <2> QED BY <1>12, <2>2 DEF Commit
<1>13. ASSUME NEW t \in Threads, Post(t)
       PROVE  TypeOK'
  BY <1>13 DEF Post
<1>14. ASSUME NEW t \in Threads, Route(t)
       PROVE  TypeOK'
  BY <1>14 DEF Route
<1>15. ASSUME NEW t \in Threads, NEW field \in {"module", "state", "type", "data"}, Gather(t, field)
       PROVE  TypeOK'
  <2>1. msg'[t] \in Messages
    <3>1. /\ entry[worst_index] \in Entries \cup {NoEntry}
          /\ field \in {"state", "type"} => entry[worst_index] \in Entries
      BY <1>15 DEF Gather
    <3>2. Module(worst_index) \in Modules /\ data[worst_index] \in Handles
      OBVIOUS
    <3>3. msg[t] \in Messages
      OBVIOUS
    <3>4. Fetch(msg[t], field) \in Messages
      BY <3>1, <3>2, <3>3, ZenonT(60) DEF Fetch, Messages
    <3> QED BY <1>15, <3>4 DEF Gather
  <2> QED BY <1>15, <2>1 DEF Gather
<1>16. CASE UNCHANGED vars
  BY <1>16 DEF vars
<1>17. ASSUME NEW t \in Threads, AssertRegistered(t) \/ GatherNull(t)
       PROVE  TypeOK'
  BY <1>17 DEF AssertRegistered, GatherNull
<1> QED
  BY <1>1, <1>2, <1>3, <1>4, <1>5, <1>6, <1>7, <1>8, <1>9, <1>10, <1>11, <1>12, <1>13, <1>14,
     <1>15, <1>16, <1>17 DEF Next, Step

\* Next with the steps of a call told apart.
LEMMA NextGroups ==
  ASSUME [Next]_vars
  PROVE  \/ /\ ~Halted
            /\ \/ Register
               \/ \E t \in Callers, r \in Reports : Report(t, r)
               \/ \E t \in TimerThreads, i \in Rows : Expire(t, i)
               \/ \E t \in Callers : Rebroadcast(t)
               \/ \E t \in Callers : Feedback(t)
               \/ \E t \in Callers, i \in Rows : FeedbackTo(t, i)
               \/ \E t \in Threads : AssertRegistered(t)
               \/ \E t \in Threads : UpdateModuleStatus(t)
               \/ \E t \in Threads : Scan(t)
               \/ \E t \in Threads : Publish(t)
               \/ \E t \in Threads : LoadWorstEntry(t)
               \/ \E t \in Threads : Compare(t)
               \/ \E t \in Threads : Commit(t)
               \/ \E t \in Threads : GatherNull(t)
               \/ \E t \in Threads, field \in {"module", "state", "type", "data"} : Gather(t, field)
               \/ \E t \in Threads : Post(t)
               \/ \E t \in Threads : Route(t)
         \/ UNCHANGED vars
BY DEF Next, Step

LEMMA LoadedStep ==
  ASSUME TypeOK, WorstLoaded, [Next]_vars
  PROVE  WorstLoaded'
<1> USE BootIsThread DEF table, local, Goto
<1>1. /\ pc \in [Threads -> {"idle", "update", "scan", "publish", "load", "compare",
                             "commit", "gather", "post", "route", "ASSERT", "NULL"}]
      /\ worst_entry \in [Threads -> Entries \cup {NoEntry}]
  BY DEF TypeOK
<1> DEFINE Past(t) == pc[t] \in {"compare", "commit"}
\* A step that brings nobody to these labels and leaves worst_entry there alone.
<1>2. ASSUME \A t \in Threads : Past(t)' => Past(t) /\ worst_entry'[t] = worst_entry[t]
      PROVE  WorstLoaded'
  BY <1>2 DEF WorstLoaded
<1>3. ASSUME NEW t \in Threads, LoadWorstEntry(t)
      PROVE  WorstLoaded'
  <2>1. CASE entry[worst_index] = NoEntry
    BY <1>1, <1>2, <1>3, <2>1 DEF LoadWorstEntry
  <2>2. CASE entry[worst_index] # NoEntry
    BY <1>1, <1>3, <2>2 DEF LoadWorstEntry, WorstLoaded
  <2> QED BY <2>1, <2>2
<1>4. ASSUME NEW t \in Threads, Compare(t)
      PROVE  WorstLoaded'
  <2>1. /\ Past(t)
        /\ \/ pc' = [pc EXCEPT ![t] = "idle"] /\ worst_entry' = [worst_entry EXCEPT ![t] = NoEntry]
           \/ pc' = [pc EXCEPT ![t] = "commit"] /\ worst_entry' = worst_entry
    BY <1>4 DEF Compare
  <2> QED BY <1>1, <1>2, <2>1
<1>5. ASSUME NEW t \in Threads, Commit(t)
      PROVE  WorstLoaded'
  BY <1>1, <1>2, <1>5 DEF Commit
<1>6. ASSUME NEW t \in Threads, \/ AssertRegistered(t) \/ UpdateModuleStatus(t) \/ Scan(t)
                                 \/ Publish(t) \/ GatherNull(t) \/ Post(t) \/ Route(t)
      PROVE  WorstLoaded'
  BY <1>1, <1>2, <1>6
     DEF AssertRegistered, UpdateModuleStatus, Scan, Publish, GatherNull, Post, Route
<1>7. ASSUME NEW t \in Threads, NEW field \in {"module", "state", "type", "data"}, Gather(t, field)
      PROVE  WorstLoaded'
  BY <1>1, <1>2, <1>7 DEF Gather
<1>8. ASSUME NEW t \in Callers, Rebroadcast(t) \/ Feedback(t)
      PROVE  WorstLoaded'
  BY <1>1, <1>2, <1>8 DEF Rebroadcast, Feedback
<1>9. ASSUME NEW t \in Callers, NEW i \in Rows, FeedbackTo(t, i)
      PROVE  WorstLoaded'
  BY <1>1, <1>2, <1>9 DEF FeedbackTo
<1>10. ASSUME NEW t \in Callers, NEW r \in Reports, Report(t, r)
       PROVE  WorstLoaded'
  BY <1>1, <1>2, <1>10 DEF Report, BeginNotify
<1>11. ASSUME NEW t \in TimerThreads, NEW i \in Rows, Expire(t, i)
       PROVE  WorstLoaded'
  BY <1>1, <1>2, <1>11 DEF Expire, BeginNotify
<1>12. CASE Register
  BY <1>1, <1>2, <1>12 DEF Register, BeginNotify
<1>13. CASE UNCHANGED vars
  BY <1>2, <1>13 DEF vars
<1> QED
  BY <1>3, <1>4, <1>5, <1>6, <1>7, <1>8, <1>9, <1>10, <1>11, <1>12, <1>13, NextGroups

\* Every state the status manager reaches is well-typed.
THEOREM TypeCorrect == Spec => []TypeOK
BY InitType, StepType, LoadedStep, PTL DEF Spec
-----------------------------------------------------------------------------
(* Only five operations touch the rows, the blocks or a call's arguments.   *)

OtherStep ==
  /\ UNCHANGED <<registered, entry, data, timer, live>>
  /\ Halted => Halted'
  /\ \A t \in Threads : /\ pc[t] = "update" <=> pc'[t] = "update"
                        /\ pc[t] = "update" => req'[t] = req[t]

LEMMA FiveOperations ==
  ASSUME TypeOK, [Next]_vars
  PROVE  \/ /\ ~Halted
            /\ \/ Register
               \/ \E t \in Callers, r \in Reports : Report(t, r)
               \/ \E t \in TimerThreads, i \in Rows : Expire(t, i)
               \/ \E t \in Threads : AssertRegistered(t)
               \/ \E t \in Threads : UpdateModuleStatus(t)
         \/ OtherStep
<1> USE BootIsThread DEF OtherStep, table, local, Goto
<1>1. TypeOK /\ pc \in [Threads -> {"idle", "update", "scan", "publish", "load", "compare",
                                    "commit", "gather", "post", "route", "ASSERT", "NULL"}]
      /\ DOMAIN req = Threads
  BY DEF TypeOK
<1>2. ASSUME ~Halted, NEW t \in Callers, Rebroadcast(t) \/ Feedback(t)
      PROVE  OtherStep
  BY <1>1, <1>2 DEF Rebroadcast, Feedback
<1>3. ASSUME ~Halted, NEW t \in Callers, NEW i \in Rows, FeedbackTo(t, i)
      PROVE  OtherStep
  BY <1>1, <1>3 DEF FeedbackTo
<1>4. ASSUME ~Halted, NEW t \in Threads,
             Scan(t) \/ Publish(t) \/ LoadWorstEntry(t) \/ GatherNull(t) \/ Post(t) \/ Route(t)
      PROVE  OtherStep
  BY <1>1, <1>4 DEF Scan, Publish, LoadWorstEntry, GatherNull, Post, Route
<1>5. ASSUME ~Halted, NEW t \in Threads, Compare(t)
      PROVE  OtherStep
  <2>1. /\ pc[t] = "compare"
        /\ pc' = [pc EXCEPT ![t] = "idle"] \/ pc' = [pc EXCEPT ![t] = "commit"]
        /\ req' = [req EXCEPT ![t] = NoRequest] \/ req' = req
        /\ UNCHANGED table
    BY <1>5 DEF Compare
  <2> QED BY <1>1, <1>5, <2>1
<1>6. ASSUME ~Halted, NEW t \in Threads, Commit(t)
      PROVE  OtherStep
  BY <1>1, <1>6 DEF Commit
<1>7. ASSUME ~Halted, NEW t \in Threads, NEW field \in {"module", "state", "type", "data"},
             Gather(t, field)
      PROVE  OtherStep
  BY <1>1, <1>7 DEF Gather
<1>8. CASE UNCHANGED vars
  <2>1. pc' = pc /\ UNCHANGED <<registered, entry, data, timer, live, req>>
    BY <1>8 DEF vars
  <2>2. Halted => Halted'
    BY <2>1 DEF Halted
  <2> QED BY <2>1, <2>2
<1> QED
  BY <1>2, <1>3, <1>4, <1>5, <1>6, <1>7, <1>8, NextGroups
-----------------------------------------------------------------------------
(* Data blocks.  Inductive as it stands, given the types.                   *)

LEMMA OwnedInit == Init => DataOwnedOnce
BY DEF Init, DataOwnedOnce, Carries

LEMMA OwnedStep ==
  ASSUME TypeOK, DataOwnedOnce, [Next]_vars
  PROVE  DataOwnedOnce'
<1> USE BootIsThread, ThreadAssumption
<1> DEFINE Carried(t) == pc[t] = "update"
<1>1. /\ data \in [Rows -> Blocks \cup {NoBlock}]
      /\ live \subseteq Blocks
      /\ DOMAIN pc = Threads /\ DOMAIN req = Threads
      /\ \A t \in Threads : req[t].data \in Blocks \cup {NoBlock}
  BY DEF TypeOK, Handles
<1>2. ASSUME ~Halted, Register
      PROVE  DataOwnedOnce'
  <2>1. /\ UNCHANGED <<data, live>>
        /\ \A t \in Threads \ {Boot} : pc'[t] = pc[t] /\ req'[t] = req[t]
        /\ req'[Boot].data = NoBlock
    BY <1>1, <1>2 DEF Register, BeginNotify, Goto
  <2>2. \A t \in Threads, d \in Blocks : Carries(t, d)' => t # Boot /\ Carries(t, d)
    BY <2>1 DEF Carries
  <2>3. \A t \in Threads, d \in Blocks : Carries(t, d) => Carries(t, d)'
    BY <1>2, <2>1 DEF Carries, Register
  <2> QED BY <1>1, <1>2, <2>1, <2>2, <2>3 DEF DataOwnedOnce
<1>3. ASSUME ~Halted, NEW t \in Callers, NEW r \in Reports, Report(t, r)
      PROVE  DataOwnedOnce'
  <2>1. PICK d \in Blocks \cup {NoBlock} :
          /\ d \notin live
          /\ live' = live \cup ({d} \ {NoBlock})
          /\ pc' = [pc EXCEPT ![t] = "update"]
          /\ req' = [req EXCEPT ![t] = [module |-> r.module, state |-> r.state, data |-> d]]
    BY <1>1, <1>3 DEF Report, Fresh, BeginNotify, Goto
  <2>2. pc[t] = "idle" /\ data' = data
    BY <1>3 DEF Report
  <2>3. \A u \in Threads, b \in Blocks :
          Carries(u, b)' <=> IF u = t THEN b = d ELSE Carries(u, b)
    BY <1>1, <2>1 DEF Carries
  <2>4. \A b \in Blocks : ~Carries(t, b)
    BY <2>2 DEF Carries
  <2> QED BY <1>1, <1>3, <2>1, <2>2, <2>3, <2>4 DEF DataOwnedOnce
<1>4. ASSUME ~Halted, NEW t \in TimerThreads, NEW i \in Rows, Expire(t, i)
      PROVE  DataOwnedOnce'
  <2>1. /\ UNCHANGED <<data, live>>
        /\ pc[t] = "idle"
        /\ \A u \in Threads \ {t} : pc'[u] = pc[u] /\ req'[u] = req[u]
        /\ req'[t].data = NoBlock
    BY <1>1, <1>4 DEF Expire, BeginNotify, Goto
  <2>2. \A u \in Threads, d \in Blocks : Carries(u, d)' <=> Carries(u, d)
    BY <2>1 DEF Carries
  <2> QED BY <1>1, <1>4, <2>1, <2>2 DEF DataOwnedOnce
<1>5. ASSUME ~Halted, NEW t \in Threads, UpdateModuleStatus(t)
      PROVE  DataOwnedOnce'
  <2>1. PICK i \in Rows, e \in Entries \cup {NoEntry} :
          IF e # NoEntry THEN SetRow(i, e, req[t].data) ELSE IgnoreReport(req[t].data)
    BY <1>5 DEF UpdateModuleStatus
  <2>2. pc[t] = "update" /\ pc' = [pc EXCEPT ![t] = "scan"] /\ req' = req
    BY <1>5 DEF UpdateModuleStatus, Goto, local
  <2>3. \A u \in Threads, d \in Blocks : Carries(u, d)' <=> u # t /\ Carries(u, d)
    BY <1>1, <2>2 DEF Carries
  <2>4. \A d \in Blocks : Carries(t, d) <=> req[t].data = d
    BY <2>2 DEF Carries
  <2>5. CASE e # NoEntry
    <3>1. /\ data' = [data EXCEPT ![i] = req[t].data]
          /\ live' = live \ {data[i]}
      BY <2>1, <2>5 DEF SetRow
    <3> QED BY <1>1, <1>5, <2>3, <2>4, <3>1 DEF DataOwnedOnce
  <2>6. CASE e = NoEntry
    <3>1. data' = data /\ live' = live \ {req[t].data}
      BY <2>1, <2>6 DEF IgnoreReport
    <3> QED BY <1>1, <1>5, <2>3, <2>4, <3>1 DEF DataOwnedOnce
  <2> QED BY <2>5, <2>6
<1>6. CASE OtherStep
  <2>1. \A t \in Threads, d \in Blocks : Carries(t, d)' <=> Carries(t, d)
    BY <1>6 DEF OtherStep, Carries
  <2>2. UNCHANGED <<data, live>> /\ (Halted => Halted')
    BY <1>6 DEF OtherStep
  <2> QED BY <1>1, <2>1, <2>2 DEF DataOwnedOnce
<1>7. ASSUME NEW t \in Threads, AssertRegistered(t)
      PROVE  DataOwnedOnce'
  <2>1. UNCHANGED <<data, live, req>> /\ pc' = [pc EXCEPT ![t] = "ASSERT"]
    BY <1>7 DEF AssertRegistered, Goto, table, local
  <2>2. \A u \in Threads, d \in Blocks : Carries(u, d)' => Carries(u, d)
    BY <1>1, <2>1 DEF Carries
  <2>3. Halted'
    BY <1>1, <2>1 DEF Halted
  <2> QED BY <1>1, <2>1, <2>2, <2>3 DEF DataOwnedOnce
<1> QED
  BY <1>2, <1>3, <1>4, <1>5, <1>6, <1>7, FiveOperations

\* Until a call stops the machine no interleaving leaks a data block, disposes of one twice, or lets a row and
\* a call, or two rows, own the same one.
THEOREM DataOwnership == Spec => []DataOwnedOnce
BY TypeCorrect, OwnedInit, OwnedStep, PTL DEF Spec
-----------------------------------------------------------------------------
(* Timers.  TimerInv is inductive given the types: a callback on its way    *)
(* carries a registered module and a state the table knows, so that its     *)
(* update neither fails nor is ignored.                                     *)

TimerInv ==
  /\ TimerOnlyForTransitory
  /\ EntryRegistered
  /\ ResetStateKnown
  /\ TransitoryHasTimer

LEMMA TimerInit == Init => TimerInv
BY BootIsThread DEF Init, TimerInv, TimerOnlyForTransitory, EntryRegistered,
  ResetStateKnown, TransitoryHasTimer, IsTransitory

LEMMA ModulesDiffer == \A i, j \in Rows : Module(i) = Module(j) => i = j
BY ModuleAssumption DEF Module

LEMMA TimerStep ==
  ASSUME TypeOK, TimerInv, [Next]_vars
  PROVE  TimerInv'
<1> USE BootIsThread, ThreadAssumption, EntryType
<1>1. /\ entry \in [Rows -> Entries \cup {NoEntry}]
      /\ timer \in [Rows -> {"none", "armed", "expired"}]
      /\ DOMAIN pc = Threads /\ DOMAIN req = Threads
      /\ registered \in Nat
  BY ModuleAssumption DEF TypeOK
<1>2. /\ TimerOnlyForTransitory /\ EntryRegistered
      /\ ResetStateKnown /\ TransitoryHasTimer
  BY DEF TimerInv
<1>3. CASE Register
  <2>1. /\ UNCHANGED <<entry, timer>>
        /\ registered' = registered + 1
        /\ registered + 1 \in Rows
        /\ pc[Boot] = "idle"
        /\ \A t \in Threads \ {Boot} : pc'[t] = pc[t] /\ req'[t] = req[t]
        /\ req'[Boot].module = Module(registered + 1)
    BY <1>1, <1>3, ModuleAssumption DEF Register, BeginNotify, Goto, Rows, TypeOK
  <2>2. \A t \in TimerThreads : pc'[t] = pc[t] /\ req'[t] = req[t]
    BY <2>1
  <2>3. TimerOnlyForTransitory' /\ EntryRegistered' /\ ResetStateKnown'
    BY <1>1, <1>2, <2>1, <2>2 DEF TimerOnlyForTransitory, EntryRegistered, ResetStateKnown,
       IsTransitory, Rows
  <2>5. TransitoryHasTimer'
    BY <1>2, <2>1, <2>2 DEF TransitoryHasTimer, Resetting, IsTransitory
  <2> QED BY <2>3, <2>5 DEF TimerInv
<1>4. ASSUME NEW t \in Callers, NEW r \in Reports, Report(t, r)
      PROVE  TimerInv'
  <2>1. /\ UNCHANGED <<entry, timer, registered>>
        /\ t \notin TimerThreads
        /\ \A u \in Threads \ {t} : pc'[u] = pc[u] /\ req'[u] = req[u]
        /\ req'[t].module = r.module
    BY <1>1, <1>4 DEF Report, BeginNotify, Goto
  <2>2. TimerOnlyForTransitory' /\ EntryRegistered' /\ ResetStateKnown' /\ TransitoryHasTimer'
    BY <1>2, <2>1 DEF TimerOnlyForTransitory, EntryRegistered, ResetStateKnown,
       TransitoryHasTimer, Resetting, IsTransitory
  <2> QED BY <2>2 DEF TimerInv
<1>5. ASSUME NEW t \in TimerThreads, NEW i \in Rows, Expire(t, i)
      PROVE  TimerInv'
  <2>1. PICK f \in Entries :
          /\ FindsOnline(Module(i), f)
          /\ BeginNotify(t, Module(i), DispStatusMessage[f].state, NoBlock)
    BY <1>5 DEF Expire
  <2>2. /\ UNCHANGED <<entry, registered>>
        /\ timer[i] = "armed" /\ pc[t] = "idle"
        /\ \A j \in Rows \ {i} : timer'[j] = timer[j]
        /\ timer'[i] = "expired"
        /\ \A u \in Threads \ {t} : pc'[u] = pc[u] /\ req'[u] = req[u]
        /\ pc'[t] = "update"
        /\ req'[t].module = Module(i) /\ req'[t].state = DispStatusMessage[f].state
    BY <1>1, <1>5, <2>1 DEF Expire, BeginNotify, Goto
  <2>3. TimerOnlyForTransitory' /\ EntryRegistered'
    BY <1>2, <2>2 DEF TimerOnlyForTransitory, EntryRegistered, IsTransitory
  <2>4. i <= registered
    BY <1>2, <2>2 DEF TimerOnlyForTransitory, EntryRegistered, IsTransitory
  <2>6. ResetStateKnown'
    BY <1>2, <2>1, <2>2, <2>4 DEF ResetStateKnown, FindsOnline
  <2>7. Resetting(t, i)'
    BY <2>2 DEF Resetting
  <2>8. \A u \in TimerThreads, j \in Rows : Resetting(u, j) => Resetting(u, j)'
    BY <2>2 DEF Resetting
  <2>9. TransitoryHasTimer'
    BY <1>2, <2>2, <2>7, <2>8 DEF TransitoryHasTimer, IsTransitory
  <2> QED BY <2>3, <2>6, <2>9 DEF TimerInv
<1>6. ASSUME NEW t \in Threads, UpdateModuleStatus(t)
      PROVE  TimerInv'
  <2>1. PICK i \in Rows, e \in Entries \cup {NoEntry} :
          /\ i <= registered
          /\ Module(i) = req[t].module
          /\ FindsEntry(req[t].module, req[t].state, e)
          /\ IF e # NoEntry THEN SetRow(i, e, req[t].data) ELSE IgnoreReport(req[t].data)
    BY <1>6 DEF UpdateModuleStatus
  <2>2. /\ UNCHANGED <<registered, req>>
        /\ pc[t] = "update"
        /\ \A u \in Threads \ {t} : pc'[u] = pc[u]
        /\ pc'[t] = "scan"
    BY <1>1, <1>6 DEF UpdateModuleStatus, Goto, local
  <2>3. ResetStateKnown'
    BY <1>2, <2>2 DEF ResetStateKnown
  <2>4. \A u \in TimerThreads, j \in Rows : Resetting(u, j) /\ u # t => Resetting(u, j)'
    BY <2>2 DEF Resetting
  <2>5. CASE e # NoEntry
    <3>1. /\ entry'[i] = e
          /\ timer'[i] = IF IsTransitory(e) THEN "armed" ELSE "none"
          /\ \A j \in Rows \ {i} : entry'[j] = entry[j] /\ timer'[j] = timer[j]
      BY <1>1, <2>1, <2>5 DEF SetRow
    <3>2. (timer'[i] = "armed") <=> IsTransitory(e)
      BY <3>1 DEF IsTransitory
    <3>3. TimerOnlyForTransitory'
      BY <1>2, <3>1, <3>2 DEF TimerOnlyForTransitory, IsTransitory
    <3>4. EntryRegistered'
      BY <1>2, <2>1, <2>2, <3>1 DEF EntryRegistered
    <3>5. \A u \in TimerThreads, j \in Rows \ {i} : Resetting(u, j) => Resetting(u, j)'
      BY <2>1, <2>4, ModulesDiffer DEF Resetting
    <3>6. TransitoryHasTimer'
      BY <1>2, <3>1, <3>2, <3>5 DEF TransitoryHasTimer, IsTransitory
    <3> QED BY <2>3, <3>3, <3>4, <3>6 DEF TimerInv
  <2>6. CASE e = NoEntry
    <3>1. UNCHANGED <<entry, timer>>
      BY <2>1, <2>6 DEF IgnoreReport
    <3>2. t \notin TimerThreads
      BY <1>2, <2>1, <2>2, <2>6 DEF ResetStateKnown, FindsEntry
    <3>3. TimerOnlyForTransitory' /\ EntryRegistered' /\ TransitoryHasTimer'
      BY <1>2, <2>2, <2>4, <3>1, <3>2 DEF TimerOnlyForTransitory, EntryRegistered,
         TransitoryHasTimer, IsTransitory
    <3> QED BY <2>3, <3>3 DEF TimerInv
  <2> QED BY <2>5, <2>6
<1>7. CASE OtherStep
  <2>1. UNCHANGED <<entry, timer, registered>>
    BY <1>7 DEF OtherStep
  <2>2. ASSUME NEW t \in Threads
        PROVE  /\ pc'[t] = "update" => pc[t] = "update"
               /\ pc[t] = "update" => pc'[t] = "update" /\ req'[t] = req[t]
    BY <1>7 DEF OtherStep
  <2>3. ASSUME NEW t \in TimerThreads, NEW i \in Rows, Resetting(t, i)
        PROVE  Resetting(t, i)'
    BY <2>2, <2>3 DEF Resetting
  <2>4. TransitoryHasTimer'
    BY <1>2, <2>1, <2>3 DEF TransitoryHasTimer, IsTransitory
  <2>5. TimerOnlyForTransitory' /\ EntryRegistered'
    BY <1>2, <2>1 DEF TimerOnlyForTransitory, EntryRegistered, IsTransitory
  <2>7. ResetStateKnown'
    <3> SUFFICES ASSUME NEW t \in TimerThreads, pc'[t] = "update"
                 PROVE  /\ \E i \in Rows : i <= registered /\ Module(i) = req[t].module
                        /\ \E e \in Entries : /\ DispStatusMessage[e].module = req[t].module
                                              /\ DispStatusMessage[e].state = req[t].state
                        /\ req'[t] = req[t]
      BY <2>1 DEF ResetStateKnown
    <3>1. t \in Threads
      OBVIOUS
    <3>2. pc[t] = "update" /\ req'[t] = req[t]
      BY <2>2, <3>1
    <3> QED BY <1>2, <3>2 DEF ResetStateKnown
  <2> QED BY <2>4, <2>5, <2>7 DEF TimerInv
<1>8. ASSUME NEW t \in Threads, AssertRegistered(t)
      PROVE  TimerInv'
  <2>1. /\ UNCHANGED <<entry, timer, registered, req>>
        /\ pc[t] = "update"
        /\ pc' = [pc EXCEPT ![t] = "ASSERT"]
    BY <1>8 DEF AssertRegistered, Goto, table, local
  <2>2. t \notin TimerThreads
    BY <1>2, <1>8 DEF AssertRegistered, ResetStateKnown
  <2>3. \A u \in TimerThreads : pc'[u] = pc[u]
    BY <1>1, <2>1, <2>2
  <2>4. TransitoryHasTimer'
    BY <1>2, <2>1, <2>3 DEF TransitoryHasTimer, Resetting, IsTransitory
  <2>5. TimerOnlyForTransitory' /\ EntryRegistered' /\ ResetStateKnown'
    BY <1>2, <2>1, <2>3 DEF TimerOnlyForTransitory, EntryRegistered, ResetStateKnown, IsTransitory
  <2> QED BY <2>4, <2>5 DEF TimerInv
<1> QED
  BY <1>3, <1>4, <1>5, <1>6, <1>7, <1>8, FiveOperations

\* A transitory state always has a timer or a callback that will end it.
THEOREM TransitoryGuarded == Spec => []TransitoryHasTimer
<1>1. TimerInv => TransitoryHasTimer
  BY DEF TimerInv
<1> QED BY <1>1, TypeCorrect, TimerInit, TimerStep, PTL DEF Spec

\* An armed timer belongs to the state its row is in.
THEOREM TimersBelong == Spec => []TimerOnlyForTransitory
<1>1. TimerInv => TimerOnlyForTransitory
  BY DEF TimerInv
<1> QED BY <1>1, TypeCorrect, TimerInit, TimerStep, PTL DEF Spec
-----------------------------------------------------------------------------
(* NULL entries.  The first row is given its entry by the init thread       *)
(* before any timer runs, an entry is never taken away, and a scan that     *)
(* finds nothing worse returns the first row.                               *)

EntryInv == BootFirst /\ WorstHasEntry /\ NoNullEntry

LEMMA EntryInit == Init => EntryInv
BY BootIsThread, ThreadAssumption, RowType
   DEF Init, EntryInv, BootFirst, WorstHasEntry, NoNullEntry

\* No row loses its entry.
LEMMA EntriesStay ==
  ASSUME TypeOK, [Next]_vars, NEW i \in Rows, entry[i] # NoEntry
  PROVE  entry'[i] # NoEntry
<1>1. CASE Register
  BY <1>1 DEF Register
<1>2. ASSUME NEW t \in Callers, NEW r \in Reports, Report(t, r)
      PROVE  entry'[i] # NoEntry
  BY <1>2 DEF Report
<1>3. ASSUME NEW t \in TimerThreads, NEW j \in Rows, Expire(t, j)
      PROVE  entry'[i] # NoEntry
  BY <1>3 DEF Expire
<1>4. ASSUME NEW t \in Threads, UpdateModuleStatus(t)
      PROVE  entry'[i] # NoEntry
  <2>1. PICK j \in Rows, e \in Entries \cup {NoEntry} :
          IF e # NoEntry THEN SetRow(j, e, req[t].data) ELSE IgnoreReport(req[t].data)
    BY <1>4 DEF UpdateModuleStatus
  <2>2. entry \in [Rows -> Entries \cup {NoEntry}]
    BY DEF TypeOK
  <2>3. entry' = entry \/ (e # NoEntry /\ entry' = [entry EXCEPT ![j] = e])
    BY <2>1 DEF SetRow, IgnoreReport
  <2> QED BY <2>2, <2>3
<1>5. ASSUME NEW t \in Threads, AssertRegistered(t)
      PROVE  entry'[i] # NoEntry
  BY <1>5 DEF AssertRegistered, table
<1>6. CASE OtherStep
  BY <1>6 DEF OtherStep
<1> QED BY <1>1, <1>2, <1>3, <1>4, <1>5, <1>6, FiveOperations

\* While the first row has no entry, the init thread registers that row and then gives
\* it its initial state, unless a caller reports one for it before.
LEMMA BootStep ==
  ASSUME TypeOK, TimerInv, BootFirst, [Next]_vars
  PROVE  BootFirst'
<1> USE BootIsThread, ThreadAssumption, RowType
<1> SUFFICES ASSUME entry'[1] = NoEntry
             PROVE  BootFirst'
  BY DEF BootFirst
<1>1. entry[1] = NoEntry
  BY EntriesStay
<1>2. /\ \A t \in TimerThreads : pc[t] = "idle"
      /\ \/ registered = 0 /\ pc[Boot] = "idle"
         \/ /\ registered = 1
            /\ pc[Boot] = "update"
            /\ req[Boot].module = Registrations[1].module
            /\ req[Boot].state = Registrations[1].state
  BY <1>1 DEF BootFirst
<1>3. \A i \in Rows : timer[i] # "armed"
  <2>1. \A i \in Rows : entry[i] = NoEntry
    BY <1>1, <1>2 DEF TimerInv, EntryRegistered, Rows
  <2> QED BY <2>1 DEF TimerInv, TimerOnlyForTransitory, IsTransitory
<1>4. DOMAIN pc = Threads /\ DOMAIN req = Threads /\ DOMAIN entry = Rows
  BY DEF TypeOK
\* A step of a caller that leaves the registrations alone.
<1>5. ASSUME UNCHANGED registered,
             \A t \in TimerThreads \cup {Boot} : pc'[t] = pc[t] /\ req'[t] = req[t]
      PROVE  BootFirst'
  BY <1>2, <1>5 DEF BootFirst
<1>6. CASE Register
  <2>1. /\ registered = 0
        /\ registered' = registered + 1
        /\ pc' = [pc EXCEPT ![Boot] = "update"]
        /\ req' = [req EXCEPT ![Boot] = [module |-> Module(registered + 1),
                     state |-> Registrations[registered + 1].state, data |-> NoBlock]]
    BY <1>2, <1>6 DEF Register, BeginNotify, Goto
  <2>2. /\ registered' = 1
        /\ pc'[Boot] = "update"
        /\ req'[Boot].module = Registrations[1].module
        /\ req'[Boot].state = Registrations[1].state
        /\ \A t \in TimerThreads : pc'[t] = pc[t]
    BY <1>4, <2>1 DEF Module
  <2> QED BY <1>2, <2>2 DEF BootFirst
<1>7. ASSUME NEW t \in TimerThreads, NEW i \in Rows
      PROVE  ~Expire(t, i)
  BY <1>3 DEF Expire
<1>8. ASSUME NEW t \in Callers, NEW r \in Reports, Report(t, r)
      PROVE  BootFirst'
  BY <1>4, <1>5, <1>8 DEF Report, BeginNotify, Goto
<1>9. ASSUME NEW t \in Threads, AssertRegistered(t) \/ UpdateModuleStatus(t)
      PROVE  BootFirst'
  <2>1. pc[t] = "update" /\ UNCHANGED <<registered, req>>
    BY <1>9 DEF AssertRegistered, UpdateModuleStatus, table, local
  <2>2. pc' = [pc EXCEPT ![t] = "ASSERT"] \/ pc' = [pc EXCEPT ![t] = "scan"]
    BY <1>9 DEF AssertRegistered, UpdateModuleStatus, Goto
  <2>3. CASE t # Boot
    BY <1>2, <1>4, <1>5, <2>1, <2>2, <2>3
  <2>4. CASE t = Boot
    <3>1. /\ registered = 1
          /\ req[t].module = Registrations[1].module
          /\ req[t].state = Registrations[1].state
      BY <1>2, <2>1, <2>4
    <3>2. ~AssertRegistered(t)
      BY <3>1 DEF AssertRegistered, Module
    <3>3. PICK i \in Rows, e \in Entries \cup {NoEntry} :
            /\ Module(i) = req[t].module
            /\ FindsEntry(req[t].module, req[t].state, e)
            /\ IF e # NoEntry THEN SetRow(i, e, req[t].data) ELSE IgnoreReport(req[t].data)
      BY <1>9, <3>2 DEF UpdateModuleStatus
    <3>4. i = 1
      BY <3>1, <3>3, ModulesDiffer DEF Module
    <3>5. e # NoEntry
      BY <3>1, <3>3, ModuleAssumption, EntryType DEF FindsEntry
    <3>6. entry' = [entry EXCEPT ![1] = e]
      BY <3>3, <3>4, <3>5 DEF SetRow
    <3> QED BY <1>4, <3>5, <3>6
  <2> QED BY <2>3, <2>4
<1>10. ASSUME NEW t \in Callers,
              Rebroadcast(t) \/ Feedback(t) \/ \E i \in Rows : FeedbackTo(t, i)
       PROVE  BootFirst'
  BY <1>4, <1>5, <1>10 DEF Rebroadcast, Feedback, FeedbackTo, Goto, table, local
<1>11. ASSUME NEW t \in Threads,
              Scan(t) \/ Publish(t) \/ LoadWorstEntry(t) \/ GatherNull(t) \/ Post(t) \/ Route(t)
       PROVE  BootFirst'
  BY <1>2, <1>4, <1>5, <1>11
     DEF Scan, Publish, LoadWorstEntry, GatherNull, Post, Route, Goto, table, local
<1>12. ASSUME NEW t \in Threads, Compare(t)
       PROVE  BootFirst'
  <2>1. /\ pc[t] = "compare" /\ UNCHANGED registered
        /\ pc' = [pc EXCEPT ![t] = "idle"] \/ pc' = [pc EXCEPT ![t] = "commit"]
        /\ req' = [req EXCEPT ![t] = NoRequest] \/ req' = req
    BY <1>12 DEF Compare, Goto, table
  <2> QED BY <1>2, <1>4, <1>5, <2>1
<1>13. ASSUME NEW t \in Threads, Commit(t)
       PROVE  BootFirst'
  BY <1>2, <1>4, <1>5, <1>13 DEF Commit, Goto, table
<1>14. ASSUME NEW t \in Threads, NEW field \in {"module", "state", "type", "data"}, Gather(t, field)
       PROVE  BootFirst'
  BY <1>2, <1>4, <1>5, <1>14 DEF Gather, Goto, table
<1>15. CASE UNCHANGED vars
  BY <1>5, <1>15 DEF vars
<1> QED
  BY <1>6, <1>7, <1>8, <1>9, <1>10, <1>11, <1>12, <1>13, <1>14, <1>15, NextGroups

LEMMA WorstEntryStep ==
  ASSUME TypeOK, WorstHasEntry, [Next]_vars
  PROVE  WorstHasEntry'
<1> USE BootIsThread, RowType DEF table, local, Goto
<1>1. /\ pc \in [Threads -> {"idle", "update", "scan", "publish", "load", "compare",
                             "commit", "gather", "post", "route", "ASSERT", "NULL"}]
      /\ index \in [Threads -> Rows]
      /\ worst_index \in Rows
  BY DEF TypeOK
<1>2. \A i \in Rows : entry[i] # NoEntry => entry'[i] # NoEntry
  BY EntriesStay
\* A step that neither scans nor publishes keeps it.
<1>3. ASSUME UNCHANGED worst_index,
             \A t \in Threads : pc'[t] = "publish" => pc[t] = "publish" /\ index'[t] = index[t]
      PROVE  WorstHasEntry'
  BY <1>1, <1>2, <1>3 DEF WorstHasEntry
<1>4. ASSUME NEW t \in Threads, Scan(t)
      PROVE  WorstHasEntry'
  <2>1. PICK i \in Rows : IsWorst(i) /\ index' = [index EXCEPT ![t] = i]
    BY <1>4 DEF Scan
  <2>2. i # 1 => entry'[i] # NoEntry
    BY <1>2, <2>1 DEF IsWorst
  <2>3. \A u \in Threads \ {t} : pc'[u] = pc[u] /\ index'[u] = index[u]
    BY <1>1, <1>4, <2>1 DEF Scan
  <2>4. index'[t] = i /\ UNCHANGED worst_index
    BY <1>1, <1>4, <2>1 DEF Scan
  <2> QED BY <1>1, <1>2, <2>2, <2>3, <2>4 DEF WorstHasEntry
<1>5. ASSUME NEW t \in Threads, Publish(t)
      PROVE  WorstHasEntry'
  <2>1. worst_index' = index[t] /\ pc[t] = "publish"
    BY <1>5 DEF Publish
  <2>2. pc'[t] = "load" /\ \A u \in Threads \ {t} : pc'[u] = pc[u] /\ index'[u] = index[u]
    BY <1>1, <1>5 DEF Publish
  <2> QED BY <1>1, <1>2, <2>1, <2>2 DEF WorstHasEntry
<1>6. ASSUME NEW t \in Threads, \/ AssertRegistered(t) \/ UpdateModuleStatus(t) \/ LoadWorstEntry(t)
                                \/ Commit(t) \/ GatherNull(t) \/ Post(t) \/ Route(t)
      PROVE  WorstHasEntry'
  BY <1>1, <1>3, <1>6
     DEF AssertRegistered, UpdateModuleStatus, LoadWorstEntry, Commit, GatherNull, Post, Route
<1>7. ASSUME NEW t \in Threads, Compare(t)
      PROVE  WorstHasEntry'
  <2>1. /\ pc' = [pc EXCEPT ![t] = "idle"] \/ pc' = [pc EXCEPT ![t] = "commit"]
        /\ UNCHANGED <<worst_index, index>>
    BY <1>7 DEF Compare
  <2> QED BY <1>1, <1>3, <2>1
<1>8. ASSUME NEW t \in Threads, NEW field \in {"module", "state", "type", "data"}, Gather(t, field)
      PROVE  WorstHasEntry'
  BY <1>1, <1>3, <1>8 DEF Gather
<1>9. ASSUME NEW t \in Callers, Rebroadcast(t) \/ Feedback(t)
      PROVE  WorstHasEntry'
  BY <1>1, <1>3, <1>9 DEF Rebroadcast, Feedback
<1>10. ASSUME NEW t \in Callers, NEW i \in Rows, FeedbackTo(t, i)
       PROVE  WorstHasEntry'
  BY <1>1, <1>3, <1>10 DEF FeedbackTo
<1>11. ASSUME NEW t \in Callers, NEW r \in Reports, Report(t, r)
       PROVE  WorstHasEntry'
  BY <1>1, <1>3, <1>11 DEF Report, BeginNotify
<1>12. ASSUME NEW t \in TimerThreads, NEW i \in Rows, Expire(t, i)
       PROVE  WorstHasEntry'
  BY <1>1, <1>3, <1>12 DEF Expire, BeginNotify
<1>13. CASE Register
  BY <1>1, <1>3, <1>13 DEF Register, BeginNotify
<1>14. CASE UNCHANGED vars
  BY <1>3, <1>14 DEF vars
<1> QED
  BY <1>4, <1>5, <1>6, <1>7, <1>8, <1>9, <1>10, <1>11, <1>12, <1>13, <1>14, NextGroups

LEMMA NoNullStep ==
  ASSUME TypeOK, EntryInv, [Next]_vars
  PROVE  NoNullEntry'
<1> USE BootIsThread, RowType DEF table, local, Goto
<1>1. BootFirst /\ WorstHasEntry /\ NoNullEntry
  BY DEF EntryInv
<1>2. pc \in [Threads -> {"idle", "update", "scan", "publish", "load", "compare",
                          "commit", "gather", "post", "route", "ASSERT", "NULL"}]
  BY DEF TypeOK
<1>3. ~Halted => \A t \in Threads : pc[t] # "NULL"
  BY DEF Halted
\* A running machine is brought to NULL by a load or by an argument of the broadcast.
<1>4. ASSUME ~Halted, \A t \in Threads : pc'[t] # pc[t] => pc'[t] # "NULL"
      PROVE  NoNullEntry'
  BY <1>3, <1>4 DEF NoNullEntry
<1>5. ASSUME NEW t \in Threads, pc[t] \in {"load", "gather"}, entry[worst_index] = NoEntry
      PROVE  t \in Callers /\ entry[1] = NoEntry
  <2>1. entry[1] = NoEntry
    BY <1>1, <1>5 DEF WorstHasEntry
  <2>2. t # Boot /\ t \notin TimerThreads
    BY <1>1, <1>5, <2>1 DEF BootFirst
  <2> QED BY <2>1, <2>2 DEF Threads
<1>6. ASSUME ~Halted, NEW t \in Threads, LoadWorstEntry(t) \/ GatherNull(t)
      PROVE  NoNullEntry'
  <2>1. UNCHANGED entry /\ pc[t] \in {"load", "gather"}
    BY <1>6 DEF LoadWorstEntry, GatherNull
  <2>2. CASE entry[worst_index] = NoEntry
    <3>1. t \in Callers /\ entry'[1] = NoEntry
      BY <1>5, <2>1, <2>2
    <3>2. \A u \in Threads \ {t} : pc'[u] = pc[u]
      BY <1>2, <1>6 DEF LoadWorstEntry, GatherNull
    <3> QED BY <1>3, <1>6, <3>1, <3>2 DEF NoNullEntry
  <2>3. CASE entry[worst_index] # NoEntry
    BY <1>2, <1>4, <1>6, <2>3 DEF LoadWorstEntry, GatherNull
  <2> QED BY <2>2, <2>3
<1>7. ASSUME ~Halted, NEW t \in Threads, \/ AssertRegistered(t) \/ UpdateModuleStatus(t) \/ Scan(t)
                                         \/ Publish(t) \/ Commit(t) \/ Post(t) \/ Route(t)
      PROVE  NoNullEntry'
  BY <1>2, <1>4, <1>7 DEF AssertRegistered, UpdateModuleStatus, Scan, Publish, Commit, Post, Route
<1>8. ASSUME ~Halted, NEW t \in Threads, Compare(t)
      PROVE  NoNullEntry'
  <2>1. pc' = [pc EXCEPT ![t] = "idle"] \/ pc' = [pc EXCEPT ![t] = "commit"]
    BY <1>8 DEF Compare
  <2> QED BY <1>2, <1>4, <1>8, <2>1
<1>9. ASSUME ~Halted, NEW t \in Threads, NEW field \in {"module", "state", "type", "data"},
             Gather(t, field)
      PROVE  NoNullEntry'
  BY <1>2, <1>4, <1>9 DEF Gather
<1>10. ASSUME ~Halted, NEW t \in Callers, Rebroadcast(t) \/ Feedback(t)
       PROVE  NoNullEntry'
  BY <1>2, <1>4, <1>10 DEF Rebroadcast, Feedback
<1>11. ASSUME ~Halted, NEW t \in Callers, NEW i \in Rows, FeedbackTo(t, i)
       PROVE  NoNullEntry'
  BY <1>2, <1>4, <1>11 DEF FeedbackTo
<1>12. ASSUME ~Halted, NEW t \in Callers, NEW r \in Reports, Report(t, r)
       PROVE  NoNullEntry'
  BY <1>2, <1>4, <1>12 DEF Report, BeginNotify
<1>13. ASSUME ~Halted, NEW t \in TimerThreads, NEW i \in Rows, Expire(t, i)
       PROVE  NoNullEntry'
  BY <1>2, <1>4, <1>13 DEF Expire, BeginNotify
<1>14. ASSUME ~Halted, Register
       PROVE  NoNullEntry'
  BY <1>2, <1>4, <1>14 DEF Register, BeginNotify
<1>15. CASE UNCHANGED vars
  BY <1>1, <1>15 DEF vars, NoNullEntry
<1> QED
  BY <1>6, <1>7, <1>8, <1>9, <1>10, <1>11, <1>12, <1>13, <1>14, <1>15, NextGroups

\* The init thread and the timers never dereference a NULL module_state_entry, nor does
\* anybody once the first module has its state, though rows are registered before they
\* have one and nothing checks.
THEOREM NoNullDereference == Spec => []NoNullEntry
<1>1. TypeOK /\ TimerInv /\ EntryInv /\ [Next]_vars => EntryInv'
  BY BootStep, WorstEntryStep, NoNullStep DEF EntryInv
<1>2. EntryInv => NoNullEntry
  BY DEF EntryInv
<1> QED BY <1>1, <1>2, TypeCorrect, TimerInit, TimerStep, EntryInit, PTL DEF Spec
=============================================================================

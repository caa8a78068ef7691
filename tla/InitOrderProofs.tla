---------------------------- MODULE InitOrderProofs ----------------------------
(***************************************************************************)
(* The start of the components, for every set of builds: no status is      *)
(* reported for a module that is not registered, and none is missed        *)
(* between the subjects, which are alive all the time, and the init        *)
(* functions.                                                              *)
(***************************************************************************)
EXTENDS Components, TLAPS

Places == 1..7
Built(i) == Boot!InitFunctions[i].name \in built

\* The init function i has done its first m stages.
Begun(i, m) == Built(i) /\ (i \notin todo \/ (i = Boot!First /\ stage > m))

\* The init function that looks at a polled subject.
Home(s) == CASE s = "print status" -> 4 [] s = "scanner" -> 5 [] OTHER -> 7

\* The init functions run in their order, ...
Ordered ==
  /\ todo \subseteq {i \in Places : Built(i)}
  /\ \A i \in Places : Built(i) /\ i \notin todo => \A j \in todo : i < j

\* ... and each registers its modules and attaches its observers on its way.
Recorded ==
  /\ \A m : m \in registered <=> \E i \in Places : Begun(i, 1) /\ m \in Boot!InitFunctions[i].registers
  /\ \A s : s # "wsd scan" => (s \in attached <=> \E i \in Places : Begun(i, 2) /\ s \in Boot!InitFunctions[i].attaches)

\* The WSD scans are observed for others.
WsdObserved == "wsd scan" \in attached => "scan" \in registered \/ wsd_early

\* What is told of a subject is its status, once its init function has run.  Of the
\* scanner only "initializing" is told, and never of one that has stopped it.
Quiet(s) == s \notin notifying /\ s \notin crossed
Noticed ==
  /\ \A s \in Boot!Polled \ {"scanner"} :
       Quiet(s) /\ Built(Home(s)) /\ Home(s) \notin todo => told[s] = status[s]
  /\ Quiet("scanner") /\ told["scanner"] = "active" => status["scanner"] = "active"
  /\ told["scanner"] = "active" => "scanner" \in attached

\* What an init function has read and not told yet is true of a quiet subject.
ReadIsTrue ==
  \A s \in Boot!Polled : Quiet(s) /\ stage = 4 /\ Home(s) \in todo /\ Boot!First = Home(s) =>
    IF s = "scanner" THEN polled[s] = "active" => status[s] = "active" ELSE polled[s] = status[s]

OrderInv == Boot!TypeOK /\ Ordered /\ Recorded /\ Boot!RegisteredFirst /\ Noticed /\ ReadIsTrue
-----------------------------------------------------------------------------
(* The init functions.                                                      *)

LEMMA SevenPlaces ==
  ASSUME NEW i \in Places
  PROVE  i = 1 \/ i = 2 \/ i = 3 \/ i = 4 \/ i = 5 \/ i = 6 \/ i = 7
BY DEF Places

LEMMA PlaceNames == DOMAIN Boot!InitFunctions = Places /\ Boot!InitFunctions[1].name = "platform"
<1>1. DOMAIN Boot!InitFunctions = Places
  BY DEF Boot!InitFunctions, Places
<1>2. Boot!InitFunctions[1].name = "platform"
  BY DEF Boot!InitFunctions, Boot!PlatformInit
<1> QED BY <1>1, <1>2

LEMMA Registers ==
  /\ Boot!InitFunctions[1].registers = {"system", "platform"}
  /\ Boot!InitFunctions[2].registers = {"consumables"}
  /\ Boot!InitFunctions[3].registers = {"copy", "idcopy", "contcopy", "contscan"}
  /\ Boot!InitFunctions[4].registers = {"print"}
  /\ Boot!InitFunctions[5].registers = {"scan"}
  /\ Boot!InitFunctions[6].registers = {}
  /\ Boot!InitFunctions[7].registers = {"wireless", "wps"}
BY DEF Boot!InitFunctions, Boot!PlatformInit, Boot!ConsumablesInit, Boot!CopyInit,
  Boot!PrintInit, Boot!ScanInit, Boot!NetworkInit, Boot!WirelessInit

LEMMA Attaches ==
  /\ Boot!InitFunctions[1].attaches = {"platform var", "string manager", "burn flash"}
  /\ Boot!InitFunctions[2].attaches = {"consumable"}
  /\ Boot!InitFunctions[3].attaches = {"job manager", "copy application", "page end"}
  /\ Boot!InitFunctions[4].attaches = {"print status", "media prompt"}
  /\ Boot!InitFunctions[5].attaches = {"scanner", "soap scan"}
  /\ Boot!InitFunctions[6].attaches = {"interface"}
  /\ Boot!InitFunctions[7].attaches = {"wps", "station", "uap"}
BY DEF Boot!InitFunctions, Boot!PlatformInit, Boot!ConsumablesInit, Boot!CopyInit,
  Boot!PrintInit, Boot!ScanInit, Boot!NetworkInit, Boot!WirelessInit

LEMMA Polls ==
  /\ Boot!InitFunctions[1].polls = {} /\ Boot!InitFunctions[2].polls = {}
  /\ Boot!InitFunctions[3].polls = {} /\ Boot!InitFunctions[6].polls = {}
  /\ Boot!InitFunctions[4].polls = {"print status"}
  /\ Boot!InitFunctions[5].polls = {"scanner"}
  /\ Boot!InitFunctions[7].polls = {"station"}
BY DEF Boot!InitFunctions, Boot!PlatformInit, Boot!ConsumablesInit, Boot!CopyInit,
  Boot!PrintInit, Boot!ScanInit, Boot!NetworkInit, Boot!WirelessInit

LEMMA StageNames ==
  /\ Len(Boot!Stages) = 4 /\ DOMAIN Boot!Stages = 1..4
  /\ Boot!Stages[1] = "register" /\ Boot!Stages[2] = "attach" /\ Boot!Stages[3] = "poll" /\ Boot!Stages[4] = "tell"
BY DEF Boot!Stages

\* An init function registers the module each of its observers reports for.
LEMMA RegistersReported ==
  ASSUME NEW i \in Places, NEW s \in Boot!InitFunctions[i].attaches
  PROVE  Boot!ModuleOf(s) = "none" \/ Boot!ModuleOf(s) \in Boot!InitFunctions[i].registers
<1> USE Registers, Attaches DEF Boot!ModuleOf
<1>1. CASE i = 1
  BY <1>1
<1>2. CASE i = 2
  BY <1>2
<1>3. CASE i = 3
  BY <1>3
<1>4. CASE i = 4
  BY <1>4
<1>5. CASE i = 5
  BY <1>5
<1>6. CASE i = 6
  BY <1>6
<1>7. CASE i = 7
  BY <1>7
<1> QED BY <1>1, <1>2, <1>3, <1>4, <1>5, <1>6, <1>7, SevenPlaces

\* No init function attaches the observer of WSD scans.
LEMMA WsdIsOthers ==
  ASSUME NEW i \in Places
  PROVE  "wsd scan" \notin Boot!InitFunctions[i].attaches
<1> USE Attaches
<1>1. CASE i = 1
  BY <1>1
<1>2. CASE i = 2
  BY <1>2
<1>3. CASE i = 3
  BY <1>3
<1>4. CASE i = 4
  BY <1>4
<1>5. CASE i = 5
  BY <1>5
<1>6. CASE i = 6
  BY <1>6
<1>7. CASE i = 7
  BY <1>7
<1> QED BY <1>1, <1>2, <1>3, <1>4, <1>5, <1>6, <1>7, SevenPlaces

\* A polled subject is looked at, observed and registered for by one init function.
LEMMA PollsAtHome ==
  ASSUME NEW i \in Places, NEW s \in Boot!Polled
  PROVE  /\ s \in Boot!InitFunctions[i].polls <=> i = Home(s)
         /\ s \in Boot!InitFunctions[i].attaches <=> i = Home(s)
         /\ Boot!ModuleOf(s) \in Boot!InitFunctions[i].registers => i = Home(s)
<1>1. CASE s = "print status"
  <2>1. Home(s) = 4 /\ Boot!ModuleOf(s) = "print"
    BY <1>1 DEF Home, Boot!ModuleOf
  <2>2. s \in Boot!InitFunctions[i].polls <=> i = Home(s)
    BY <1>1, <2>1, SevenPlaces, Polls, ZenonT(60)
  <2>3. s \in Boot!InitFunctions[i].attaches <=> i = Home(s)
    BY <1>1, <2>1, SevenPlaces, Attaches, ZenonT(60)
  <2>4. Boot!ModuleOf(s) \in Boot!InitFunctions[i].registers => i = Home(s)
    BY <1>1, <2>1, SevenPlaces, Registers, ZenonT(60)
  <2> QED BY <2>2, <2>3, <2>4
<1>2. CASE s = "scanner"
  <2>1. Home(s) = 5 /\ Boot!ModuleOf(s) = "scan"
    BY <1>2 DEF Home, Boot!ModuleOf
  <2>2. s \in Boot!InitFunctions[i].polls <=> i = Home(s)
    BY <1>2, <2>1, SevenPlaces, Polls, ZenonT(60)
  <2>3. s \in Boot!InitFunctions[i].attaches <=> i = Home(s)
    BY <1>2, <2>1, SevenPlaces, Attaches, ZenonT(60)
  <2>4. Boot!ModuleOf(s) \in Boot!InitFunctions[i].registers => i = Home(s)
    BY <1>2, <2>1, SevenPlaces, Registers, ZenonT(60)
  <2> QED BY <2>2, <2>3, <2>4
<1>3. CASE s = "station"
  <2>1. Home(s) = 7 /\ Boot!ModuleOf(s) = "none"
    BY <1>3 DEF Home, Boot!ModuleOf
  <2>2. s \in Boot!InitFunctions[i].polls <=> i = Home(s)
    BY <1>3, <2>1, SevenPlaces, Polls, ZenonT(60)
  <2>3. s \in Boot!InitFunctions[i].attaches <=> i = Home(s)
    BY <1>3, <2>1, SevenPlaces, Attaches, ZenonT(60)
  <2>4. Boot!ModuleOf(s) \in Boot!InitFunctions[i].registers => i = Home(s)
    BY <1>3, <2>1, SevenPlaces, Registers, ZenonT(60)
  <2> QED BY <2>2, <2>3, <2>4
<1> QED BY <1>1, <1>2, <1>3 DEF Boot!Polled

LEMMA HomePlaces ==
  /\ \A s \in Boot!Polled : Home(s) \in Places
  /\ "scanner" \in Boot!Polled /\ "print status" \in Boot!Polled
  /\ Boot!ModuleOf("scanner") = "scan" /\ Boot!ModuleOf("print status") = "print"
BY DEF Home, Boot!Polled, Places, Boot!ModuleOf

LEMMA PolledOnly ==
  ASSUME NEW i \in Places
  PROVE  Boot!InitFunctions[i].polls \subseteq Boot!Polled
BY Polls, SevenPlaces DEF Boot!Polled

\* The platform's is the first; it registers the system module.
LEMMA CopyIsThird ==
  /\ \A i \in Places : "copy" \in Boot!InitFunctions[i].registers => i = 3
  /\ "system" \in Boot!InitFunctions[1].registers
BY Registers, SevenPlaces

LEMMA FirstIsLeast ==
  ASSUME todo \subseteq Places, todo # {}
  PROVE  Boot!First \in todo /\ \A j \in todo : Boot!First <= j
<1>1. \E i \in todo : \A j \in todo : i <= j
  <2> SUFFICES ASSUME \A i \in todo : \E j \in todo : j < i PROVE FALSE
    BY DEF Places
  <2> USE SevenPlaces
  <2>1. 1 \notin todo /\ 2 \notin todo /\ 3 \notin todo
    BY DEF Places
  <2>2. 4 \notin todo /\ 5 \notin todo
    BY <2>1 DEF Places
  <2>3. 6 \notin todo /\ 7 \notin todo
    BY <2>1, <2>2 DEF Places
  <2> QED BY <2>1, <2>2, <2>3 DEF Places
<1> QED BY <1>1 DEF Boot!First

\* What a stage changes: the init function has done one more, and the last is over.
LEMMA Advances ==
  ASSUME stage \in 1..4, Ordered, todo # {}, Boot!Advance, built' = built
  PROVE  /\ Ordered' /\ stage' \in 1..4
         /\ Boot!First \in todo /\ Boot!First \in Places /\ Built(Boot!First)
         /\ stage < 4 => stage' = stage + 1 /\ todo' = todo
         /\ stage = 4 => stage' = 1 /\ todo' = todo \ {Boot!First}
         /\ \A i \in Places, m \in 1..3 : Begun(i, m)' <=> Begun(i, m) \/ (i = Boot!First /\ stage = m)
<1>1. Boot!First \in todo /\ Boot!First \in Places /\ Built(Boot!First) /\ \A j \in todo : Boot!First <= j
  BY FirstIsLeast DEF Ordered
<1>2. /\ stage < 4 => stage' = stage + 1 /\ todo' = todo
      /\ stage = 4 => stage' = 1 /\ todo' = todo \ {Boot!First}
  BY StageNames DEF Boot!Advance
<1>3. Ordered'
  <2>1. todo' = todo \/ todo' = todo \ {Boot!First}
    BY <1>2
  <2>2. todo' \subseteq {i \in Places : Built(i)'}
    BY <2>1 DEF Ordered, Built
  <2>3. ASSUME NEW i \in Places, Built(i)', i \notin todo', NEW j \in todo' PROVE i < j
    <3>1. CASE i \notin todo
      BY <2>1, <2>3, <3>1 DEF Ordered, Built
    <3>2. CASE i \in todo
      <4>1. i = Boot!First /\ j \in todo /\ j # Boot!First /\ j \in Places
        BY <2>1, <2>3, <3>2 DEF Ordered
      <4> QED BY <1>1, <4>1 DEF Places
    <3> QED BY <3>1, <3>2
  <2> QED BY <2>2, <2>3 DEF Ordered
<1>4. ASSUME NEW i \in Places, NEW m \in 1..3
      PROVE  Begun(i, m)' <=> Begun(i, m) \/ (i = Boot!First /\ stage = m)
  <2>1. CASE stage < 4
    <3>1. /\ Begun(i, m)' <=> Built(i) /\ (i \notin todo \/ (i = Boot!First /\ stage' > m))
          /\ stage' > m <=> stage > m \/ stage = m
      BY <1>2, <2>1 DEF Begun, Boot!First, Built
    <3>2. CASE i = Boot!First
      BY <1>1, <3>1, <3>2 DEF Begun
    <3>3. CASE i # Boot!First
      BY <3>1, <3>3 DEF Begun
    <3> QED BY <3>2, <3>3
  <2>2. CASE stage = 4
    <3>1. Begun(i, m)' <=> Built(i) /\ i \notin todo'
      <4>1. ~(stage' > m) /\ (Built(i)' <=> Built(i))
        BY <1>2, <2>2 DEF Built
      <4> QED BY <4>1 DEF Begun
    <3> QED BY <1>1, <1>2, <2>2, <3>1 DEF Begun
  <2> QED BY <2>1, <2>2
<1> QED BY <1>1, <1>2, <1>3, <1>4

\* A stage that registers or attaches nothing is not one of those that do.
LEMMA StillRecorded ==
  ASSUME stage \in 3..4, Ordered, todo # {}, Boot!Advance, built' = built, Recorded,
         registered' = registered, attached' = attached
  PROVE  Recorded'
<1>1. \A i \in Places : (Begun(i, 1)' <=> Begun(i, 1)) /\ (Begun(i, 2)' <=> Begun(i, 2))
  BY Advances
<1> QED BY <1>1 DEF Recorded
-----------------------------------------------------------------------------
(* Whoever reports a status, its module is registered.                      *)

LEMMA ObserversReport ==
  ASSUME stage \in 1..4, Ordered, Recorded, NEW s \in attached, s # "wsd scan",
         Boot!ModuleOf(s) # "none"
  PROVE  Boot!ModuleOf(s) \in registered
<1>1. PICK i \in Places : Begun(i, 2) /\ s \in Boot!InitFunctions[i].attaches
  BY DEF Recorded
<1>2. Begun(i, 1)
  <2>1. stage > 2 => stage > 1
    <3>1. stage \in 1..4
      OBVIOUS
    <3> QED BY ONLY <3>1
  <2> QED BY <1>1, <2>1 DEF Begun
<1> QED BY <1>1, <1>2, RegistersReported DEF Recorded
LEMMA CopyFindsSystem ==
  ASSUME stage \in 1..4, Ordered, Recorded, "platform" \in built, "copy" \in registered
  PROVE  "system" \in registered
<1>1. Begun(3, 1)
  BY CopyIsThird DEF Recorded
<1>2. 1 \in Places /\ 3 \in Places /\ Built(1)
  BY PlaceNames DEF Places, Built
<1>3. 1 \notin todo
  <2> SUFFICES ASSUME 1 \in todo PROVE FALSE
    OBVIOUS
  <2>1. Boot!First \in todo /\ Boot!First <= 1 /\ Boot!First \in Places
    BY FirstIsLeast DEF Ordered
  <2>2. Boot!First # 3
    BY <2>1
  <2>3. 3 \notin todo /\ Built(3)
    BY <1>1, <2>2 DEF Begun
  <2> QED BY <1>2, <2>3 DEF Ordered
<1>4. Begun(1, 1)
  BY <1>2, <1>3 DEF Begun
<1> QED BY <1>2, <1>4, CopyIsThird DEF Recorded

LEMMA PolledIsNotWsd ==
  ASSUME NEW s \in Boot!Polled
  PROVE  s # "wsd scan"
BY DEF Boot!Polled

\* A subject is observed from its init function's second stage on.
LEMMA HomeIsAttached ==
  ASSUME Ordered, Recorded, NEW s \in Boot!Polled
  PROVE  s \in attached <=> Begun(Home(s), 2)
<1>1. \A i \in Places : s \in Boot!InitFunctions[i].attaches <=> i = Home(s)
  BY PollsAtHome
<1>2. Home(s) \in Places
  BY HomePlaces
<1>3. s # "wsd scan"
  BY PolledIsNotWsd
<1> QED BY <1>1, <1>2, <1>3 DEF Recorded

LEMMA Typed ==
  ASSUME Boot!TypeOK
  PROVE  /\ stage \in 1..4 /\ built \in Builds
         /\ status \in [Boot!Polled -> {"rest", "active"}]
         /\ notifying \subseteq Boot!Polled /\ crossed \subseteq Boot!Polled
         /\ polled \in [Boot!Polled -> {"nothing", "rest", "active"}]
         /\ told \in [Boot!Polled -> {"nothing", "rest", "active"}]
         /\ {scan_start, wsd_early, stopped} \subseteq BOOLEAN
BY StageNames DEF Boot!TypeOK

\* What keeps its type in every step.
LEMMA Retyped ==
  ASSUME Boot!TypeOK, Ordered', stage' \in 1..4, built' = built,
         status' \in [Boot!Polled -> {"rest", "active"}],
         notifying' \subseteq Boot!Polled, crossed' \subseteq Boot!Polled,
         polled' \in [Boot!Polled -> {"nothing", "rest", "active"}],
         told' \in [Boot!Polled -> {"nothing", "rest", "active"}],
         {scan_start', wsd_early', stopped'} \subseteq BOOLEAN
  PROVE  Boot!TypeOK'
<1>1. todo' \subseteq DOMAIN Boot!InitFunctions /\ DOMAIN Boot!Stages = 1..4
  BY PlaceNames, StageNames DEF Ordered
<1> QED BY <1>1, Typed DEF Boot!TypeOK

\* A component that reports for a module that is registered does not stop the machine.
LEMMA ReportsRegistered ==
  ASSUME Boot!RegisteredFirst, NEW m, Boot!ReportsFor(m), m \in registered \/ "platform" \notin built \/ wsd_early,
         built' = built, wsd_early' = wsd_early
  PROVE  Boot!RegisteredFirst'
BY DEF Boot!RegisteredFirst, Boot!ReportsFor
-----------------------------------------------------------------------------
(* The steps of the init functions.                                         *)

LEMMA RegisterStep ==
  ASSUME OrderInv, Boot!Register
  PROVE  OrderInv'
<1>1. /\ todo # {} /\ stage = 1 /\ Boot!Advance
      /\ registered' = registered \cup Boot!Current.registers
      /\ told' = [s \in Boot!Polled |-> IF Boot!ModuleOf(s) \in Boot!Current.registers THEN "rest" ELSE told[s]]
      /\ UNCHANGED <<attached, Boot!subject, polled, scan_start, crossed, built, wsd_early,
                     stopped>>
  BY StageNames, Typed DEF Boot!Register, Boot!At, OrderInv, Boot!outside
<1>2. /\ Ordered' /\ stage' = 2 /\ todo' = todo
      /\ Boot!First \in todo /\ Boot!First \in Places /\ Built(Boot!First)
      /\ \A i \in Places : Begun(i, 1)' <=> Begun(i, 1) \/ i = Boot!First
      /\ \A i \in Places : Begun(i, 2)' <=> Begun(i, 2)
  BY <1>1, Advances, Typed DEF OrderInv
<1>3. Recorded'
  BY <1>1, <1>2 DEF OrderInv, Recorded, Boot!Current
<1>4. \A s \in Boot!Polled : told'[s] = told[s] \/ (Home(s) = Boot!First /\ told'[s] = "rest")
  BY <1>1, <1>2, PollsAtHome DEF Boot!Current
<1>5. Noticed'
  BY <1>1, <1>2, <1>4, HomePlaces DEF OrderInv, Noticed, Quiet, Boot!subject, Built
<1>6. ReadIsTrue' /\ Boot!RegisteredFirst'
  BY <1>1, <1>2 DEF OrderInv, ReadIsTrue, Boot!RegisteredFirst
<1>7. Boot!TypeOK'
  BY <1>1, <1>2, Typed, Retyped DEF OrderInv, Boot!subject
<1> QED BY <1>2, <1>3, <1>5, <1>6, <1>7 DEF OrderInv

LEMMA AttachStep ==
  ASSUME OrderInv, Boot!Attach
  PROVE  OrderInv'
<1>1. /\ todo # {} /\ stage = 2 /\ Boot!Advance
      /\ attached' = attached \cup Boot!Current.attaches
      /\ UNCHANGED <<registered, Boot!subject, polled, told, scan_start, crossed, built, wsd_early,
                     stopped>>
  BY StageNames, Typed DEF Boot!Attach, Boot!At, OrderInv, Boot!outside
<1>2. /\ Ordered' /\ stage' = 3 /\ todo' = todo
      /\ Boot!First \in todo /\ Boot!First \in Places /\ Built(Boot!First)
      /\ \A i \in Places : Begun(i, 1)' <=> Begun(i, 1)
      /\ \A i \in Places : Begun(i, 2)' <=> Begun(i, 2) \/ i = Boot!First
  BY <1>1, Advances, Typed DEF OrderInv
<1>3. Recorded'
  BY <1>1, <1>2 DEF OrderInv, Recorded, Boot!Current
<1>4. Noticed'
  BY <1>1, <1>2 DEF OrderInv, Noticed, Quiet, Boot!subject, Built
<1>5. ReadIsTrue' /\ Boot!RegisteredFirst'
  BY <1>1, <1>2 DEF OrderInv, ReadIsTrue, Boot!RegisteredFirst
<1>6. Boot!TypeOK'
  BY <1>1, <1>2, Typed, Retyped DEF OrderInv, Boot!subject
<1> QED BY <1>2, <1>3, <1>4, <1>5, <1>6 DEF OrderInv

LEMMA PollStep ==
  ASSUME OrderInv, Boot!Poll
  PROVE  OrderInv'
<1>1. /\ todo # {} /\ stage = 3 /\ Boot!Advance
      /\ polled' = [s \in Boot!Polled |-> IF s \in Boot!Current.polls THEN status[s] ELSE polled[s]]
      /\ UNCHANGED <<registered, attached, Boot!subject, told, scan_start, crossed, built, wsd_early,
                     stopped>>
  BY StageNames, Typed DEF Boot!Poll, Boot!At, OrderInv, Boot!outside
<1>2. /\ Ordered' /\ stage' = 4 /\ todo' = todo /\ Boot!First' = Boot!First
      /\ Boot!First \in todo /\ Boot!First \in Places /\ Built(Boot!First)
  BY <1>1, Advances, Typed DEF OrderInv, Boot!First
<1>3. Recorded'
  BY <1>1, StillRecorded DEF OrderInv
<1>4. Noticed'
  BY <1>1, <1>2 DEF OrderInv, Noticed, Quiet, Boot!subject, Built
<1>5. ReadIsTrue'
  <2>1. \A s \in Boot!Polled : Home(s) = Boot!First => polled'[s] = status[s]
    BY <1>1, <1>2, PollsAtHome DEF Boot!Current
  <2> QED BY <1>1, <1>2, <2>1 DEF ReadIsTrue, Boot!subject
<1>6. Boot!RegisteredFirst'
  BY <1>1 DEF OrderInv, Boot!RegisteredFirst
<1>7. Boot!TypeOK'
  BY <1>1, <1>2, Typed, Retyped DEF OrderInv, Boot!subject
<1> QED BY <1>2, <1>3, <1>4, <1>5, <1>6, <1>7 DEF OrderInv
LEMMA TellStep ==
  ASSUME OrderInv, Boot!Tell
  PROVE  OrderInv'
<1>1. /\ todo # {} /\ stage = 4 /\ Boot!Advance
      /\ told' = [s \in Boot!Polled |-> IF Boot!Tells(s) THEN polled[s] ELSE told[s]]
      /\ scan_start' = (scan_start \/ Boot!Tells("scanner"))
      /\ UNCHANGED <<registered, attached, Boot!subject, polled, crossed, built, wsd_early>>
  <2>1. Boot!At("tell") /\ stage \in 1..4
    BY Typed DEF Boot!Tell, OrderInv
  <2>2. todo # {} /\ stage = 4
    BY <2>1, StageNames DEF Boot!At
  <2> QED BY <2>2 DEF Boot!Tell, Boot!outside
<1>2. /\ Ordered' /\ stage' = 1 /\ todo' = todo \ {Boot!First}
      /\ Boot!First \in todo /\ Boot!First \in Places /\ Built(Boot!First)
  BY <1>1, Advances, Typed DEF OrderInv
<1>3. Recorded'
  BY <1>1, StillRecorded DEF OrderInv
<1>4. \A s \in Boot!Polled : s \in Boot!Current.polls <=> Boot!First = Home(s)
  BY <1>2, PollsAtHome DEF Boot!Current
<1>5. \A i \in Places : i = Boot!First => Begun(i, 1) /\ Begun(i, 2)
  BY <1>1, <1>2 DEF Begun
<1>6. Noticed'
  <2>1. ASSUME NEW s \in Boot!Polled \ {"scanner"}, Quiet(s)', Built(Home(s))', Home(s) \notin todo'
        PROVE  told'[s] = status'[s]
    <3>1. Quiet(s) /\ Built(Home(s)) /\ status' = status
      BY <1>1, <2>1 DEF Quiet, Boot!subject, Built
    <3>2. CASE Home(s) = Boot!First
      <4>1. Boot!Tells(s) /\ told'[s] = polled[s]
        BY <1>1, <1>4, <3>2 DEF Boot!Tells
      <4> QED BY <1>1, <1>2, <3>1, <3>2, <4>1 DEF OrderInv, ReadIsTrue
    <3>3. CASE Home(s) # Boot!First
      <4>1. told'[s] = told[s] /\ Home(s) \notin todo
        BY <1>1, <1>2, <1>4, <2>1, <3>3 DEF Boot!Tells
      <4> QED BY <3>1, <4>1 DEF OrderInv, Noticed
    <3> QED BY <3>2, <3>3
  <2>2. ASSUME told'["scanner"] = "active"
        PROVE  /\ "scanner" \in attached'
               /\ Quiet("scanner")' => status'["scanner"] = "active"
    <3>1. CASE Boot!Tells("scanner")
      <4>1. Boot!First = Home("scanner") /\ polled["scanner"] = "active"
        BY <1>4, <3>1, HomePlaces DEF Boot!Tells
      <4>2. "scanner" \in attached
        BY <1>2, <1>5, <4>1, HomeIsAttached, HomePlaces DEF OrderInv
      <4> QED BY <1>1, <1>2, <4>1, <4>2, HomePlaces DEF OrderInv, ReadIsTrue, Quiet,
        Boot!subject
    <3>2. CASE ~Boot!Tells("scanner")
      <4>1. told["scanner"] = "active"
        BY <1>1, <2>2, <3>2, HomePlaces
      <4> QED BY <1>1, <4>1 DEF OrderInv, Noticed, Quiet, Boot!subject
    <3> QED BY <3>1, <3>2
  <2> QED BY <2>1, <2>2 DEF Noticed
<1>7. ReadIsTrue'
  BY <1>2 DEF ReadIsTrue
<1>8. Boot!RegisteredFirst' /\ stopped' \in BOOLEAN
  <2>1. ASSUME NEW s \in {"print status", "scanner"}, Boot!Tells(s) PROVE Boot!ModuleOf(s) \in registered
    <3>1. Boot!First = Home(s) /\ s \in Boot!Polled /\ Boot!ModuleOf(s) # "none"
      BY <1>4, <2>1, HomePlaces DEF Boot!Tells
    <3>2. s \in attached /\ s # "wsd scan"
      BY <1>2, <1>5, <3>1, HomeIsAttached, PolledIsNotWsd DEF OrderInv
    <3> QED BY <3>1, <3>2, ObserversReport, Typed DEF OrderInv
  <2>2. CASE Boot!Tells("print status")
    BY <1>1, <2>1, <2>2, HomePlaces, ReportsRegistered DEF Boot!Tell, OrderInv, Boot!ReportsFor
  <2>3. CASE ~Boot!Tells("print status") /\ Boot!Tells("scanner")
    BY <1>1, <2>1, <2>3, HomePlaces, ReportsRegistered DEF Boot!Tell, OrderInv, Boot!ReportsFor
  <2>4. CASE ~Boot!Tells("print status") /\ ~Boot!Tells("scanner")
    BY <1>1, <2>4, Typed DEF Boot!Tell, OrderInv, Boot!RegisteredFirst
  <2> QED BY <2>2, <2>3, <2>4
<1>9. Boot!TypeOK'
  <2>1. scan_start' \in BOOLEAN
    BY <1>1
  <2> QED BY <1>1, <1>2, <1>8, <2>1, Typed, Retyped DEF OrderInv, Boot!subject
<1> QED BY <1>2, <1>3, <1>6, <1>7, <1>8, <1>9 DEF OrderInv
-----------------------------------------------------------------------------
(* The steps of the subjects.                                               *)

\* Until the init functions go on, what they have done stays.
LEMMA StaysRecorded ==
  ASSUME Ordered, Recorded, UNCHANGED <<todo, stage, registered, attached, built>>
  PROVE  Ordered' /\ Recorded'
BY DEF Ordered, Recorded, Begun, Built, Boot!First

LEMMA ChangeStep ==
  ASSUME OrderInv, NEW s \in Boot!Polled, Boot!Change(s)
  PROVE  OrderInv'
<1>1. /\ status' = [status EXCEPT ![s] = IF @ = "rest" THEN "active" ELSE "rest"]
      /\ notifying' = notifying \cup {s}
      /\ UNCHANGED <<todo, stage, registered, attached, polled, told, scan_start, crossed, built,
                     wsd_early, stopped>>
  BY DEF Boot!Change, Boot!progress, Boot!outside
<1>2. /\ \A u \in Boot!Polled : Quiet(u)' => Quiet(u) /\ status'[u] = status[u]
      /\ Boot!First' = Boot!First
  BY <1>1, Typed DEF OrderInv, Quiet, Boot!First
<1>3. Noticed' /\ ReadIsTrue'
  BY <1>1, <1>2, HomePlaces DEF OrderInv, Noticed, ReadIsTrue, Built
<1>4. Ordered' /\ Recorded' /\ Boot!RegisteredFirst'
  BY <1>1, StaysRecorded DEF OrderInv, Boot!RegisteredFirst
<1>5. Boot!TypeOK'
  BY <1>1, <1>4, Typed, Retyped DEF OrderInv
<1> QED BY <1>3, <1>4, <1>5 DEF OrderInv

LEMMA CallBackStep ==
  ASSUME OrderInv, NEW s \in Boot!Polled, Boot!CallBack(s)
  PROVE  OrderInv'
<1>1. /\ notifying' = notifying \ {s}
      /\ UNCHANGED <<todo, stage, registered, attached, status, polled, built, wsd_early>>
      /\ Boot!First' = Boot!First
  BY DEF Boot!CallBack, Boot!progress, Boot!outside, Boot!First
<1>2. Ordered' /\ Recorded'
  BY <1>1, StaysRecorded DEF OrderInv
<1>3. CASE ~(s \in attached /\ Boot!Passes(s))
  <2>1. UNCHANGED <<told, scan_start, crossed, stopped>>
    BY <1>3 DEF Boot!CallBack
  <2>2. \A u \in Boot!Polled \ {s} : Quiet(u)' => Quiet(u)
    BY <1>1, <2>1 DEF Quiet
  <2>3. s \in attached => s = "scanner" /\ status[s] = "active"
    BY <1>3 DEF Boot!Passes
  <2>4. Begun(Home(s), 2) => s = "scanner" /\ status[s] = "active"
    BY <2>3, HomeIsAttached DEF OrderInv
  <2>5. Noticed'
    <3>1. Built(Home(s)) /\ Home(s) \notin todo => Begun(Home(s), 2)
      BY DEF Begun
    <3>2. ASSUME NEW u \in Boot!Polled \ {"scanner"}, Quiet(u)', Built(Home(u))', Home(u) \notin todo'
          PROVE  told'[u] = status'[u]
      <4>1. u # s
        BY <1>1, <2>4, <3>1, <3>2 DEF Built
      <4> QED BY <1>1, <2>1, <2>2, <3>2, <4>1 DEF OrderInv, Noticed, Built
    <3>3. Quiet("scanner")' /\ told'["scanner"] = "active" => status'["scanner"] = "active"
      <4>1. CASE s = "scanner"
        BY <1>1, <2>1, <2>3, <4>1 DEF OrderInv, Noticed
      <4>2. CASE s # "scanner"
        BY <1>1, <2>1, <2>2, <4>2, HomePlaces DEF OrderInv, Noticed
      <4> QED BY <4>1, <4>2
    <3>4. told'["scanner"] = "active" => "scanner" \in attached'
      BY <1>1, <2>1 DEF OrderInv, Noticed
    <3> QED BY <3>2, <3>3, <3>4 DEF Noticed
  <2>6. ReadIsTrue'
    <3>1. stage = 4 /\ Home(s) \in todo /\ Boot!First = Home(s) => Begun(Home(s), 2)
      BY DEF OrderInv, Ordered, Begun
    <3> QED BY <1>1, <2>1, <2>2, <2>4, <3>1 DEF OrderInv, ReadIsTrue
  <2>7. Boot!RegisteredFirst'
    BY <1>1, <2>1 DEF OrderInv, Boot!RegisteredFirst
  <2>8. Boot!TypeOK'
    BY <1>1, <1>2, <2>1, Typed, Retyped DEF OrderInv
  <2> QED BY <1>2, <2>5, <2>6, <2>7, <2>8 DEF OrderInv
<1>4. CASE s \in attached /\ Boot!Passes(s)
  <2>1. /\ told' = [told EXCEPT ![s] = status[s]]
        /\ scan_start' = (scan_start /\ (s = "scanner" => status[s] = "active"))
        /\ IF Boot!ModuleOf(s) = "none" THEN UNCHANGED stopped ELSE Boot!ReportsFor(Boot!ModuleOf(s))
        /\ crossed' = IF Boot!At("tell") /\ s \in Boot!Current.polls THEN crossed \cup {s} ELSE crossed
    BY <1>4 DEF Boot!CallBack
  <2>2. /\ \A u \in Boot!Polled \ {s} : (Quiet(u)' => Quiet(u)) /\ told'[u] = told[u]
        /\ told'[s] = status[s]
    BY <1>1, <2>1, Typed DEF OrderInv, Quiet
  <2>3. Noticed'
    <3>1. ASSUME NEW u \in Boot!Polled \ {"scanner"}, Quiet(u)', Built(Home(u))', Home(u) \notin todo'
          PROVE  told'[u] = status'[u]
      <4>1. CASE u = s
        BY <1>1, <2>2, <4>1
      <4>2. CASE u # s
        BY <1>1, <2>2, <3>1, <4>2 DEF OrderInv, Noticed, Built
      <4> QED BY <4>1, <4>2
    <3>2. ASSUME told'["scanner"] = "active"
          PROVE  /\ "scanner" \in attached'
                 /\ Quiet("scanner")' => status'["scanner"] = "active"
      <4>1. CASE s = "scanner"
        BY <1>1, <1>4, <2>2, <3>2, <4>1
      <4>2. CASE s # "scanner"
        BY <1>1, <2>2, <3>2, <4>2, HomePlaces DEF OrderInv, Noticed
      <4> QED BY <4>1, <4>2
    <3> QED BY <3>1, <3>2 DEF Noticed
  <2>4. ReadIsTrue'
    <3>1. ASSUME stage = 4, Home(s) \in todo, Boot!First = Home(s) PROVE ~Quiet(s)'
      <4>1. Boot!At("tell") /\ s \in Boot!Current.polls
        BY <3>1, StageNames, PollsAtHome, HomePlaces DEF Boot!At, Boot!Current
      <4> QED BY <2>1, <4>1 DEF Quiet
    <3> QED BY <1>1, <2>2, <3>1 DEF OrderInv, ReadIsTrue
  <2>5. Boot!RegisteredFirst' /\ stopped' \in BOOLEAN
    <3>1. CASE Boot!ModuleOf(s) = "none"
      BY <1>1, <2>1, <3>1, Typed DEF OrderInv, Boot!RegisteredFirst
    <3>2. CASE Boot!ModuleOf(s) # "none"
      <4>1. Boot!ReportsFor(Boot!ModuleOf(s)) /\ Boot!ModuleOf(s) \in registered
        BY <1>4, <2>1, <3>2, ObserversReport, PolledIsNotWsd, Typed DEF OrderInv
      <4> QED BY <1>1, <4>1, ReportsRegistered DEF OrderInv, Boot!ReportsFor
    <3> QED BY <3>1, <3>2
  <2>6. Boot!TypeOK'
    <3>1. scan_start' \in BOOLEAN
      BY <2>1
    <3>2. crossed' \subseteq Boot!Polled
      BY <2>1, Typed DEF OrderInv
    <3>3. told' \in [Boot!Polled -> {"nothing", "rest", "active"}]
      BY <2>1, Typed DEF OrderInv
    <3> QED BY <1>1, <1>2, <2>5, <3>1, <3>2, <3>3, Typed, Retyped DEF OrderInv
  <2> QED BY <1>2, <2>3, <2>4, <2>5, <2>6 DEF OrderInv
<1> QED BY <1>3, <1>4

\* Another observer, or the start of a copy, only reports a status.
LEMMA ReportStep ==
  ASSUME OrderInv, NEW m, Boot!ReportsFor(m), m \in registered \/ "platform" \notin built \/ wsd_early,
         UNCHANGED <<Boot!progress, registered, attached, Boot!subject, polled, told, scan_start, crossed,
                     built, wsd_early>>
  PROVE  OrderInv'
<1>1. Ordered' /\ Recorded' /\ Boot!RegisteredFirst'
  BY StaysRecorded, ReportsRegistered DEF OrderInv, Boot!progress
<1>2. Noticed' /\ ReadIsTrue'
  BY DEF OrderInv, Noticed, ReadIsTrue, Quiet, Built, Boot!First, Boot!progress, Boot!subject
<1>3. stopped' \in BOOLEAN
  BY DEF Boot!ReportsFor
<1>4. Boot!TypeOK'
  BY <1>1, <1>3, Typed, Retyped DEF OrderInv, Boot!progress, Boot!subject
<1> QED BY <1>1, <1>2, <1>4 DEF OrderInv
-----------------------------------------------------------------------------
LEMMA OrderStarts ==
  ASSUME Boot!Init
  PROVE  OrderInv
<1>1. Ordered /\ todo \subseteq DOMAIN Boot!InitFunctions
  BY PlaceNames DEF Boot!Init, Ordered, Built
<1>2. \A i \in Places, m \in 1..3 : ~Begun(i, m)
  BY PlaceNames DEF Boot!Init, Begun, Built
<1>3. Recorded
  <2>1. registered = {} /\ attached = {}
    BY DEF Boot!Init
  <2>2. \A i \in Places : ~Begun(i, 1) /\ ~Begun(i, 2)
    BY <1>2
  <2> QED BY <2>1, <2>2 DEF Recorded
<1>4. Noticed
  <2>1. \A s \in Boot!Polled : Built(Home(s)) => Home(s) \in todo
    BY PlaceNames, HomePlaces DEF Boot!Init, Built
  <2> QED BY <2>1, HomePlaces DEF Noticed, Boot!Init
<1>5. Boot!RegisteredFirst /\ ReadIsTrue
  BY DEF Boot!Init, Boot!RegisteredFirst, ReadIsTrue
<1>6. Boot!TypeOK
  <2>1. stage \in DOMAIN Boot!Stages /\ {scan_start, wsd_early, stopped} \subseteq BOOLEAN
    <3>1. stage \in DOMAIN Boot!Stages
      BY StageNames DEF Boot!Init
    <3>2. {scan_start, wsd_early, stopped} \subseteq BOOLEAN
      BY DEF Boot!Init
    <3> QED BY <3>1, <3>2
  <2>2. /\ built \in Builds /\ notifying \subseteq Boot!Polled /\ crossed \subseteq Boot!Polled
        /\ status \in [Boot!Polled -> {"rest", "active"}]
    BY DEF Boot!Init
  <2>3. /\ polled \in [Boot!Polled -> {"nothing", "rest", "active"}]
        /\ told \in [Boot!Polled -> {"nothing", "rest", "active"}]
    BY DEF Boot!Init
  <2> QED BY <1>1, <2>1, <2>2, <2>3 DEF Boot!TypeOK
<1> QED BY <1>1, <1>3, <1>4, <1>5, <1>6 DEF OrderInv

\* The WSD observer of AttachWsd: nobody else attaches it.
LEMMA AttachWsdStep ==
  ASSUME OrderInv, Boot!AttachWsd \/ Boot!DetachWsd
  PROVE  OrderInv'
<1>1. /\ \A s : s # "wsd scan" => (s \in attached' <=> s \in attached)
      /\ UNCHANGED <<todo, stage, registered, Boot!subject, polled, told, scan_start, crossed, built,
                     stopped>>
  BY DEF Boot!AttachWsd, Boot!DetachWsd, Boot!progress, Boot!outside
<1>2. wsd_early' \in BOOLEAN /\ (wsd_early => wsd_early')
  <2>1. CASE Boot!AttachWsd
    BY <2>1 DEF Boot!AttachWsd
  <2>2. CASE Boot!DetachWsd
    <3>1. wsd_early' = wsd_early
      BY <2>2 DEF Boot!DetachWsd, Boot!outside
    <3> QED BY <3>1, Typed DEF OrderInv
  <2> QED BY <2>1, <2>2
<1>3. Ordered' /\ Recorded'
  BY <1>1 DEF OrderInv, Ordered, Recorded, Begun, Built, Boot!First
<1>4. Noticed' /\ ReadIsTrue' /\ Boot!RegisteredFirst'
  BY <1>1, <1>2 DEF OrderInv, Noticed, ReadIsTrue, Boot!RegisteredFirst, Quiet, Built, Boot!First,
    Boot!subject
<1>5. Boot!TypeOK'
  BY <1>1, <1>2, <1>3, Typed, Retyped DEF OrderInv, Boot!subject
<1> QED BY <1>3, <1>4, <1>5 DEF OrderInv

LEMMA OrderSteps ==
  ASSUME OrderInv, WsdObserved, [Boot!Next]_(Boot!vars)
  PROVE  OrderInv'
<1>1. CASE Boot!Register \/ Boot!Attach \/ Boot!Poll \/ Boot!Tell
  BY <1>1, RegisterStep, AttachStep, PollStep, TellStep
<1>2. ASSUME NEW s \in Boot!Polled, Boot!Change(s) \/ Boot!CallBack(s) PROVE OrderInv'
  BY <1>2, ChangeStep, CallBackStep
<1>3. ASSUME NEW s \in attached \ Boot!Polled, Boot!OtherCallBack(s) PROVE OrderInv'
  <2>1. CASE s = "wsd scan"
    <3>1. Boot!ModuleOf(s) = "scan" /\ Boot!ReportsFor("scan")
      BY <1>3, <2>1 DEF Boot!OtherCallBack, Boot!ModuleOf
    <3> QED BY <1>3, <2>1, <3>1, ReportStep DEF Boot!OtherCallBack, Boot!outside, WsdObserved
  <2>2. CASE s # "wsd scan"
    <3>1. Boot!ReportsFor(Boot!ModuleOf(s)) /\ Boot!ModuleOf(s) \in registered
      BY <1>3, <2>2, ObserversReport, Typed DEF Boot!OtherCallBack, OrderInv
    <3> QED BY <1>3, <3>1, ReportStep DEF Boot!OtherCallBack, Boot!outside
  <2> QED BY <2>1, <2>2
<1>4. CASE Boot!CopyStart
  <2>1. Boot!ReportsFor("system") /\ ("system" \in registered \/ "platform" \notin built)
    BY <1>4, CopyFindsSystem, Typed DEF Boot!CopyStart, OrderInv
  <2> QED BY <1>4, <2>1, ReportStep DEF Boot!CopyStart, Boot!outside
<1>5. CASE UNCHANGED Boot!vars
  <2>1. Ordered' /\ Recorded'
    BY <1>5, StaysRecorded DEF OrderInv, Boot!vars, Boot!progress, Boot!outside
  <2>2. Noticed' /\ ReadIsTrue' /\ Boot!RegisteredFirst'
    BY <1>5 DEF OrderInv, Noticed, ReadIsTrue, Boot!RegisteredFirst, Quiet, Built, Boot!First,
      Boot!vars, Boot!progress, Boot!outside, Boot!subject
  <2>3. Boot!TypeOK'
    BY <1>5 DEF OrderInv, Boot!TypeOK, Boot!vars, Boot!progress, Boot!outside, Boot!subject
  <2> QED BY <2>1, <2>2, <2>3 DEF OrderInv
<1>6. CASE Boot!AttachWsd \/ Boot!DetachWsd
  BY <1>6, AttachWsdStep
<1> QED BY <1>1, <1>2, <1>3, <1>4, <1>5, <1>6 DEF Boot!Next

LEMMA WsdSteps ==
  ASSUME OrderInv, WsdObserved, [Boot!Next]_(Boot!vars)
  PROVE  WsdObserved'
<1>1. CASE Boot!Attach
  <2>1. attached' = attached \cup Boot!Current.attaches /\ UNCHANGED <<registered, wsd_early>>
    BY <1>1 DEF Boot!Attach, Boot!outside
  <2>2. Boot!First \in Places
    BY <1>1, FirstIsLeast DEF Boot!Attach, Boot!At, OrderInv, Ordered
  <2>3. "wsd scan" \notin Boot!Current.attaches
    <3>1. \A i \in Places : "wsd scan" \notin Boot!InitFunctions[i].attaches
      BY WsdIsOthers
    <3> QED BY <2>2, <3>1 DEF Boot!Current
  <2> QED BY <2>1, <2>3 DEF WsdObserved
<1>2. CASE Boot!Register
  BY <1>2 DEF Boot!Register, Boot!outside, WsdObserved
<1>3. CASE Boot!Poll \/ Boot!Tell \/ Boot!CopyStart
  BY <1>3 DEF Boot!Poll, Boot!Tell, Boot!CopyStart, Boot!outside, WsdObserved
<1>4. ASSUME NEW s, Boot!Change(s) \/ Boot!CallBack(s) \/ Boot!OtherCallBack(s) PROVE WsdObserved'
  BY <1>4 DEF Boot!Change, Boot!CallBack, Boot!OtherCallBack, Boot!outside, WsdObserved
<1>5. CASE Boot!AttachWsd \/ Boot!DetachWsd
  BY <1>5 DEF Boot!AttachWsd, Boot!DetachWsd, Boot!outside, WsdObserved
<1>6. CASE UNCHANGED Boot!vars
  BY <1>6 DEF Boot!vars, Boot!outside, WsdObserved
<1> QED BY <1>1, <1>2, <1>3, <1>4, <1>5, <1>6 DEF Boot!Next

LEMMA OrderInvariant == Boot!Spec => []OrderInv
<1>1. Boot!Init => OrderInv /\ WsdObserved
  BY OrderStarts DEF Boot!Init, WsdObserved
<1>2. OrderInv /\ WsdObserved /\ [Boot!Next]_(Boot!vars) => OrderInv' /\ WsdObserved'
  BY OrderSteps, WsdSteps
<1> QED BY <1>1, <1>2, PTL DEF Boot!Spec

\* Beside the other components this one behaves as it does alone.
LEMMA BootSlice == Spec => Boot!Spec
<1>1. Init => Boot!Init
  BY DEF Init
<1>2. [Next]_vars => [Boot!Next]_(Boot!vars)
  BY DEF Next, vars, deviceVars, settingVars, bootVars, Boot!vars, Boot!progress, Boot!outside, Boot!subject,
    PrintStep, ScanStep, WirelessStep, BlockStep, NetworkStep, PowerStep,
    StartStep, IpStep, ModeStep
<1> QED BY <1>1, <1>2, PTL DEF Spec, Boot!Spec

\* "Before attaching any observers, register": in every build that has the platform no
\* status is reported for a module that is not registered, whenever the subjects call,
\* unless others have the WSD scans observed before the init function of scan has run.
THEOREM NoStatusTooEarly == Spec => []RegisteredFirst
<1>1. OrderInv => Boot!RegisteredFirst
  BY DEF OrderInv
<1> QED BY <1>1, OrderInvariant, BootSlice, PTL DEF RegisteredFirst

\* Once its init function has run the UI knows the status of each polled subject that
\* has not called in the middle of the init function's report (print 345-351, wireless
\* 301, scan 437-442).
THEOREM NoStatusIsMissed == Spec => []NothingMissed
<1>1. OrderInv => Boot!NothingMissed
  <2> SUFFICES ASSUME OrderInv, NEW i \in Places,
                      NEW s \in Boot!InitFunctions[i].polls \ (notifying \cup crossed),
                      Built(i), i \notin todo
               PROVE  IF s = "scanner" THEN told[s] = "active" => status[s] = "active"
                      ELSE told[s] = status[s]
    BY PlaceNames DEF Boot!NothingMissed, Built
  <2>1. s \in Boot!Polled /\ i = Home(s) /\ Quiet(s)
    BY PolledOnly, PollsAtHome DEF Quiet
  <2> QED BY <2>1 DEF OrderInv, Noticed
<1> QED BY <1>1, OrderInvariant, BootSlice, PTL DEF NothingMissed
=============================================================================

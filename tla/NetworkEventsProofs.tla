-------------------------- MODULE NetworkEventsProofs --------------------------
(***************************************************************************)
(* What the UI knows of the link once the network's callback has caught    *)
(* up, for any number of links.  The interface changes between any two     *)
(* reads of a call; what a call has read is stale only while the event of  *)
(* the change is pending, so a call that follows will read it again.       *)
(***************************************************************************)
EXTENDS Components, TLAPS

LinkTold(is_up, link) == IF is_up THEN [state |-> "up", link |-> link] ELSE [state |-> "down", link |-> 0]
V4Told(configured) == IF configured THEN "configured" ELSE "not_configured"

\* Where a call is about to tell the link, and where the first one has told it.
LinkWork == {"read link", "read status", "tell down", "tell up", "store"}
LinkDone == {"read v4", "tell v4", "return", "idle"}
V4Work(t) == \/ pc[t] \in {"read v4", "tell v4"}
             \/ pc[t] \in LinkWork /\ "v4" \in net_events[t]

\* The init thread's call comes first and is about everything.
InitFirst ==
  /\ pc["stack"] # "idle" => pc["init"] = "idle"
  /\ iface_info.sent <=> pc["init"] = "idle"
  /\ pc["init"] = "register" => pending = {}
  /\ pc["init"] \in LinkWork => net_events["init"] = Net!Events
  /\ pc["init"] \in {"register", "read link", "read status", "tell down"} =>
       told_link.state = "none"

\* What a call has read of the interface is true unless an event is pending.
ReadIsFresh(t) ==
  /\ "link" \notin pending =>
       /\ pc[t] \in {"read status", "tell down", "tell up", "store"} => read[t].link = active_link
       /\ pc[t] \in {"tell down", "tell up", "store"} => read[t].up = link_up
  /\ "v4" \notin pending /\ pc[t] = "tell v4" => read[t].v4 = ipv4_configured

\* How far what the UI was told agrees with what the call has read.
TellsWhatItRead(t) ==
  /\ pc[t] = "tell down" => read[t].differs = Net!Differs(read[t].link, read[t].up)
  /\ pc[t] = "tell up" =>
       IF read[t].differs
         THEN /\ ~read[t].up => told_link = LinkTold(FALSE, 0)
              /\ told_link.state = "up" /\ told_link.link # 0 => told_link.link = read[t].link
         ELSE told_link = LinkTold(read[t].up, read[t].link)
  /\ pc[t] = "store" => told_link = LinkTold(read[t].up, read[t].link)

\* iface_info is what the UI was told last, and is true unless an event is pending
\* or being handled.
LinkInfo ==
  pc["init"] \in LinkDone =>
    /\ pc["stack"] \notin {"tell up", "store"} =>
         told_link = LinkTold(iface_info.status, iface_info.link)
    /\ pc["stack"] \notin LinkWork /\ "link" \notin pending =>
         iface_info.status = link_up /\ iface_info.link = active_link

V4Info ==
  pc["init"] \in {"return", "idle"} =>
    /\ told_v4 = V4Told(iface_info.configured)
    /\ ~V4Work("stack") /\ "v4" \notin pending => iface_info.configured = ipv4_configured

NetInv ==
  ~net_overlapped =>
    /\ InitFirst /\ LinkInfo /\ V4Info
    /\ \A t \in Net!Threads : ReadIsFresh(t) /\ TellsWhatItRead(t)
-----------------------------------------------------------------------------

LEMMA TwoThreads == "init" \in Net!Threads /\ "stack" \in Net!Threads /\ \A t \in Net!Threads : t \in {"init", "stack"}
BY DEF Net!Threads

Labels == {"register", "idle", "read link", "read status", "tell down", "tell up", "store",
           "read v4", "tell v4", "return"}

LEMMA InitTyped == Net!Init => Net!TypeOK
<1> SUFFICES ASSUME Net!Init PROVE Net!TypeOK
  OBVIOUS
<1>1. /\ iface_info \in [sent: BOOLEAN, status: BOOLEAN, link: Links \cup {0}, configured: BOOLEAN]
      /\ told_link \in [state: {"none", "down", "up"}, link: Links \cup {0}]
  BY DEF Net!Init
<1>2. read \in [Net!Threads -> [link: Links \cup {0}, up: BOOLEAN, v4: BOOLEAN, differs: BOOLEAN]]
  BY DEF Net!Init
<1>3. /\ pc \in [Net!Threads -> Labels] /\ net_events \in [Net!Threads -> SUBSET Net!Events]
      /\ pending \subseteq Net!Events
  BY DEF Net!Init, Labels
<1>4. /\ {link_up, ipv4_configured, net_overlapped} \subseteq BOOLEAN
      /\ active_link \in Links \cup {0} /\ told_v4 \in {"none", "configured", "not_configured"}
  BY DEF Net!Init
<1> QED BY <1>1, <1>2, <1>3, <1>4 DEF Net!TypeOK, Labels

LEMMA StepTyped ==
  ASSUME Net!TypeOK, [Net!Next]_(Net!vars)
  PROVE  Net!TypeOK'
<1> USE DEF Net!TypeOK, Net!interface, Net!told, Net!Goto
<1>1. CASE Net!LinkChange
  BY <1>1 DEF Net!LinkChange, Net!Event, Net!Events
<1>2. CASE Net!ConfigChange
  BY <1>2 DEF Net!ConfigChange, Net!Event, Net!Events
<1>3. CASE Net!Configure
  BY <1>3, TwoThreads DEF Net!Configure, Net!Call, Net!Events
<1>4. CASE Net!Deliver
  BY <1>4, TwoThreads DEF Net!Deliver, Net!Call, Net!Events
<1>5. ASSUME NEW t \in Net!Threads, Net!ReadActiveLink(t) PROVE Net!TypeOK'
  BY <1>5, ZenonT(60) DEF Net!ReadActiveLink
<1>6. ASSUME NEW t \in Net!Threads, Net!ReadStatus(t) PROVE Net!TypeOK'
  <2> DEFINE d == Net!Differs(read[t].link, link_up)
  <2>1. d \in BOOLEAN /\ link_up \in BOOLEAN
    BY DEF Net!Differs
  <2>2. read' = [read EXCEPT ![t] = [@ EXCEPT !.up = link_up, !.differs = d]]
    BY <1>6 DEF Net!ReadStatus
  <2> HIDE DEF d
  <2>3. [read[t] EXCEPT !.up = link_up, !.differs = d]
          \in [link: Links \cup {0}, up: BOOLEAN, v4: BOOLEAN, differs: BOOLEAN]
    BY <2>1, ZenonT(60)
  <2>4. read' \in [Net!Threads -> [link: Links \cup {0}, up: BOOLEAN, v4: BOOLEAN, differs: BOOLEAN]]
    BY <2>2, <2>3
  <2>5. UNCHANGED <<Net!interface, iface_info, net_events, Net!told>> /\ pc' = [pc EXCEPT ![t] = "tell down"]
    BY <1>6 DEF Net!ReadStatus
  <2> QED BY <2>4, <2>5
<1>7. ASSUME NEW t \in Net!Threads, Net!TellDown(t) PROVE Net!TypeOK'
  <2>1. CASE read[t].differs /\ Net!IsDown(t)
    <3> DEFINE none == 0
    <3>1. none \in Links \cup {0} /\ iface_info' = [iface_info EXCEPT !.link = none]
      BY <1>7, <2>1 DEF Net!TellDown
    <3>2. told_link' = [state |-> "down", link |-> none]
      BY <1>7, <2>1 DEF Net!TellDown
    <3> HIDE DEF none
    <3>3. iface_info' \in [sent: BOOLEAN, status: BOOLEAN, link: Links \cup {0},
                           configured: BOOLEAN]
      BY <3>1
    <3>4. told_link' \in [state: {"none", "down", "up"}, link: Links \cup {0}]
      BY <3>1, <3>2
    <3>5. UNCHANGED <<Net!interface, net_events, read, told_v4>> /\ pc' = [pc EXCEPT ![t] = "tell up"]
      BY <1>7 DEF Net!TellDown
    <3> QED BY <3>3, <3>4, <3>5
  <2>2. CASE ~(read[t].differs /\ Net!IsDown(t))
    BY <1>7, <2>2 DEF Net!TellDown
  <2> QED BY <2>1, <2>2
<1>8. ASSUME NEW t \in Net!Threads, Net!TellUp(t) PROVE Net!TypeOK'
  BY <1>8 DEF Net!TellUp
<1>9. ASSUME NEW t \in Net!Threads, Net!Store(t) PROVE Net!TypeOK'
  BY <1>9 DEF Net!Store
<1>10. ASSUME NEW t \in Net!Threads, Net!ReadConfigured(t) PROVE Net!TypeOK'
  BY <1>10, ZenonT(60) DEF Net!ReadConfigured
<1>11. ASSUME NEW t \in Net!Threads, Net!TellConfigured(t) PROVE Net!TypeOK'
  BY <1>11 DEF Net!TellConfigured
<1>12. ASSUME NEW t \in Net!Threads, Net!Return(t) PROVE Net!TypeOK'
  BY <1>12 DEF Net!Return
<1>13. CASE UNCHANGED Net!vars
  BY <1>13 DEF Net!vars
<1> QED
  BY <1>1, <1>2, <1>3, <1>4, <1>5, <1>6, <1>7, <1>8, <1>9, <1>10, <1>11, <1>12, <1>13
    DEF Net!Next
-----------------------------------------------------------------------------
(* Each step, taken by a thread that is alone in its call.                  *)

\* What the types are needed for below.
LEMMA NetFacts ==
  ASSUME Net!TypeOK
  PROVE  /\ DOMAIN pc = Net!Threads /\ DOMAIN net_events = Net!Threads /\ DOMAIN read = Net!Threads
         /\ \A t \in Net!Threads : /\ pc[t] \in Labels
                               /\ DOMAIN read[t] = {"link", "up", "v4", "differs"}
                               /\ read[t].up \in BOOLEAN /\ read[t].differs \in BOOLEAN
                               /\ read[t].v4 \in BOOLEAN
         /\ DOMAIN iface_info = {"sent", "status", "link", "configured"}
         /\ iface_info.sent \in BOOLEAN /\ iface_info.status \in BOOLEAN
         /\ iface_info.configured \in BOOLEAN
         /\ link_up \in BOOLEAN /\ ipv4_configured \in BOOLEAN
BY DEF Net!TypeOK, Labels

LEMMA InitNet == Net!Init => NetInv
<1> SUFFICES ASSUME Net!Init PROVE NetInv
  OBVIOUS
<1>1. /\ pc["init"] = "register" /\ pc["stack"] = "idle"
      /\ ~iface_info.sent /\ pending = {} /\ told_link.state = "none"
  BY TwoThreads DEF Net!Init
<1>2. \A t \in Net!Threads : pc[t] \in {"register", "idle"}
  BY DEF Net!Init
<1>3. InitFirst /\ LinkInfo /\ V4Info
  BY <1>1 DEF InitFirst, LinkInfo, V4Info, LinkWork, LinkDone
<1>4. \A t \in Net!Threads : ReadIsFresh(t) /\ TellsWhatItRead(t)
  BY <1>2 DEF ReadIsFresh, TellsWhatItRead
<1> QED BY <1>3, <1>4 DEF NetInv

\* The interface changes: the event of the change is pending from now on.
LEMMA ChangeNet ==
  ASSUME Net!TypeOK, NetInv, Net!LinkChange \/ Net!ConfigChange
  PROVE  NetInv'
<1> SUFFICES ASSUME ~net_overlapped PROVE NetInv'
  BY DEF NetInv, Net!LinkChange, Net!ConfigChange
<1>1. /\ InitFirst /\ LinkInfo /\ V4Info
      /\ \A t \in Net!Threads : ReadIsFresh(t) /\ TellsWhatItRead(t)
  BY DEF NetInv
<1>2. UNCHANGED <<net_overlapped, iface_info, pc, net_events, read, told_link, told_v4>>
  BY DEF Net!LinkChange, Net!ConfigChange, Net!told
<1>3. /\ link_up' # link_up \/ active_link' # active_link => Net!Event("link")
      /\ ipv4_configured' # ipv4_configured => Net!Event("v4")
      /\ \E e \in Net!Events : Net!Event(e)
  BY DEF Net!LinkChange, Net!ConfigChange, Net!Events
<1>4. InitFirst'
  BY <1>1, <1>2, <1>3 DEF InitFirst, Net!Event, Net!Registered
<1>5. /\ pc["init"] # "register" => pending \subseteq pending'
      /\ pc["init"] # "register" /\ "link" \notin pending' =>
           link_up' = link_up /\ active_link' = active_link
      /\ pc["init"] # "register" /\ "v4" \notin pending' => ipv4_configured' = ipv4_configured
  BY <1>3 DEF Net!Event, Net!Registered
<1>6. LinkInfo' /\ V4Info'
  BY <1>1, <1>2, <1>5 DEF LinkInfo, V4Info, V4Work, LinkWork, LinkDone
<1>7. ASSUME NEW t \in Net!Threads PROVE ReadIsFresh(t)' /\ TellsWhatItRead(t)'
  <2>1. TellsWhatItRead(t)'
    BY <1>1, <1>2 DEF TellsWhatItRead, Net!Differs
  <2>2. CASE pc["init"] = "register"
    <3>1. pc'[t] \in {"register", "idle"}
      BY <1>1, <1>2, <2>2, TwoThreads DEF InitFirst
    <3> QED BY <2>1, <3>1 DEF ReadIsFresh
  <2>3. CASE pc["init"] # "register"
    <3>1. "link" \notin pending' =>
            "link" \notin pending /\ link_up' = link_up /\ active_link' = active_link
      BY <1>5, <2>3
    <3>2. "v4" \notin pending' => "v4" \notin pending /\ ipv4_configured' = ipv4_configured
      BY <1>5, <2>3
    <3> QED BY <1>1, <1>2, <2>1, <3>1, <3>2 DEF ReadIsFresh
  <2> QED BY <2>1, <2>2, <2>3
<1> QED BY <1>4, <1>6, <1>7 DEF NetInv

\* The init thread registers the callback and calls it.
LEMMA ConfigureNet ==
  ASSUME Net!TypeOK, NetInv, Net!Configure
  PROVE  NetInv'
<1> USE NetFacts, TwoThreads
<1> SUFFICES ASSUME ~net_overlapped PROVE NetInv'
  BY DEF NetInv, Net!Configure, Net!interface
<1>1. /\ InitFirst /\ LinkInfo /\ V4Info
      /\ \A t \in Net!Threads : ReadIsFresh(t) /\ TellsWhatItRead(t)
  BY DEF NetInv
<1>2. /\ UNCHANGED <<link_up, active_link, ipv4_configured, pending, iface_info, read,
                     told_link, told_v4>>
      /\ pc["init"] = "register" /\ pc'["init"] = "read link" /\ pc'["stack"] = "idle"
      /\ net_events'["init"] = Net!Events
  BY <1>1 DEF Net!Configure, Net!Call, Net!Goto, Net!Events, Net!interface, Net!told, InitFirst
<1>3. InitFirst' /\ LinkInfo' /\ V4Info'
  BY <1>1, <1>2 DEF InitFirst, LinkInfo, V4Info, LinkDone
<1>4. \A t \in Net!Threads : pc'[t] \in {"idle", "read link"}
  BY <1>2
<1>5. \A t \in Net!Threads : ReadIsFresh(t)' /\ TellsWhatItRead(t)'
  BY <1>4 DEF ReadIsFresh, TellsWhatItRead
<1> QED BY <1>3, <1>5 DEF NetInv

\* The stack calls about all that is pending.
LEMMA DeliverNet ==
  ASSUME Net!TypeOK, NetInv, Net!Deliver
  PROVE  NetInv'
<1> USE NetFacts, TwoThreads
<1> SUFFICES ASSUME ~net_overlapped, pc["init"] = "idle" PROVE NetInv'
  BY DEF NetInv, Net!Deliver
<1>1. /\ InitFirst /\ LinkInfo /\ V4Info
      /\ \A t \in Net!Threads : ReadIsFresh(t) /\ TellsWhatItRead(t)
  BY DEF NetInv
<1>2. /\ UNCHANGED <<link_up, active_link, ipv4_configured, iface_info, read, told_link, told_v4>>
      /\ pc["stack"] = "idle" /\ pc'["init"] = "idle"
      /\ pc'["stack"] = IF "link" \in pending THEN "read link" ELSE "read v4"
      /\ net_events'["stack"] = pending
      /\ pending' = {}
  BY DEF Net!Deliver, Net!Call, Net!Goto, Net!told
<1>3. InitFirst'
  BY <1>1, <1>2 DEF InitFirst, LinkWork
<1>4. LinkInfo'
  BY <1>1, <1>2 DEF LinkInfo, LinkWork, LinkDone
<1>5. V4Info'
  BY <1>1, <1>2 DEF V4Info, V4Work, LinkWork
<1>6. \A t \in Net!Threads : pc'[t] \in {"idle", "read link", "read v4"}
  BY <1>2
<1>7. \A t \in Net!Threads : ReadIsFresh(t)' /\ TellsWhatItRead(t)'
  BY <1>6 DEF ReadIsFresh, TellsWhatItRead
<1> QED BY <1>3, <1>4, <1>5, <1>7 DEF NetInv
-----------------------------------------------------------------------------
(* The steps of a call.                                                      *)

\* Thread t goes from one label of its call to another, alone.
LEMMA AloneInCall ==
  ASSUME Net!TypeOK, InitFirst, NEW t \in Net!Threads, NEW u \in Net!Threads, t # u,
         pc[t] \notin {"idle", "register"}
  PROVE  /\ pc[u] = "idle"
         /\ t = "stack" => pc["init"] = "idle" /\ iface_info.sent
         /\ t = "init" => ~iface_info.sent
BY TwoThreads, NetFacts DEF InitFirst

\* The facts about a thread that is idle.
LEMMA IdleThread ==
  ASSUME NEW u, pc'[u] = "idle"
  PROVE  ReadIsFresh(u)' /\ TellsWhatItRead(u)'
BY DEF ReadIsFresh, TellsWhatItRead

\* What is left to show of a step of thread t.
LEMMA CallNet ==
  ASSUME Net!TypeOK, NetInv, NEW t \in Net!Threads, NEW a, NEW b,
         ~net_overlapped, pc[t] = a, a \notin {"idle", "register"}, pc' = [pc EXCEPT ![t] = b],
         InitFirst', LinkInfo', V4Info', ReadIsFresh(t)', TellsWhatItRead(t)'
  PROVE  NetInv'
<1>1. \A u \in Net!Threads \ {t} : pc'[u] = "idle"
  BY AloneInCall, NetFacts DEF NetInv
<1>2. \A u \in Net!Threads : ReadIsFresh(u)' /\ TellsWhatItRead(u)'
  BY <1>1, IdleThread
<1> QED BY <1>2 DEF NetInv

\* What the invariant says of a thread in its call, and of the other one.
LEMMA CallFacts ==
  ASSUME Net!TypeOK, NetInv, ~net_overlapped, NEW t \in Net!Threads, pc[t] \notin {"idle", "register"}
  PROVE  /\ InitFirst /\ LinkInfo /\ V4Info /\ ReadIsFresh(t) /\ TellsWhatItRead(t)
         /\ t \in {"init", "stack"}
         /\ t = "stack" => pc["init"] = "idle" /\ iface_info.sent
         /\ t = "init" => pc["stack"] = "idle" /\ ~iface_info.sent
BY AloneInCall, TwoThreads DEF NetInv

LEMMA ReadLinkNet ==
  ASSUME Net!TypeOK, NetInv, ~net_overlapped, NEW t \in Net!Threads, Net!ReadActiveLink(t)
  PROVE  NetInv'
<1> USE NetFacts, TwoThreads
<1>1. /\ pc[t] = "read link" /\ pc' = [pc EXCEPT ![t] = "read status"]
      /\ read'[t].link = active_link
      /\ UNCHANGED <<link_up, active_link, ipv4_configured, pending, net_overlapped, iface_info,
                     net_events, told_link, told_v4>>
  BY DEF Net!ReadActiveLink, Net!Goto, Net!interface, Net!told
<1>2. /\ InitFirst /\ LinkInfo /\ V4Info /\ t \in {"init", "stack"}
      /\ t = "stack" => pc["init"] = "idle" /\ iface_info.sent
      /\ t = "init" => pc["stack"] = "idle" /\ ~iface_info.sent
  BY <1>1, CallFacts
<1>3. ReadIsFresh(t)' /\ TellsWhatItRead(t)'
  BY <1>1 DEF ReadIsFresh, TellsWhatItRead
<1>4. InitFirst'
  BY <1>1, <1>2 DEF InitFirst, LinkWork
<1>5. LinkInfo' /\ V4Info'
  BY <1>1, <1>2 DEF LinkInfo, V4Info, V4Work, LinkWork, LinkDone
<1> QED BY <1>1, <1>3, <1>4, <1>5, CallNet

LEMMA ReadStatusNet ==
  ASSUME Net!TypeOK, NetInv, ~net_overlapped, NEW t \in Net!Threads, Net!ReadStatus(t)
  PROVE  NetInv'
<1> USE NetFacts, TwoThreads
<1>1. /\ pc[t] = "read status" /\ pc' = [pc EXCEPT ![t] = "tell down"]
      /\ read'[t].up = link_up /\ read'[t].link = read[t].link
      /\ read'[t].differs = Net!Differs(read[t].link, link_up)
      /\ UNCHANGED <<link_up, active_link, ipv4_configured, pending, net_overlapped, iface_info,
                     net_events, told_link, told_v4>>
  BY ZenonT(60) DEF Net!ReadStatus, Net!Goto, Net!interface, Net!told
<1>2. /\ InitFirst /\ LinkInfo /\ V4Info /\ ReadIsFresh(t) /\ t \in {"init", "stack"}
      /\ t = "stack" => pc["init"] = "idle" /\ iface_info.sent
      /\ t = "init" => pc["stack"] = "idle" /\ ~iface_info.sent
  BY <1>1, CallFacts
<1>3. ReadIsFresh(t)' /\ TellsWhatItRead(t)'
  BY <1>1, <1>2 DEF ReadIsFresh, TellsWhatItRead, Net!Differs
<1>4. InitFirst'
  BY <1>1, <1>2 DEF InitFirst, LinkWork
<1>5. LinkInfo' /\ V4Info'
  BY <1>1, <1>2 DEF LinkInfo, V4Info, V4Work, LinkWork, LinkDone
<1> QED BY <1>1, <1>3, <1>4, <1>5, CallNet

\* A UI that is not told of the loss of a link has been told of this very link.
LEMMA TellDownNet ==
  ASSUME Net!TypeOK, NetInv, ~net_overlapped, NEW t \in Net!Threads, Net!TellDown(t)
  PROVE  NetInv'
<1> USE NetFacts, TwoThreads
<1>1. /\ pc[t] = "tell down" /\ pc' = [pc EXCEPT ![t] = "tell up"]
      /\ IF read[t].differs /\ Net!IsDown(t)
           THEN told_link' = [state |-> "down", link |-> 0]
           ELSE told_link' = told_link
      /\ iface_info'.sent = iface_info.sent /\ iface_info'.status = iface_info.status
      /\ iface_info'.configured = iface_info.configured
      /\ UNCHANGED <<link_up, active_link, ipv4_configured, pending, net_overlapped, read,
                     net_events, told_v4>>
  BY DEF Net!TellDown, Net!Goto, Net!interface
<1>2. /\ InitFirst /\ LinkInfo /\ V4Info /\ ReadIsFresh(t) /\ TellsWhatItRead(t)
      /\ t \in {"init", "stack"}
      /\ t = "stack" => pc["init"] = "idle" /\ iface_info.sent
      /\ t = "init" => pc["stack"] = "idle" /\ ~iface_info.sent
  BY <1>1, CallFacts
<1>3. ReadIsFresh(t)'
  BY <1>1, <1>2 DEF ReadIsFresh
<1>4. t = "stack" => told_link = LinkTold(iface_info.status, iface_info.link)
  BY <1>1, <1>2 DEF LinkInfo, LinkDone
<1>5. t = "init" => told_link.state = "none" /\ read[t].differs
  BY <1>1, <1>2 DEF InitFirst, TellsWhatItRead, Net!Differs
<1>6. TellsWhatItRead(t)'
  <2>1. CASE ~read[t].differs
    <3>1. read[t].up = iface_info.status /\ read[t].link = iface_info.link /\ t = "stack"
      BY <1>1, <1>2, <1>5, <2>1 DEF TellsWhatItRead, Net!Differs
    <3> QED BY <1>1, <1>4, <2>1, <3>1 DEF TellsWhatItRead
  <2>2. CASE read[t].differs /\ Net!IsDown(t)
    <3>1. /\ told_link' = [state |-> "down", link |-> 0] /\ read' = read
          /\ pc'[t] = "tell up"
      BY <1>1, <2>2
    <3>2. told_link' = LinkTold(FALSE, 0) /\ told_link'.state = "down"
      BY <3>1 DEF LinkTold
    <3> QED BY <2>2, <3>1, <3>2 DEF TellsWhatItRead
  <2>3. CASE read[t].differs /\ ~Net!IsDown(t)
    <3>1. read[t].up /\ (iface_info.link = 0 \/ read[t].link = iface_info.link)
      BY <2>3 DEF Net!IsDown
    <3>2. told_link.state = "up" /\ told_link.link # 0 => told_link.link = read[t].link
      BY <1>2, <1>4, <1>5, <3>1 DEF LinkTold
    <3> QED BY <1>1, <2>3, <3>1, <3>2 DEF TellsWhatItRead
  <2> QED BY <2>1, <2>2, <2>3
<1>7. InitFirst'
  BY <1>1, <1>2 DEF InitFirst, LinkWork
<1>8. LinkInfo' /\ V4Info'
  BY <1>1, <1>2 DEF LinkInfo, V4Info, V4Work, LinkWork, LinkDone
<1> QED BY <1>1, <1>3, <1>6, <1>7, <1>8, CallNet

LEMMA TellUpNet ==
  ASSUME Net!TypeOK, NetInv, ~net_overlapped, NEW t \in Net!Threads, Net!TellUp(t)
  PROVE  NetInv'
<1> USE NetFacts, TwoThreads
<1>1. /\ pc[t] = "tell up" /\ pc' = [pc EXCEPT ![t] = "store"]
      /\ told_link' = IF read[t].differs /\ read[t].up
                        THEN [state |-> "up", link |-> read[t].link] ELSE told_link
      /\ UNCHANGED <<link_up, active_link, ipv4_configured, pending, net_overlapped, iface_info, read,
                     net_events, told_v4>>
  BY DEF Net!TellUp, Net!Goto, Net!interface
<1>2. /\ InitFirst /\ LinkInfo /\ V4Info /\ ReadIsFresh(t) /\ TellsWhatItRead(t)
      /\ t \in {"init", "stack"}
      /\ t = "stack" => pc["init"] = "idle" /\ iface_info.sent
      /\ t = "init" => pc["stack"] = "idle" /\ ~iface_info.sent
  BY <1>1, CallFacts
<1>3. ReadIsFresh(t)' /\ TellsWhatItRead(t)'
  BY <1>1, <1>2 DEF ReadIsFresh, TellsWhatItRead, LinkTold
<1>4. InitFirst'
  BY <1>1, <1>2 DEF InitFirst, LinkWork
<1>5. LinkInfo' /\ V4Info'
  BY <1>1, <1>2 DEF LinkInfo, V4Info, V4Work, LinkWork, LinkDone
<1> QED BY <1>1, <1>3, <1>4, <1>5, CallNet

LEMMA StoreNet ==
  ASSUME Net!TypeOK, NetInv, ~net_overlapped, NEW t \in Net!Threads, Net!Store(t)
  PROVE  NetInv'
<1> USE NetFacts, TwoThreads
<1> DEFINE b == IF "v4" \in net_events[t] THEN "read v4" ELSE "return"
<1>1. /\ pc[t] = "store" /\ pc' = [pc EXCEPT ![t] = b]
      /\ iface_info'.status = read[t].up /\ iface_info'.link = read[t].link
      /\ iface_info'.sent = iface_info.sent /\ iface_info'.configured = iface_info.configured
      /\ UNCHANGED <<link_up, active_link, ipv4_configured, pending, net_overlapped, read, net_events,
                     told_link, told_v4>>
  BY DEF Net!Store, Net!Goto, Net!interface, Net!told
<1>2. /\ InitFirst /\ LinkInfo /\ V4Info /\ ReadIsFresh(t) /\ TellsWhatItRead(t)
      /\ t \in {"init", "stack"}
      /\ t = "stack" => pc["init"] = "idle" /\ iface_info.sent
      /\ t = "init" => pc["stack"] = "idle" /\ ~iface_info.sent
  BY <1>1, CallFacts
<1>3. /\ b \in {"read v4", "return"}
      /\ t = "init" => b = "read v4"
  BY <1>1, <1>2 DEF InitFirst, LinkWork, Net!Events
<1>4. b = "read v4" <=> "v4" \in net_events[t]
  OBVIOUS
<1> HIDE DEF b
<1>5. ReadIsFresh(t)' /\ TellsWhatItRead(t)'
  BY <1>1, <1>3 DEF ReadIsFresh, TellsWhatItRead
<1>6. InitFirst'
  BY <1>1, <1>2, <1>3 DEF InitFirst, LinkWork
<1>7. LinkInfo'
  BY <1>1, <1>2, <1>3 DEF LinkInfo, ReadIsFresh, TellsWhatItRead, LinkWork, LinkDone
<1>8. V4Info'
  BY <1>1, <1>2, <1>3, <1>4 DEF V4Info, V4Work, LinkWork
<1> QED BY <1>1, <1>5, <1>6, <1>7, <1>8, CallNet

LEMMA ReadConfiguredNet ==
  ASSUME Net!TypeOK, NetInv, ~net_overlapped, NEW t \in Net!Threads, Net!ReadConfigured(t)
  PROVE  NetInv'
<1> USE NetFacts, TwoThreads
<1>1. /\ pc[t] = "read v4" /\ pc' = [pc EXCEPT ![t] = "tell v4"]
      /\ read'[t].v4 = ipv4_configured
      /\ UNCHANGED <<link_up, active_link, ipv4_configured, pending, net_overlapped, iface_info,
                     net_events, told_link, told_v4>>
  BY DEF Net!ReadConfigured, Net!Goto, Net!interface, Net!told
<1>2. /\ InitFirst /\ LinkInfo /\ V4Info /\ t \in {"init", "stack"}
      /\ t = "stack" => pc["init"] = "idle" /\ iface_info.sent
      /\ t = "init" => pc["stack"] = "idle" /\ ~iface_info.sent
  BY <1>1, CallFacts
<1>3. ReadIsFresh(t)' /\ TellsWhatItRead(t)'
  BY <1>1 DEF ReadIsFresh, TellsWhatItRead
<1>4. InitFirst'
  BY <1>1, <1>2 DEF InitFirst, LinkWork
<1>5. LinkInfo' /\ V4Info'
  BY <1>1, <1>2 DEF LinkInfo, V4Info, V4Work, LinkWork, LinkDone
<1> QED BY <1>1, <1>3, <1>4, <1>5, CallNet

LEMMA TellConfiguredNet ==
  ASSUME Net!TypeOK, NetInv, ~net_overlapped, NEW t \in Net!Threads, Net!TellConfigured(t)
  PROVE  NetInv'
<1> USE NetFacts, TwoThreads
<1>1. /\ pc[t] = "tell v4" /\ pc' = [pc EXCEPT ![t] = "return"]
      /\ told_v4' = IF iface_info.sent /\ read[t].v4 = iface_info.configured THEN told_v4
                    ELSE V4Told(read[t].v4)
      /\ iface_info'.configured = read[t].v4
      /\ iface_info'.sent = iface_info.sent /\ iface_info'.status = iface_info.status
      /\ iface_info'.link = iface_info.link
      /\ UNCHANGED <<link_up, active_link, ipv4_configured, pending, net_overlapped, read, net_events,
                     told_link>>
  BY DEF Net!TellConfigured, Net!Goto, Net!interface, V4Told
<1>2. /\ InitFirst /\ LinkInfo /\ V4Info /\ ReadIsFresh(t) /\ t \in {"init", "stack"}
      /\ t = "stack" => pc["init"] = "idle" /\ iface_info.sent
      /\ t = "init" => pc["stack"] = "idle" /\ ~iface_info.sent
  BY <1>1, CallFacts
<1>3. ReadIsFresh(t)' /\ TellsWhatItRead(t)'
  BY <1>1 DEF ReadIsFresh, TellsWhatItRead
<1>4. InitFirst'
  BY <1>1, <1>2 DEF InitFirst, LinkWork
<1>5. LinkInfo'
  BY <1>1, <1>2 DEF LinkInfo, LinkWork, LinkDone
<1>6. V4Info'
  <2>1. told_v4' = V4Told(iface_info'.configured)
    BY <1>1, <1>2 DEF V4Info
  <2>2. "v4" \notin pending' => iface_info'.configured = ipv4_configured'
    BY <1>1, <1>2 DEF ReadIsFresh
  <2> QED BY <2>1, <2>2 DEF V4Info
<1> QED BY <1>1, <1>3, <1>4, <1>5, <1>6, CallNet

LEMMA ReturnNet ==
  ASSUME Net!TypeOK, NetInv, ~net_overlapped, NEW t \in Net!Threads, Net!Return(t)
  PROVE  NetInv'
<1> USE NetFacts, TwoThreads
<1>1. /\ pc[t] = "return" /\ pc' = [pc EXCEPT ![t] = "idle"]
      /\ iface_info'.sent
      /\ iface_info'.configured = iface_info.configured /\ iface_info'.status = iface_info.status
      /\ iface_info'.link = iface_info.link
      /\ UNCHANGED <<link_up, active_link, ipv4_configured, pending, net_overlapped,
                     told_link, told_v4>>
  BY DEF Net!Return, Net!Goto, Net!interface, Net!told
<1>2. /\ InitFirst /\ LinkInfo /\ V4Info /\ t \in {"init", "stack"}
      /\ t = "stack" => pc["init"] = "idle" /\ iface_info.sent
      /\ t = "init" => pc["stack"] = "idle" /\ ~iface_info.sent
  BY <1>1, CallFacts
<1>3. ReadIsFresh(t)' /\ TellsWhatItRead(t)'
  BY <1>1 DEF ReadIsFresh, TellsWhatItRead
<1>4. InitFirst'
  BY <1>1, <1>2 DEF InitFirst, LinkWork
<1>5. LinkInfo' /\ V4Info'
  BY <1>1, <1>2 DEF LinkInfo, V4Info, V4Work, LinkWork, LinkDone
<1> QED BY <1>1, <1>3, <1>4, <1>5, CallNet

LEMMA StillNet ==
  ASSUME NetInv, UNCHANGED Net!vars
  PROVE  NetInv'
BY DEF Net!vars, Net!interface, Net!told, NetInv, InitFirst, LinkInfo, V4Info, V4Work,
  ReadIsFresh, TellsWhatItRead, Net!Differs

LEMMA StepNet ==
  ASSUME Net!TypeOK, NetInv, [Net!Next]_(Net!vars)
  PROVE  NetInv'
<1>1. ASSUME net_overlapped, Net!Next PROVE net_overlapped'
  BY <1>1 DEF Net!Next, Net!LinkChange, Net!ConfigChange, Net!Configure, Net!Deliver,
    Net!ReadActiveLink, Net!ReadStatus, Net!TellDown, Net!TellUp, Net!Store, Net!ReadConfigured,
    Net!TellConfigured, Net!Return, Net!interface
<1>2. CASE net_overlapped /\ Net!Next
  BY <1>1, <1>2 DEF NetInv
<1>3. CASE ~net_overlapped /\ Net!Next
  BY <1>3, ChangeNet, ConfigureNet, DeliverNet, ReadLinkNet, ReadStatusNet, TellDownNet,
    TellUpNet, StoreNet, ReadConfiguredNet, TellConfiguredNet, ReturnNet DEF Net!Next
<1>4. net_overlapped \in BOOLEAN
  BY DEF Net!TypeOK
<1> QED BY <1>2, <1>3, <1>4, StillNet
-----------------------------------------------------------------------------
LEMMA NetInvariant == Net!Spec => [](Net!TypeOK /\ NetInv)
BY InitTyped, StepTyped, InitNet, StepNet, PTL DEF Net!Spec

\* Beside the other components this one behaves as it does alone.
LEMMA NetSlice == Spec => Net!Spec
<1>1. Init => Net!Init
  BY DEF Init
<1>2. [Next]_vars => [Net!Next]_(Net!vars)
  BY DEF Next, vars, deviceVars, settingVars, netVars, Net!vars, Net!interface, Net!told,
    PrintStep, ScanStep, WirelessStep, BlockStep, NetworkStep, PowerStep,
    StartStep, IpStep, ModeStep
<1> QED BY <1>1, <1>2, PTL DEF Spec, Net!Spec

\* Once every event has been handled the UI has last been told the truth about the
\* link and its configuration (1120-1198), unless the stack called during the init
\* thread's own call (1226).
THEOREM UiKnowsTheLink == Spec => []ToldTheTruth
<1>1. Net!TypeOK /\ NetInv => Net!ToldTheTruth
  <2> SUFFICES ASSUME Net!TypeOK, NetInv, ~net_overlapped, pending = {},
                      pc["init"] = "idle", pc["stack"] = "idle"
               PROVE  /\ told_link = LinkTold(link_up, active_link)
                      /\ told_v4 = V4Told(ipv4_configured)
    BY TwoThreads DEF Net!ToldTheTruth, Net!Settled, LinkTold, V4Told
  <2> QED BY DEF NetInv, LinkInfo, V4Info, V4Work, LinkWork, LinkDone
<1> QED BY <1>1, NetInvariant, NetSlice, PTL DEF ToldTheTruth

\* "let them know the old one is now down": a UI that was told a link is up is told
\* it is down before it hears of another, while the calls do not overlap.
THEOREM SwitchIsTold == Spec => SwitchTellsDown
<1>1. ASSUME Net!TypeOK, NetInv, [Net!Next]_(Net!vars),
             told_link.state = "up", told_link.link # 0, told_link'.state = "up", ~net_overlapped
      PROVE  told_link' = told_link
  <2>1. CASE \E t \in Net!Threads : Net!TellDown(t)
    <3>1. PICK t \in Net!Threads : Net!TellDown(t)
      BY <2>1
    <3>2. CASE read[t].differs /\ Net!IsDown(t)
      <4>1. told_link' = [state |-> "down", link |-> 0]
        BY <3>1, <3>2 DEF Net!TellDown
      <4>2. told_link'.state = "down"
        BY <4>1
      <4> QED BY <1>1, <4>2
    <3>3. CASE ~(read[t].differs /\ Net!IsDown(t))
      BY <3>1, <3>3 DEF Net!TellDown
    <3> QED BY <3>2, <3>3
  <2>2. ASSUME NEW t \in Net!Threads, Net!TellUp(t) PROVE told_link' = told_link
    <3>1. /\ pc[t] = "tell up"
          /\ told_link' = IF read[t].differs /\ read[t].up
                            THEN [state |-> "up", link |-> read[t].link] ELSE told_link
      BY <2>2 DEF Net!TellUp
    <3>2. TellsWhatItRead(t)
      BY <1>1 DEF NetInv
    <3>3. read[t].differs => told_link.link = read[t].link
      BY <1>1, <3>1, <3>2 DEF TellsWhatItRead
    <3>4. told_link = [state |-> told_link.state, link |-> told_link.link]
      BY <1>1 DEF Net!TypeOK
    <3> QED BY <1>1, <3>1, <3>3, <3>4
  <2>3. CASE ~\E t \in Net!Threads : Net!TellDown(t) \/ Net!TellUp(t)
    BY <1>1, <2>3 DEF Net!Next, Net!vars, Net!told, Net!LinkChange, Net!ConfigChange,
      Net!Configure, Net!Deliver, Net!ReadActiveLink, Net!ReadStatus, Net!Store,
      Net!ReadConfigured, Net!TellConfigured, Net!Return
  <2> QED BY <2>1, <2>2, <2>3
<1>2. Net!TypeOK /\ NetInv /\ [Net!Next]_(Net!vars) =>
        (told_link.state = "up" /\ told_link.link # 0 /\ told_link'.state = "up"
           => told_link' = told_link \/ net_overlapped)
  BY <1>1
<1> QED BY <1>2, NetInvariant, NetSlice, PTL DEF SwitchTellsDown, Net!Spec, Net!SwitchTellsDown
=============================================================================

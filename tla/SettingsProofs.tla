----------------------------- MODULE SettingsProofs -----------------------------
(***************************************************************************)
(* The settings of the network, the power manager and the wireless         *)
(* library, for every set of callers, values and wake events.  What is     *)
(* read of a setting and written back later is true as long as no other    *)
(* call comes in between.                                                  *)
(***************************************************************************)
EXTENDS Components, TLAPS
-----------------------------------------------------------------------------
(* The power manager.                                                       *)

\* Until two calls overlap one setter at most has read the mask, and the mask is
\* still what it has read.
PowerInv ==
  ~overlapped =>
    /\ \A t, u \in PowerCallers : power_pc[t] # "idle" /\ power_pc[u] # "idle" => t = u
    /\ \A t \in PowerCallers : power_pc[t] = "write" => event[t] = wake_events
    /\ wake_events = wanted

LEMMA PowerTypes == Power!Spec => []Power!TypeOK
<1>1. Power!Init => Power!TypeOK
  BY DEF Power!Init, Power!TypeOK
<1>2. ASSUME Power!TypeOK, [Power!Next]_(Power!vars) PROVE Power!TypeOK'
  <2> USE <1>2 DEF Power!TypeOK, Power!Calls
  <2>1. ASSUME NEW t \in PowerCallers, Power!SetWakeEvents(t) PROVE Power!TypeOK'
    BY <2>1 DEF Power!SetWakeEvents, Power!Changed
  <2>2. ASSUME NEW t \in PowerCallers, NEW c \in Power!Calls, Power!GetWakeEvents(t, c)
        PROVE  Power!TypeOK'
    BY <2>2 DEF Power!GetWakeEvents
  <2>3. CASE UNCHANGED Power!vars
    BY <2>3 DEF Power!vars
  <2> QED BY <1>2, <2>1, <2>2, <2>3 DEF Power!Next
<1> QED BY <1>1, <1>2, PTL DEF Power!Spec

LEMMA PowerSteps ==
  ASSUME Power!TypeOK, PowerInv, [Power!Next]_(Power!vars)
  PROVE  PowerInv'
<1>1. ASSUME NEW t \in PowerCallers, Power!SetWakeEvents(t), ~overlapped PROVE PowerInv'
  <2>1. /\ power_pc[t] = "write" /\ event[t] = wake_events /\ wake_events = wanted
        /\ \A u \in PowerCallers : power_pc[u] # "idle" => u = t
    BY <1>1 DEF PowerInv, Power!SetWakeEvents
  <2>2. /\ wake_events' = wanted' /\ event' = event
        /\ \A u \in PowerCallers : power_pc'[u] = IF u = t THEN "idle" ELSE power_pc[u]
    BY <1>1, <2>1 DEF Power!SetWakeEvents, Power!TypeOK
  <2>3. \A u \in PowerCallers : power_pc'[u] = "idle"
    BY <2>1, <2>2
  <2> QED BY <2>2, <2>3 DEF PowerInv
<1>2. ASSUME NEW t \in PowerCallers, NEW c \in Power!Calls, Power!GetWakeEvents(t, c),
             ~overlapped'
      PROVE  PowerInv'
  <2>1. ~overlapped /\ \A u \in PowerCallers : power_pc[u] = "idle"
    BY <1>2 DEF Power!GetWakeEvents
  <2>2. /\ wake_events' = wake_events /\ wanted' = wanted /\ event'[t] = wake_events
        /\ \A u \in PowerCallers : power_pc'[u] = IF u = t THEN "write" ELSE power_pc[u]
    BY <1>2 DEF Power!GetWakeEvents, Power!TypeOK
  <2> QED BY <2>1, <2>2 DEF PowerInv
<1>3. CASE UNCHANGED Power!vars
  BY <1>3 DEF Power!vars, PowerInv
<1>4. ASSUME NEW t \in PowerCallers, Power!SetWakeEvents(t) PROVE overlapped' = overlapped
  BY <1>4 DEF Power!SetWakeEvents
<1>5. Power!Next => PowerInv'
  BY <1>1, <1>2, <1>4 DEF Power!Next, PowerInv
<1> QED BY <1>3, <1>5

\* Beside the other components this one behaves as it does alone.
LEMMA PowerSlice == Spec => Power!Spec
<1>1. Init => Power!Init
  BY DEF Init
<1>2. [Next]_vars => [Power!Next]_(Power!vars)
  BY DEF Next, vars, deviceVars, settingVars, powerVars, Power!vars,
    PrintStep, ScanStep, WirelessStep, BlockStep, NetworkStep, PowerStep,
    StartStep, IpStep, ModeStep
<1> QED BY <1>1, <1>2, PTL DEF Spec, Power!Spec

\* No setter of a wake event disturbs the bit of another, as long as the calls do not
\* overlap: the mask is what the finished calls ask for (36-214).
THEOREM WakeMaskIsKept == Spec => []WakeSettingsHold
<1>1. Power!Init => PowerInv
  BY DEF Power!Init, PowerInv
<1>2. Power!TypeOK /\ PowerInv /\ [Power!Next]_(Power!vars) => PowerInv'
  BY PowerSteps
<1>3. PowerInv => Power!WakeSettingsHold
  BY DEF PowerInv, Power!WakeSettingsHold
<1> QED BY <1>1, <1>2, <1>3, PowerTypes, PowerSlice, PTL DEF WakeSettingsHold, Power!Spec
-----------------------------------------------------------------------------
(* The modes of the wireless interfaces.                                    *)

\* A mode that would stop the machine when it is got has been refused when it was set.
ModesInv ==
  /\ \A s \in Modes!Asserted : mode[s] = "unknown" => s \in refused
  /\ Modes!StopsOnlyOnRefused

\* A setter stops the machine or stores the mode, answering false for one that is
\* unknown where a getter asserts.
Halts == halted' = "setter" /\ UNCHANGED <<mode, refused, enabled, cable_in>>
Stores(s, m, answer) ==
  /\ s \in Modes!Asserted /\ m = "unknown" => ~answer
  /\ Modes!Store(s, m, answer)
  /\ UNCHANGED <<enabled, cable_in>>

LEMMA ModeSet ==
  ASSUME NEW m, Modes!Set(m)
  PROVE  Halts \/ \E s \in Modes!Settings, answer \in BOOLEAN : Stores(s, m, answer)
<1> USE DEF Modes!Settings
<1>1. UNCHANGED <<enabled, cable_in>>
  BY DEF Modes!Set
<1>2. CASE Modes!StationSecurityModeSet(m)
  <2>1. CASE m = "known"
    BY <1>1, <1>2, <2>1 DEF Modes!StationSecurityModeSet, Stores
  <2>2. CASE m # "known"
    BY <1>1, <1>2, <2>2 DEF Modes!StationSecurityModeSet, Halts
  <2> QED BY <2>1, <2>2
<1>3. ASSUME NEW s \in Modes!Settings, NEW answer \in BOOLEAN, Modes!Store(s, m, answer),
             s = "station wep auth" \/ s = "station comm" \/ answer = (m = "known")
      PROVE  Stores(s, m, answer)
  BY <1>1, <1>3 DEF Stores, Modes!Asserted
<1>4. CASE Modes!StationWepAuthModeSet(m) \/ Modes!StationCommModeSet(m)
  BY <1>3, <1>4 DEF Modes!StationWepAuthModeSet, Modes!StationCommModeSet
<1>5. CASE Modes!MicroapSecurityModeSet(m) \/ Modes!MicroapWepAuthModeSet(m)
             \/ Modes!MicroapEncrypModeSet(m)
  BY <1>3, <1>5
    DEF Modes!MicroapSecurityModeSet, Modes!MicroapWepAuthModeSet, Modes!MicroapEncrypModeSet
<1> QED BY <1>2, <1>4, <1>5 DEF Modes!Set

LEMMA ModeTypes == Modes!Spec => []Modes!TypeOK
<1>1. Modes!Init => Modes!TypeOK
  BY DEF Modes!Init, Modes!TypeOK, Modes!Modes
<1>2. ASSUME Modes!TypeOK, [Modes!Next]_(Modes!vars) PROVE Modes!TypeOK'
  <2> USE <1>2 DEF Modes!TypeOK, Modes!Settings, Modes!Modes
  <2>1. ASSUME NEW m \in Modes!Modes, Modes!Set(m) PROVE Modes!TypeOK'
    <3>1. CASE Halts
      BY <3>1 DEF Halts
    <3>2. ASSUME NEW s \in Modes!Settings, NEW answer \in BOOLEAN, Stores(s, m, answer)
          PROVE  Modes!TypeOK'
      BY <3>2 DEF Stores, Modes!Store
    <3> QED BY <2>1, <3>1, <3>2, ModeSet
  <2>2. ASSUME NEW s \in Modes!Settings, Modes!Get(s) PROVE Modes!TypeOK'
    BY <2>2 DEF Modes!Get
  <2>3. ASSUME NEW settings, Modes!Restore(settings) PROVE Modes!TypeOK'
    BY <2>3 DEF Modes!Restore
  <2>4. ASSUME NEW iface \in {"station", "uap"}, NEW on \in BOOLEAN, Modes!EnabledSet(iface, on)
        PROVE  Modes!TypeOK'
    BY <2>4 DEF Modes!EnabledSet
  <2>5. CASE Modes!Cable
    BY <2>5 DEF Modes!Cable
  <2>6. CASE UNCHANGED Modes!vars
    BY <2>6 DEF Modes!vars
  <2> QED
    BY <1>2, <2>1, <2>2, <2>3, <2>4, <2>5, <2>6
      DEF Modes!Next, Modes!RestoreDefaults, Modes!RestoreDefault
<1> QED BY <1>1, <1>2, PTL DEF Modes!Spec
LEMMA ModeSteps ==
  ASSUME Modes!TypeOK, ModesInv, [Modes!Next]_(Modes!vars)
  PROVE  ModesInv'
<1> USE DEF ModesInv, Modes!StopsOnlyOnRefused
<1>1. ASSUME NEW m \in Modes!Modes, Modes!Set(m), halted = "no" PROVE ModesInv'
  <2>1. CASE Halts
    BY <2>1 DEF Halts
  <2>2. ASSUME NEW s \in Modes!Settings, NEW answer \in BOOLEAN, Stores(s, m, answer)
        PROVE  ModesInv'
    <3>1. /\ \A r \in Modes!Settings : mode'[r] = IF r = s THEN m ELSE mode[r]
          /\ \A r : r \in refused' <=> IF r = s THEN ~answer ELSE r \in refused
          /\ s \in Modes!Asserted /\ m = "unknown" => ~answer
          /\ halted' = "no"
      BY <1>1, <2>2 DEF Stores, Modes!Store, Modes!TypeOK
    <3>2. Modes!Asserted \subseteq Modes!Settings
      BY DEF Modes!Asserted, Modes!Settings
    <3> QED BY <3>1, <3>2
  <2> QED BY <1>1, <2>1, <2>2, ModeSet
<1>2. ASSUME NEW s \in Modes!Settings, Modes!Get(s), halted = "no" PROVE ModesInv'
  BY <1>2 DEF Modes!Get
<1>3. ASSUME NEW settings, Modes!Restore(settings), halted = "no" PROVE ModesInv'
  <2>1. Modes!Asserted \subseteq Modes!Settings
    BY DEF Modes!Asserted, Modes!Settings
  <2> QED BY <1>3, <2>1 DEF Modes!Restore
<1>4. ASSUME NEW iface \in {"station", "uap"}, NEW on \in BOOLEAN, Modes!EnabledSet(iface, on)
      PROVE  ModesInv'
  BY <1>4 DEF Modes!EnabledSet
<1>5. CASE Modes!Cable
  BY <1>5 DEF Modes!Cable
<1>6. CASE UNCHANGED Modes!vars
  BY <1>6 DEF Modes!vars
<1> QED
  BY <1>1, <1>2, <1>3, <1>4, <1>5, <1>6
    DEF Modes!Next, Modes!RestoreDefaults, Modes!RestoreDefault

\* Beside the other components this one behaves as it does alone.
LEMMA ModeSlice == Spec => Modes!Spec
<1>1. Init => Modes!Init
  BY DEF Init
<1>2. [Next]_vars => [Modes!Next]_(Modes!vars)
  BY DEF Next, vars, deviceVars, settingVars, modeVars, Modes!vars,
    PrintStep, ScanStep, WirelessStep, BlockStep, NetworkStep, PowerStep,
    StartStep, IpStep, ModeStep
<1> QED BY <1>1, <1>2, PTL DEF Spec, Modes!Spec

\* A getter stops the machine only over a mode whose setter has answered false and
\* that nothing has replaced since (644-664, 773-901, 995-1053).
THEOREM HeedingCallersNeverStop == Spec => []StopsOnlyOnRefused
<1>1. Modes!Init => ModesInv
  BY DEF Modes!Init, ModesInv, Modes!StopsOnlyOnRefused, Modes!Asserted, Modes!Settings
<1>2. Modes!TypeOK /\ ModesInv /\ [Modes!Next]_(Modes!vars) => ModesInv'
  BY ModeSteps
<1>3. ModesInv => Modes!StopsOnlyOnRefused
  BY DEF ModesInv
<1> QED BY <1>1, <1>2, <1>3, ModeTypes, ModeSlice, PTL DEF StopsOnlyOnRefused, Modes!Spec
-----------------------------------------------------------------------------
(* The IP settings.                                                         *)

Fields == {"address", "mask", "gateway", "name", "ipv6", "options"}

LEMMA OneInterface == \A type : Ip!net_interface_index_get(type) = "uAP_drvr"
BY DEF Ip!net_interface_index_get

LEMMA SettingFields ==
  ASSUME NEW r \in Ip!Settings
  PROVE  DOMAIN r = Fields
BY DEF Ip!Settings, Fields

\* Any setting given its own kind of value leaves settings.
LEMMA SettingChanged ==
  ASSUME NEW r \in Ip!Settings, NEW f \in Fields, NEW v,
         f # "options" => v \in Values, f = "options" => v \subseteq Ip!Options
  PROVE  [r EXCEPT ![f] = v] \in Ip!Settings
<1>1. CASE f = "options"
  BY <1>1 DEF Ip!Settings
<1>2. CASE f # "options"
  BY <1>2 DEF Ip!Settings, Fields
<1> QED BY <1>1, <1>2

\* What a followed text has been asked to be it is, as long as no switch is left that
\* writes it: a switch to manual addresses ends the expectation.
TextKept ==
  asked # Ip!NoRequest /\ watched \notin Ip!Options =>
    Ip!Settled(watched) /\ store["uAP_drvr"][watched] = asked.value

\* A followed option is on or off as asked in the options that each caller inside a
\* switch has yet to write, and in those of the interface, at least when no caller is;
\* and the request to be in manual mode or not is of the only caller inside a switch.
Inside(c) == settings_pc[c] # "idle"
OptionKept ==
  asked # Ip!NoRequest /\ watched \in Ip!Options =>
    /\ \A c \in IpCallers : Inside(c) => Ip!Switched(watched, flags[c]) = asked.value
    /\ (\A c \in IpCallers : ~Inside(c)) \/ watched = "dhcp" =>
         Ip!Switched(watched, store["uAP_drvr"].options) = asked.value
    /\ watched = "manual" => \A c, d \in IpCallers : Inside(c) /\ Inside(d) => c = d

IpInv ==
  /\ Ip!TypeOK
  /\ \A c \in IpCallers : if_index[c] = "uAP_drvr"
  /\ TextKept /\ OptionKept

LEMMA OptionsSettled ==
  ASSUME Ip!TypeOK, NEW s \in Ip!Options
  PROVE  Ip!Settled(s) <=> \A c \in IpCallers : ~Inside(c)
<1>1. ASSUME NEW c \in IpCallers PROVE s \in Ip!ToWrite(settings_pc[c]) <=> Inside(c)
  <2>1. settings_pc[c] \in {"idle", "options", "address", "mask", "gateway"}
    BY DEF Ip!TypeOK, Ip!Ipv4Texts
  <2> QED BY <2>1 DEF Ip!ToWrite, Inside, Ip!Options, Ip!Ipv4Texts
<1> QED BY <1>1 DEF Ip!Settled

\* What a request does to what is expected.
LEMMA Asks ==
  ASSUME NEW s, NEW type, NEW v, Ip!Ask(s, type, v)
  PROVE  /\ watched' = watched
         /\ watched # s => asked' = asked
         /\ watched = s => asked' = IF Ip!Settled(s) THEN [type |-> type, value |-> v] ELSE Ip!NoRequest
BY DEF Ip!Ask

LEMMA AskedTyped ==
  ASSUME Ip!TypeOK, NEW s, NEW type \in IpTypes, NEW v \in Values \cup {0, 1}, Ip!Ask(s, type, v)
  PROVE  /\ watched' \in Ip!Requested
         /\ asked' = Ip!NoRequest \/ asked' \in [type: IpTypes, value: Values \cup {0, 1}]
BY DEF Ip!Ask, Ip!TypeOK

\* What a write to one setting of one interface does.
Writes(i, f, v) == store' = [store EXCEPT ![i][f] = v]

LEMMA StoreWritten ==
  ASSUME Ip!TypeOK, NEW i \in {"ethernet", "uAP_drvr"}, NEW f \in Fields, NEW v,
         f # "options" => v \in Values, f = "options" => v \subseteq Ip!Options,
         Writes(i, f, v)
  PROVE  /\ store' \in [{"ethernet", "uAP_drvr"} -> Ip!Settings]
         /\ \A g \in Fields : store'[i][g] = IF g = f THEN v ELSE store[i][g]
<1>1. store \in [{"ethernet", "uAP_drvr"} -> Ip!Settings] /\ store[i] \in Ip!Settings
  BY DEF Ip!TypeOK
<1> DEFINE new == [store[i] EXCEPT ![f] = v]
<1>2. new \in Ip!Settings
  BY <1>1, SettingChanged
<1>3. \A g \in Fields : new[g] = IF g = f THEN v ELSE store[i][g]
  BY <1>1, SettingFields
<1>4. store' = [store EXCEPT ![i] = new]
  BY DEF Writes
<1> HIDE DEF new
<1> QED BY <1>1, <1>2, <1>3, <1>4

LEMMA IpPassOn ==
  ASSUME IpInv, NEW c \in IpCallers, NEW type \in IpTypes, NEW f \in Ip!Ipv4Texts \cup {"name"},
         NEW v \in Values, Ip!PassOn(c, type, f, v)
  PROVE  IpInv'
<1>1. /\ Ip!TypeOK /\ Ip!Ask(f, type, v) /\ f \in Fields /\ f # "options" /\ f \notin Ip!Options
      /\ store' = [store EXCEPT !["uAP_drvr"][f] = v]
      /\ UNCHANGED <<settings_pc, if_index, flags>>
  BY OneInterface DEF IpInv, Ip!PassOn, Fields, Ip!Ipv4Texts, Ip!Options
<1>2. /\ store' \in [{"ethernet", "uAP_drvr"} -> Ip!Settings]
      /\ \A g \in Fields : store'["uAP_drvr"][g] = IF g = f THEN v ELSE store["uAP_drvr"][g]
  <2> DEFINE u == "uAP_drvr"
  <2>1. u \in {"ethernet", "uAP_drvr"} /\ Writes(u, f, v)
    BY <1>1 DEF Writes
  <2> HIDE DEF u
  <2>2. /\ store' \in [{"ethernet", "uAP_drvr"} -> Ip!Settings]
        /\ \A g \in Fields : store'[u][g] = IF g = f THEN v ELSE store[u][g]
    BY <1>1, <2>1, StoreWritten
  <2> QED BY <2>2 DEF u
<1>3. Ip!TypeOK'
  BY <1>1, <1>2, AskedTyped DEF Ip!TypeOK
<1>4. /\ watched' = watched /\ (watched # f => asked' = asked)
      /\ watched = f => asked' = IF Ip!Settled(f) THEN [type |-> type, value |-> v] ELSE Ip!NoRequest
  BY <1>1, Asks
<1>5. \A s : Ip!Settled(s)' <=> Ip!Settled(s)
  BY <1>1 DEF Ip!Settled
<1>6. TextKept'
  <2>1. CASE watched = f
    <3>1. asked' # Ip!NoRequest => Ip!Settled(f) /\ asked'.value = v
      BY <1>4, <2>1
    <3> QED BY <1>1, <1>2, <1>4, <1>5, <2>1, <3>1 DEF TextKept
  <2>2. CASE watched # f /\ watched \notin Ip!Options
    <3>1. watched \in Fields
      BY <1>1, <2>2 DEF Ip!TypeOK, Ip!Requested, Fields, Ip!Ipv4Texts
    <3> QED BY <1>2, <1>4, <1>5, <2>2, <3>1 DEF IpInv, TextKept
  <2> QED BY <1>4, <2>1, <2>2 DEF TextKept
<1>7. OptionKept'
  <2>1. watched \in Ip!Options => watched # f
    BY <1>1
  <2>2. store'["uAP_drvr"].options = store["uAP_drvr"].options
    BY <1>1, <1>2 DEF Fields
  <2> QED BY <1>1, <1>4, <2>1, <2>2 DEF IpInv, OptionKept, Inside
<1> QED BY <1>1, <1>3, <1>6, <1>7 DEF IpInv

LEMMA IpIpv6 ==
  ASSUME IpInv, NEW c \in IpCallers, NEW type, Ip!Ipv6Set(c, type)
  PROVE  IpInv'
<1> DEFINE u == "uAP_drvr"
           f == "ipv6"
<1>1. PICK v \in Values : store' = [store EXCEPT ![u][f] = v]
  BY OneInterface DEF Ip!Ipv6Set
<1>2. UNCHANGED <<settings_pc, if_index, flags, watched, asked>> /\ Ip!TypeOK
  BY DEF Ip!Ipv6Set, Ip!history, IpInv
<1>3. u \in {"ethernet", "uAP_drvr"} /\ f \in Fields /\ f # "options" /\ Writes(u, f, v)
  BY <1>1 DEF Fields, Writes
<1> HIDE DEF u, f
<1>4. /\ store' \in [{"ethernet", "uAP_drvr"} -> Ip!Settings]
      /\ \A g \in Fields : store'[u][g] = IF g = f THEN v ELSE store[u][g]
  BY <1>2, <1>3, StoreWritten
<1>5. Ip!TypeOK'
  BY <1>2, <1>4 DEF Ip!TypeOK
<1>6. \A s : Ip!Settled(s)' <=> Ip!Settled(s)
  BY <1>2 DEF Ip!Settled
<1>7. \A g \in Fields \ {"ipv6"} : store'["uAP_drvr"][g] = store["uAP_drvr"][g]
  BY <1>4 DEF u, f
<1>8. TextKept'
  <2>1. watched \notin Ip!Options => watched \in Fields \ {"ipv6"}
    BY <1>2 DEF Ip!TypeOK, Ip!Requested, Fields, Ip!Ipv4Texts
  <2> QED BY <1>2, <1>6, <1>7, <2>1 DEF IpInv, TextKept
<1>9. OptionKept'
  <2>1. store'["uAP_drvr"].options = store["uAP_drvr"].options
    BY <1>7 DEF Fields
  <2> QED BY <1>2, <2>1 DEF IpInv, OptionKept, Inside
<1> QED BY <1>2, <1>5, <1>8, <1>9 DEF IpInv

LEMMA IpOptions ==
  ASSUME IpInv, NEW c \in IpCallers, NEW type \in IpTypes, NEW options \in SUBSET Ip!Options,
         Ip!OptionsSet(c, type, options)
  PROVE  IpInv'
<1> DEFINE u == "uAP_drvr"
           f == "options"
<1>1. /\ store' = [store EXCEPT ![u][f] = options] /\ Ip!AskOptions(type, options)
      /\ UNCHANGED <<settings_pc, if_index, flags>> /\ Ip!TypeOK
  BY OneInterface DEF Ip!OptionsSet, IpInv
<1>2. u \in {"ethernet", "uAP_drvr"} /\ f \in Fields /\ f = "options" /\ Writes(u, f, options)
  BY <1>1 DEF Fields, Writes
<1> HIDE DEF u, f
<1>3. /\ store' \in [{"ethernet", "uAP_drvr"} -> Ip!Settings]
      /\ \A g \in Fields : store'[u][g] = IF g = f THEN options ELSE store[u][g]
  BY <1>1, <1>2, StoreWritten
<1>4. /\ store'["uAP_drvr"].options = options
      /\ \A g \in Fields \ {"options"} : store'["uAP_drvr"][g] = store["uAP_drvr"][g]
  BY <1>3 DEF u, f, Fields
<1>5. Ip!Switched(watched, options) \in {0, 1}
  BY DEF Ip!Switched
<1>6. /\ watched' = watched
      /\ watched \notin Ip!Options => asked' = asked
      /\ watched \in Ip!Options =>
           asked' = IF Ip!Settled(watched)
                      THEN [type |-> type, value |-> Ip!Switched(watched, options)] ELSE Ip!NoRequest
  BY <1>1 DEF Ip!AskOptions
<1>7. asked' = Ip!NoRequest \/ asked' \in [type: IpTypes, value: Values \cup {0, 1}]
  <2>1. CASE asked' = asked \/ asked' = Ip!NoRequest
    BY <1>1, <2>1 DEF Ip!TypeOK
  <2>2. CASE asked' = [type |-> type, value |-> Ip!Switched(watched, options)]
    BY <1>5, <2>2
  <2> QED BY <1>6, <2>1, <2>2
<1>8. Ip!TypeOK'
  BY <1>1, <1>3, <1>6, <1>7 DEF Ip!TypeOK
<1>9. \A s : Ip!Settled(s)' <=> Ip!Settled(s)
  BY <1>1 DEF Ip!Settled
<1>10. TextKept'
  <2>1. watched \notin Ip!Options => watched \in Fields \ {"options"}
    BY <1>1 DEF Ip!TypeOK, Ip!Requested, Fields, Ip!Ipv4Texts
  <2> QED BY <1>4, <1>6, <1>9, <2>1 DEF IpInv, TextKept
<1>11. OptionKept'
  <2> SUFFICES ASSUME asked' # Ip!NoRequest, watched \in Ip!Options PROVE OptionKept'
    BY <1>6 DEF OptionKept
  <2>1. Ip!Settled(watched) /\ asked'.value = Ip!Switched(watched, options)
    BY <1>6
  <2>2. \A d \in IpCallers : ~Inside(d)
    BY <1>1, <2>1, OptionsSettled
  <2>3. \A d \in IpCallers : ~(settings_pc'[d] # "idle")
    BY <1>1, <2>2 DEF Inside
  <2> QED BY <1>4, <1>6, <2>1, <2>3 DEF OptionKept, Inside
<1> QED BY <1>1, <1>8, <1>10, <1>11 DEF IpInv

LEMMA IpRestore ==
  ASSUME IpInv, 0 \in Values, NEW c \in IpCallers, Ip!RestoreDefaults(c)
  PROVE  IpInv'
<1>1. Ip!Defaults \in Ip!Settings
  BY DEF Ip!Defaults, Ip!Settings, Ip!Options
<1>2. /\ store' = [store EXCEPT !["ethernet"] = Ip!Defaults] /\ asked' = Ip!NoRequest
      /\ UNCHANGED <<settings_pc, if_index, flags, watched>>
  BY DEF Ip!RestoreDefaults, Ip!RestoreWired
<1>3. store' \in [{"ethernet", "uAP_drvr"} -> Ip!Settings]
  BY <1>1, <1>2 DEF IpInv, Ip!TypeOK
<1>4. Ip!TypeOK'
  BY <1>2, <1>3 DEF IpInv, Ip!TypeOK
<1>5. TextKept' /\ OptionKept'
  BY <1>2 DEF TextKept, OptionKept
<1> QED BY <1>2, <1>4, <1>5 DEF IpInv

\* A caller goes into a switch with the options it has read, or has nothing to switch.
LEMMA IpSwitch ==
  ASSUME IpInv, NEW c \in IpCallers, NEW type \in IpTypes, NEW v \in {0, 1}, NEW label,
         label \in {"idle", "options", "address"}, NEW new, new \subseteq Ip!Options,
         store' = store,
         if_index' = [if_index EXCEPT ![c] = "uAP_drvr"],
         settings_pc' = [settings_pc EXCEPT ![c] = label],
         flags' = [flags EXCEPT ![c] = new],
         \/ Ip!Ask("manual", type, v) /\ (label = "address" => watched \notin Ip!Ipv4Texts)
         \/ watched \in Ip!Ipv4Texts /\ asked' = Ip!NoRequest /\ watched' = watched,
         Ip!Switched("manual", new) = v,
         Ip!Switched("dhcp", new) = Ip!Switched("dhcp", store["uAP_drvr"].options),
         label = "idle" => Ip!Switched("manual", store["uAP_drvr"].options) = v
  PROVE  IpInv'
<1>1. Ip!TypeOK /\ watched \in Ip!Requested /\ watched' = watched
  BY DEF IpInv, Ip!TypeOK, Ip!Ask
<1>2. /\ \A d \in IpCallers : settings_pc'[d] = IF d = c THEN label ELSE settings_pc[d]
      /\ \A d \in IpCallers : flags'[d] = IF d = c THEN new ELSE flags[d]
  BY <1>1 DEF Ip!TypeOK
<1>3. asked' = Ip!NoRequest \/ asked' \in [type: IpTypes, value: Values \cup {0, 1}]
  BY <1>1, AskedTyped DEF Ip!TypeOK
<1>4. Ip!TypeOK'
  BY <1>1, <1>3 DEF Ip!TypeOK, Ip!Ipv4Texts
<1>5. watched # "manual" => asked' = asked \/ asked' = Ip!NoRequest
  BY DEF Ip!Ask
<1>6. TextKept'
  <2> SUFFICES ASSUME asked' # Ip!NoRequest, watched \notin Ip!Options
               PROVE  Ip!Settled(watched)' /\ store["uAP_drvr"][watched] = asked'.value
    BY <1>1 DEF TextKept
  <2>1. asked' = asked
    BY <1>5 DEF Ip!Options
  <2>2. Ip!Settled(watched) /\ store["uAP_drvr"][watched] = asked.value
    BY <2>1 DEF IpInv, TextKept
  <2>3. watched \notin Ip!ToWrite(label)
    BY <1>1 DEF Ip!ToWrite, Ip!Requested, Ip!Ipv4Texts, Ip!Options
  <2>4. \A d \in IpCallers : watched \notin Ip!ToWrite(settings_pc'[d])
    BY <1>2, <2>2, <2>3 DEF Ip!Settled
  <2> QED BY <1>1, <2>1, <2>2, <2>4 DEF Ip!Settled
<1>7. OptionKept'
  <2> SUFFICES ASSUME asked' # Ip!NoRequest, watched \in Ip!Options PROVE OptionKept'
    BY <1>1 DEF OptionKept
  <2>1. CASE watched = "manual"
    <3>1. Ip!Ask("manual", type, v)
      BY <2>1 DEF Ip!Ipv4Texts
    <3>2. Ip!Settled("manual") /\ asked'.value = v
      BY <2>1, <3>1, Asks
    <3>3. \A d \in IpCallers : settings_pc[d] = "idle"
      BY <1>1, <2>1, <3>2, OptionsSettled DEF Inside
    <3>4. \A d \in IpCallers : d # c => settings_pc'[d] = "idle"
      BY <1>2, <3>3
    <3>5. \A d \in IpCallers : settings_pc'[d] # "idle" => Ip!Switched("manual", flags'[d]) = asked'.value
      BY <1>2, <3>2, <3>4
    <3>6. (\A d \in IpCallers : settings_pc'[d] = "idle") =>
            Ip!Switched("manual", store["uAP_drvr"].options) = asked'.value
      BY <1>2, <3>2
    <3> QED BY <1>1, <2>1, <3>4, <3>5, <3>6 DEF OptionKept, Inside
  <2>2. CASE watched = "dhcp"
    <3>1. asked' = asked
      BY <1>5, <2>2
    <3>2. /\ \A d \in IpCallers : settings_pc[d] # "idle" => Ip!Switched("dhcp", flags[d]) = asked.value
          /\ Ip!Switched("dhcp", store["uAP_drvr"].options) = asked.value
      BY <2>2, <3>1 DEF IpInv, OptionKept, Inside
    <3>3. \A d \in IpCallers : settings_pc'[d] # "idle" => Ip!Switched("dhcp", flags'[d]) = asked.value
      BY <1>2, <3>2
    <3> QED BY <1>1, <2>2, <3>1, <3>2, <3>3 DEF OptionKept, Inside
  <2> QED BY <2>1, <2>2 DEF Ip!Options
<1>8. \A d \in IpCallers : if_index'[d] = "uAP_drvr"
  BY <1>1 DEF IpInv, Ip!TypeOK
<1> QED BY <1>4, <1>6, <1>7, <1>8 DEF IpInv

LEMMA IpAutomatic ==
  ASSUME IpInv, NEW c \in IpCallers, NEW type \in IpTypes, Ip!SetAutomatic(c, type)
  PROVE  IpInv'
<1> DEFINE options == store["uAP_drvr"].options
           new == options \ {"manual"}
           label == IF "manual" \in options THEN "options" ELSE "idle"
<1>1. /\ Ip!Ask("manual", type, 0)
      /\ if_index' = [if_index EXCEPT ![c] = "uAP_drvr"]
      /\ flags' = [flags EXCEPT ![c] = new]
      /\ settings_pc' = [settings_pc EXCEPT ![c] = label]
      /\ store' = store
  BY OneInterface DEF Ip!SetAutomatic, Ip!InManual
<1>2. new \subseteq Ip!Options
  BY DEF IpInv, Ip!TypeOK, Ip!Settings
<1>3. /\ Ip!Switched("manual", new) = 0
      /\ Ip!Switched("dhcp", new) = Ip!Switched("dhcp", options)
      /\ label \in {"options", "idle"}
      /\ label = "idle" => Ip!Switched("manual", options) = 0
  BY DEF Ip!Switched
<1>4. options = store["uAP_drvr"].options
  OBVIOUS
<1> HIDE DEF options, new, label
<1> QED BY <1>1, <1>2, <1>3, <1>4, IpSwitch

LEMMA IpManual ==
  ASSUME IpInv, NEW c \in IpCallers, NEW type \in IpTypes, Ip!SetManual(c, type)
  PROVE  IpInv'
<1> DEFINE options == store["uAP_drvr"].options
           new == options \cup {"manual"}
           label == "address"
<1>1. /\ \/ Ip!Ask("manual", type, 1) /\ watched \notin Ip!Ipv4Texts
         \/ watched \in Ip!Ipv4Texts /\ asked' = Ip!NoRequest /\ watched' = watched
      /\ if_index' = [if_index EXCEPT ![c] = "uAP_drvr"]
      /\ flags' = [flags EXCEPT ![c] = new]
      /\ settings_pc' = [settings_pc EXCEPT ![c] = label]
      /\ store' = store
  BY OneInterface DEF Ip!SetManual
<1>2. new \subseteq Ip!Options
  BY DEF IpInv, Ip!TypeOK, Ip!Settings, Ip!Options
<1>3. /\ Ip!Switched("manual", new) = 1
      /\ Ip!Switched("dhcp", new) = Ip!Switched("dhcp", options)
      /\ label = "address" /\ label # "idle"
  BY DEF Ip!Switched
<1>4. options = store["uAP_drvr"].options
  OBVIOUS
<1> HIDE DEF options, new, label
<1> QED BY <1>1, <1>2, <1>3, <1>4, IpSwitch

LEMMA IpWriteManual ==
  ASSUME IpInv, 0 \in Values, NEW c \in IpCallers, Ip!WriteManual(c)
  PROVE  IpInv'
<1> DEFINE at == settings_pc[c]
           i == if_index[c]
           next == Ip!Following(at)
           v == Ip!NewConfig[at]
<1>1. /\ at \in Ip!Ipv4Texts /\ at \in Fields /\ at # "options" /\ at # "idle"
      /\ at \in Ip!ToWrite(at)
  BY DEF Ip!WriteManual, Ip!Ipv4Texts, Fields, Ip!ToWrite
<1>2. /\ Writes(i, at, v)
      /\ settings_pc' = [settings_pc EXCEPT ![c] = next]
      /\ UNCHANGED <<if_index, flags, watched, asked>>
  BY <1>1 DEF Ip!WriteManual, Ip!history, Writes
<1>3. v = 0 /\ i = "uAP_drvr" /\ Ip!TypeOK
  BY <1>1 DEF Ip!NewConfig, IpInv
<1>4. /\ next \in Ip!Ipv4Texts \cup {"options"} /\ next # "idle"
      /\ Ip!ToWrite(next) \subseteq Ip!ToWrite(at)
  BY <1>1 DEF Ip!Following, Ip!ToWrite, Ip!Ipv4Texts
<1>5. at = settings_pc[c]
  OBVIOUS
<1> HIDE DEF at, i, next, v
<1>6. /\ store' \in [{"ethernet", "uAP_drvr"} -> Ip!Settings]
      /\ \A g \in Fields : store'["uAP_drvr"][g] = IF g = at THEN 0 ELSE store["uAP_drvr"][g]
  <2>1. i \in {"ethernet", "uAP_drvr"} /\ v \in Values
    BY <1>3
  <2>2. /\ store' \in [{"ethernet", "uAP_drvr"} -> Ip!Settings]
        /\ \A g \in Fields : store'[i][g] = IF g = at THEN v ELSE store[i][g]
    BY <1>1, <1>2, <1>3, <2>1, StoreWritten
  <2> QED BY <1>3, <2>2
<1>7. Ip!TypeOK'
  BY <1>2, <1>3, <1>4, <1>6 DEF Ip!TypeOK
<1>8. \A d \in IpCallers : settings_pc'[d] = IF d = c THEN next ELSE settings_pc[d]
  BY <1>2, <1>3 DEF Ip!TypeOK
<1>9. TextKept'
  <2> SUFFICES ASSUME asked # Ip!NoRequest, watched \notin Ip!Options
               PROVE  Ip!Settled(watched)' /\ store'["uAP_drvr"][watched] = asked.value
    BY <1>2 DEF TextKept
  <2>1. Ip!Settled(watched) /\ store["uAP_drvr"][watched] = asked.value
    BY DEF IpInv, TextKept
  <2>2. \A d \in IpCallers : watched \notin Ip!ToWrite(settings_pc[d])
    BY <2>1 DEF Ip!Settled
  <2>3. watched # at /\ watched \in Fields
    BY <1>1, <1>3, <1>5, <2>2 DEF Ip!TypeOK, Ip!Requested, Fields, Ip!Ipv4Texts
  <2>4. \A d \in IpCallers : watched \notin Ip!ToWrite(settings_pc'[d])
    BY <1>4, <1>5, <1>8, <2>2
  <2> QED BY <1>2, <1>6, <2>1, <2>3, <2>4 DEF Ip!Settled
<1>10. OptionKept'
  <2>1. \A d \in IpCallers : settings_pc'[d] # "idle" <=> settings_pc[d] # "idle"
    BY <1>1, <1>4, <1>5, <1>8
  <2>2. store'["uAP_drvr"].options = store["uAP_drvr"].options
    BY <1>1, <1>6 DEF Fields
  <2> QED BY <1>2, <2>1, <2>2 DEF IpInv, OptionKept, Inside
<1> QED BY <1>2, <1>7, <1>9, <1>10 DEF IpInv

LEMMA IpWriteOptions ==
  ASSUME IpInv, NEW c \in IpCallers, Ip!WriteOptions(c)
  PROVE  IpInv'
<1> DEFINE i == if_index[c]
           v == flags[c]
           f == "options"
<1>1. /\ settings_pc[c] = "options" /\ settings_pc' = [settings_pc EXCEPT ![c] = "idle"]
      /\ store' = [store EXCEPT ![i].options = v]
      /\ UNCHANGED <<if_index, flags, watched, asked>>
  BY DEF Ip!WriteOptions, Ip!history
<1>2. i = "uAP_drvr" /\ Ip!TypeOK /\ v \subseteq Ip!Options
  BY DEF IpInv, Ip!TypeOK
<1>9. v = flags[c]
  OBVIOUS
<1>3. f = "options" /\ f \in Fields /\ Writes(i, f, v)
  BY <1>1 DEF Fields, Writes
<1> HIDE DEF i, v, f
<1>4. /\ store' \in [{"ethernet", "uAP_drvr"} -> Ip!Settings]
      /\ \A g \in Fields : store'["uAP_drvr"][g] = IF g = f THEN v ELSE store["uAP_drvr"][g]
  <2>1. i \in {"ethernet", "uAP_drvr"}
    BY <1>2
  <2>2. /\ store' \in [{"ethernet", "uAP_drvr"} -> Ip!Settings]
        /\ \A g \in Fields : store'[i][g] = IF g = f THEN v ELSE store[i][g]
    <3>1. (f # "options" => v \in Values) /\ (f = "options" => v \subseteq Ip!Options)
      BY <1>2, <1>3
    <3>2. Ip!TypeOK /\ f \in Fields /\ Writes(i, f, v)
      BY <1>2, <1>3
    <3> QED BY <2>1, <3>1, <3>2, StoreWritten
  <2> QED BY <1>2, <2>2
<1>5. Ip!TypeOK'
  BY <1>1, <1>2, <1>4 DEF Ip!TypeOK
<1>6. \A d \in IpCallers : settings_pc'[d] = IF d = c THEN "idle" ELSE settings_pc[d]
  BY <1>1, <1>2 DEF Ip!TypeOK
<1>7. TextKept'
  <2> SUFFICES ASSUME asked # Ip!NoRequest, watched \notin Ip!Options
               PROVE  Ip!Settled(watched)' /\ store'["uAP_drvr"][watched] = asked.value
    BY <1>1 DEF TextKept
  <2>1. Ip!Settled(watched) /\ store["uAP_drvr"][watched] = asked.value
    BY DEF IpInv, TextKept
  <2>2. watched # f /\ watched \in Fields
    BY <1>2, <1>3 DEF Ip!TypeOK, Ip!Requested, Fields, Ip!Ipv4Texts
  <2>3. watched \notin Ip!ToWrite("idle")
    BY DEF Ip!ToWrite, Ip!Ipv4Texts
  <2>4. \A d \in IpCallers : watched \notin Ip!ToWrite(settings_pc'[d])
    BY <1>6, <2>1, <2>3 DEF Ip!Settled
  <2> QED BY <1>1, <1>4, <2>1, <2>2, <2>4 DEF Ip!Settled
<1>8. OptionKept'
  <2> SUFFICES ASSUME asked # Ip!NoRequest, watched \in Ip!Options PROVE OptionKept'
    BY <1>1 DEF OptionKept
  <2>1. store'["uAP_drvr"].options = flags[c]
    BY <1>3, <1>4, <1>9
  <2>2. Ip!Switched(watched, flags[c]) = asked.value
    BY <1>1 DEF IpInv, OptionKept, Inside
  <2>3. \A d \in IpCallers : settings_pc'[d] # "idle" => settings_pc[d] # "idle"
    BY <1>6
  <2> QED BY <1>1, <2>1, <2>2, <2>3 DEF IpInv, OptionKept, Inside
<1> QED BY <1>1, <1>2, <1>5, <1>7, <1>8 DEF IpInv
-----------------------------------------------------------------------------
LEMMA IpStarts ==
  ASSUME 0 \in Values, Ip!Init
  PROVE  IpInv
<1>1. Ip!Defaults \in Ip!Settings
  BY DEF Ip!Defaults, Ip!Settings, Ip!Options
<1>2. Ip!TypeOK
  BY <1>1 DEF Ip!Init, Ip!TypeOK
<1>3. TextKept /\ OptionKept
  BY DEF Ip!Init, TextKept, OptionKept
<1> QED BY <1>2, <1>3 DEF IpInv, Ip!Init

LEMMA IpSteps ==
  ASSUME 0 \in Values, IpInv, [Ip!Next]_(Ip!vars)
  PROVE  IpInv'
<1>1. ASSUME NEW c \in IpCallers, NEW type \in IpTypes, NEW v \in Values,
             \/ Ip!NameSet(c, type, v)
             \/ \E s \in Ip!Ipv4Texts : Ip!ManualSet(c, type, s, v)
      PROVE  IpInv'
  BY <1>1, IpPassOn DEF Ip!NameSet, Ip!ManualSet
<1>2. CASE UNCHANGED Ip!vars
  BY <1>2 DEF Ip!vars, Ip!history, IpInv, Ip!TypeOK, TextKept, OptionKept, Inside, Ip!Settled
<1> QED
  BY <1>1, <1>2, IpOptions, IpIpv6, IpRestore, IpAutomatic, IpManual, IpWriteManual, IpWriteOptions
    DEF Ip!Next

LEMMA IpInvariant == Ip!Spec => []IpInv
<1>1. Ip!Init => IpInv
  BY IpStarts, ComponentAssumption DEF ComponentAssumption
<1>2. IpInv /\ [Ip!Next]_(Ip!vars) => IpInv'
  BY IpSteps, ComponentAssumption DEF ComponentAssumption
<1> QED BY <1>1, <1>2, PTL DEF Ip!Spec

\* Beside the other components this one behaves as it does alone.
LEMMA IpSlice == Spec => Ip!Spec
<1>1. Init => Ip!Init
  BY DEF Init
<1>2. [Next]_vars => [Ip!Next]_(Ip!vars)
  BY DEF Next, vars, deviceVars, settingVars, ipVars, Ip!vars, Ip!history,
    PrintStep, ScanStep, WirelessStep, BlockStep, NetworkStep, PowerStep,
    StartStep, IpStep, ModeStep
<1> QED BY <1>1, <1>2, PTL DEF Spec, Ip!Spec

\* What a caller has asked for is what is got, for any number of callers: a switch turns
\* the option it is about and keeps the other, as last asked for, whatever other
\* settings are set between its reading and its writing, as long as no two requests for
\* one setting overlap (1012-1093).
THEOREM SettingsAreKept == Spec => []SettingsHold
<1>1. IpInv => Ip!SettingsHold
  <2> SUFFICES ASSUME IpInv, asked # Ip!NoRequest, Ip!Settled(watched)
               PROVE  Ip!Get(asked.type, watched) = asked.value
    BY DEF Ip!SettingsHold
  <2>1. Ip!TypeOK /\ watched \in Ip!Requested
    BY DEF IpInv, Ip!TypeOK
  <2>2. CASE watched \in Ip!Options
    <3>1. Ip!Switched(watched, store["uAP_drvr"].options) = asked.value
      BY <2>1, <2>2, OptionsSettled DEF IpInv, OptionKept
    <3>2. Ip!Get(asked.type, watched) = Ip!Switched(watched, store["uAP_drvr"].options)
      BY <2>2, OneInterface DEF Ip!Get, Ip!Options, Ip!Ipv4Texts, Ip!OptionsGet, Ip!Stored
    <3> QED BY <3>1, <3>2
  <2>3. CASE watched \notin Ip!Options
    <3>1. store["uAP_drvr"][watched] = asked.value
      BY <2>3 DEF IpInv, TextKept
    <3>2. CASE watched = "name"
      <4>1. Ip!Get(asked.type, watched) = Ip!NameGet(asked.type, TRUE)
        BY <3>2 DEF Ip!Get, Ip!Ipv4Texts, Ip!Options
      <4>2. Ip!NameGet(asked.type, TRUE) = store["uAP_drvr"].name
        BY OneInterface DEF Ip!NameGet, Ip!Stored
      <4> QED BY <3>1, <3>2, <4>1, <4>2
    <3>3. CASE watched \in Ip!Ipv4Texts
      <4>1. Ip!Get(asked.type, watched) = Ip!ManualGet(asked.type, watched, TRUE)
        BY <3>3 DEF Ip!Get, Ip!Ipv4Texts, Ip!Options
      <4> QED BY <3>1, <4>1, OneInterface DEF Ip!ManualGet, Ip!Stored
    <3> QED BY <2>1, <2>3, <3>2, <3>3 DEF Ip!Requested
  <2> QED BY <2>2, <2>3
<1> QED BY <1>1, IpInvariant, IpSlice, PTL DEF SettingsHold
=============================================================================

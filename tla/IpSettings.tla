------------------------------ MODULE IpSettings ------------------------------
(***************************************************************************)
(* The IP settings of the network (ui_system_interface_network.c), which   *)
(* the UI and other callers get and set on their own threads.  A setting   *)
(* is kept by the network stack for each interface; most calls pass one    *)
(* value on, but the switch between manual and automatic addresses reads   *)
(* the configuration options, writes the manual address and then writes    *)
(* the options back, in calls of their own.                                *)
(***************************************************************************)
EXTENDS Integers, FiniteSets

CONSTANTS
  Callers, \* the threads
  Types,   \* network_type_t: "ethernet", "station" and "microap"
  Values   \* of an address, a name, ...; 0 is the address 0.0.0.0 and :: in IPv6

\* "manual" is NET_IFACE_IPV4_USE_MANUAL.
Options == {"manual", "dhcp"}

\* The settings: three that the switch writes, a name and an IPv6 address that stand
\* for the others of their kind, and the configuration options.
Ipv4Texts == {"address", "mask", "gateway"}
Defaults == [address |-> 0, mask |-> 0, gateway |-> 0, name |-> 0, ipv6 |-> 0, options |-> {"dhcp"}]

\* No type is both: the interface is the access point's for each of them.
net_interface_index_get(type) ==
  IF type = "ethernet" /\ type = "station" THEN "ethernet" ELSE "uAP_drvr"

VARIABLES
  store,    \* the settings of each interface
  pc,
  if_index, \* the interface a switch is about
  flags,    \* the options it has read
  watched,  \* history: the setting whose requests are followed
  asked     \* history: the last request for it, NoRequest when nothing is expected of it

history == <<watched, asked>>
vars == <<store, pc, if_index, flags, history>>

\* What callers ask for: a text to be a value, or one of the options to be on (1) or
\* off (0).
Requested == Ipv4Texts \cup {"name"} \cup Options
NoRequest == [type |-> "none", value |-> 0]
Switched(option, options) == IF option \in options THEN 1 ELSE 0

Init ==
  /\ store = [i \in {"ethernet", "uAP_drvr"} |-> Defaults]
  /\ pc = [c \in Callers |-> "idle"]
  /\ if_index = [c \in Callers |-> "uAP_drvr"]
  /\ flags = [c \in Callers |-> {}]
  /\ watched \in Requested
  /\ asked = NoRequest

\* What a caller at some place has yet to write: the address, the mask, the gateway
\* and the options, in that order.
ToWrite(place) ==
  CASE place = "address" -> Ipv4Texts \cup Options
    [] place = "mask" -> {"mask", "gateway"} \cup Options
    [] place = "gateway" -> {"gateway"} \cup Options
    [] place = "options" -> Options
    [] OTHER -> {}
Settled(s) == \A c \in Callers : s \notin ToWrite(pc[c])

\* History: a caller asks for setting s of a type of network to have a value.  Nothing
\* is expected when a switch of another caller is about to write it as well.
Ask(s, type, value) ==
  /\ asked' = IF watched # s THEN asked
              ELSE IF Settled(s) THEN [type |-> type, value |-> value] ELSE NoRequest
  /\ UNCHANGED watched

AskOptions(type, options) ==
  /\ asked' = IF watched \notin Options THEN asked
              ELSE IF Settled(watched) THEN [type |-> type, value |-> Switched(watched, options)]
              ELSE NoRequest
  /\ UNCHANGED watched

\* The automatic address is used unless the options say manual.
InManual(options) == "manual" \in options
-----------------------------------------------------------------------------
(* The getters: what they answer, given a buffer with room or without.      *)

Refused == -1
Stored(type) == store[net_interface_index_get(type)]

NameGet(type, room) == IF room THEN Stored(type).name ELSE Refused
ManualGet(type, s, room) == IF room THEN Stored(type)[s] ELSE Refused

\* An address that is not specified is refused.
Ipv6Get(type, room) ==
  IF room /\ Stored(type).ipv6 # 0 THEN Stored(type).ipv6 ELSE Refused

OptionsGet(type) == Stored(type).options
-----------------------------------------------------------------------------
(* The setters.                                                             *)

\* A name or a manual IPv4 address is passed on as it is.
PassOn(c, type, s, v) ==
  /\ pc[c] = "idle"
  /\ Ask(s, type, v)
  /\ store' = [store EXCEPT ![net_interface_index_get(type)][s] = v]
  /\ UNCHANGED <<pc, if_index, flags>>

NameSet(c, type, v) == PassOn(c, type, "name", v)
ManualSet(c, type, s, v) == PassOn(c, type, s, v)

\* The arguments of inet_pton are swapped: what is stored is not what was given but
\* what an uninitialised variable holds.
Ipv6Set(c, type) ==
  /\ pc[c] = "idle"
  /\ \E garbage \in Values :
       store' = [store EXCEPT ![net_interface_index_get(type)].ipv6 = garbage]
  /\ UNCHANGED <<pc, if_index, flags, history>>

OptionsSet(c, type, options) ==
  /\ pc[c] = "idle"
  /\ AskOptions(type, options)
  /\ store' = [store EXCEPT ![net_interface_index_get(type)].options = options]
  /\ UNCHANGED <<pc, if_index, flags>>

\* ui_sys_wired_network_restore_default
RestoreWired == store' = [store EXCEPT !["ethernet"] = Defaults]

\* ui_sys_network_restore_defaults restores the wired interface, which is nobody's; the
\* wireless ones would be restored #ifdef HAVE_WIELESS.  So nothing is expected of it.
RestoreDefaults(c) ==
  /\ pc[c] = "idle"
  /\ RestoreWired
  /\ asked' = NoRequest
  /\ UNCHANGED <<pc, if_index, flags, watched>>
-----------------------------------------------------------------------------
(* ui_sys_network_set_tcpip_config.                                         *)

\* handle_setting_auto_TCP_IP_config: read the options; if they say manual,
\* write them without that.
SetAutomatic(c, type) ==
  LET i == net_interface_index_get(type)
  IN  /\ pc[c] = "idle"
      /\ Ask("manual", type, 0)
      /\ if_index' = [if_index EXCEPT ![c] = i]
      /\ flags' = [flags EXCEPT ![c] = store[i].options \ {"manual"}]
      /\ pc' = [pc EXCEPT ![c] = IF InManual(store[i].options) THEN "options" ELSE "idle"]
      /\ UNCHANGED store

\* handle_setting_manual_TCP_IP_config: new_IP_address and its companions are never
\* assigned anything but 0.
NewConfig == [s \in Ipv4Texts |-> 0]

\* The addresses that were set for manual mode are lost, so nothing is expected of them.
SetManual(c, type) ==
  LET i == net_interface_index_get(type)
  IN  /\ pc[c] = "idle"
      /\ IF watched \in Ipv4Texts THEN asked' = NoRequest /\ UNCHANGED watched
         ELSE Ask("manual", type, 1)
      /\ if_index' = [if_index EXCEPT ![c] = i]
      /\ flags' = [flags EXCEPT ![c] = store[i].options \cup {"manual"}]
      /\ pc' = [pc EXCEPT ![c] = "address"]
      /\ UNCHANGED store

\* The address, the mask and the gateway are written, one after the other.
Following(s) == CASE s = "address" -> "mask" [] s = "mask" -> "gateway" [] s = "gateway" -> "options"

WriteManual(c) ==
  /\ pc[c] \in Ipv4Texts
  /\ store' = [store EXCEPT ![if_index[c]][pc[c]] = NewConfig[pc[c]]]
  /\ pc' = [pc EXCEPT ![c] = Following(@)]
  /\ UNCHANGED <<if_index, flags, history>>

\* Mutant: the options are only added.
AddOptions(c) ==
  /\ pc[c] = "options"
  /\ store' = [store EXCEPT ![if_index[c]].options = @ \cup flags[c]]
  /\ pc' = [pc EXCEPT ![c] = "idle"]
  /\ UNCHANGED <<if_index, flags, history>>

WriteOptions(c) ==
  /\ pc[c] = "options"
  /\ store' = [store EXCEPT ![if_index[c]].options = flags[c]]
  /\ pc' = [pc EXCEPT ![c] = "idle"]
  /\ UNCHANGED <<if_index, flags, history>>
-----------------------------------------------------------------------------
Next ==
  \E c \in Callers :
    \/ \E type \in Types :
         \/ \E v \in Values : NameSet(c, type, v) \/ \E s \in Ipv4Texts : ManualSet(c, type, s, v)
         \/ \E options \in SUBSET Options : OptionsSet(c, type, options)
         \/ Ipv6Set(c, type) \/ SetAutomatic(c, type) \/ SetManual(c, type)
    \/ RestoreDefaults(c) \/ WriteManual(c) \/ WriteOptions(c)

Spec == Init /\ [][Next]_vars
-----------------------------------------------------------------------------
Settings == [address: Values, mask: Values, gateway: Values, name: Values, ipv6: Values,
             options: SUBSET Options]
TypeOK ==
  /\ store \in [{"ethernet", "uAP_drvr"} -> Settings]
  /\ watched \in Requested
  /\ asked = NoRequest \/ asked \in [type: Types, value: Values \cup {0, 1}]
  /\ pc \in [Callers -> {"idle", "options"} \cup Ipv4Texts]
  /\ if_index \in [Callers -> {"ethernet", "uAP_drvr"}]
  /\ flags \in [Callers -> SUBSET Options]

Get(type, s) ==
  CASE s = "name" -> NameGet(type, TRUE)
    [] s \in Ipv4Texts -> ManualGet(type, s, TRUE)
    [] s \in Options -> Switched(s, OptionsGet(type))

\* What was asked for last is what is got, for the type of network it was asked for, once
\* no switch is left that writes it: a switch between manual and automatic addresses,
\* which reads the options, writes other things and then writes the options back
\* (1012-1093), turns one option and leaves the other, and the name, as asked for by
\* whatever thread.  The types of network share one interface (66), so the last request is
\* the last for any of them: that one type keeps its setting while another's is set is
\* not so.  Not claimed either: a request for the same setting that overlaps a switch
\* of another thread, the addresses across a switch to manual (1054-1060), anything
\* across restore_defaults (78-84), and an IPv6 address (1001).
SettingsHold ==
  asked # NoRequest /\ Settled(watched) => Get(asked.type, watched) = asked.value
=============================================================================

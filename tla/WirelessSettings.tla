--------------------------- MODULE WirelessSettings ---------------------------
(***************************************************************************)
(* The modes of the wireless interfaces (ui_system_interface_wireless.c):  *)
(* the security, WEP authentication, encryption and communication mode of  *)
(* the station and of the micro access point (uAP).  The wireless library  *)
(* stores what it is given; which setters check the mode, which getters    *)
(* do, and whether a check answers false or stops the machine differs from *)
(* function to function.                                                   *)
(***************************************************************************)
EXTENDS Integers

\* A mode of a setting, or a value that is none.
Modes == {"known", "unknown"}
Settings == {"station security", "station wep auth", "station comm",
             "uap security", "uap wep auth", "uap encryption"}
Of(iface) == CASE iface = "station" -> {"station security", "station wep auth", "station comm"}
               [] iface = "uap" -> {"uap security", "uap wep auth", "uap encryption"}

VARIABLES
  mode,       \* what the library has stored
  enabled,    \* the interfaces that are enabled
  cable_in,   \* the Ethernet link is up
  refused,    \* history: the settings whose setter answered false the last time
  halted      \* "no", or who has stopped the machine: "setter" or "getter"

vars == <<mode, enabled, cable_in, refused, halted>>

Init ==
  /\ mode = [s \in Settings |-> "known"]
  /\ enabled \in SUBSET {"station", "uap"}
  /\ cable_in = FALSE
  /\ refused = {}
  /\ halted = "no"
-----------------------------------------------------------------------------
(* The setters store the mode, whatever they answer.                        *)

Store(s, m, answer) ==
  /\ mode' = [mode EXCEPT ![s] = m]
  /\ refused' = IF answer THEN refused \ {s} ELSE refused \cup {s}
  /\ UNCHANGED halted

\* XASSERT before the mode is stored
StationSecurityModeSet(m) ==
  IF m = "known" THEN Store("station security", m, TRUE)
  ELSE halted' = "setter" /\ UNCHANGED <<mode, refused>>

StationWepAuthModeSet(m) == Store("station wep auth", m, TRUE)
StationCommModeSet(m) == Store("station comm", m, m = "known")
MicroapSecurityModeSet(m) == Store("uap security", m, m = "known")

\* Mutant: the answer is always true.
MicroapWepAuthModeSetTrue(m) == Store("uap wep auth", m, TRUE)
MicroapWepAuthModeSet(m) == Store("uap wep auth", m, m = "known")
MicroapEncrypModeSet(m) == Store("uap encryption", m, m = "known")

Set(m) ==
  /\ \/ StationSecurityModeSet(m) \/ StationWepAuthModeSet(m) \/ StationCommModeSet(m)
     \/ MicroapSecurityModeSet(m) \/ MicroapWepAuthModeSet(m) \/ MicroapEncrypModeSet(m)
  /\ UNCHANGED <<enabled, cable_in>>
-----------------------------------------------------------------------------
(* The getters: the station's of the WEP authentication and communication   *)
(* modes look at nothing, the uAP's of the security mode answers false (in  *)
(* a debug build), the others assert.                                       *)

Asserted == {"station security", "uap wep auth", "uap encryption"}

Get(s) ==
  /\ halted' = IF s \in Asserted /\ mode[s] = "unknown" THEN "getter" ELSE halted
  /\ UNCHANGED <<mode, enabled, cable_in, refused>>
-----------------------------------------------------------------------------
(* Enabling, and the restoring of defaults.                                 *)

EnabledSet(iface, on) ==
  /\ enabled' = IF on THEN enabled \cup {iface} ELSE enabled \ {iface}
  /\ UNCHANGED <<mode, cable_in, refused, halted>>

\* "If the ethernet cable is plugged in, report that the station is disabled."
StationEnabledGet == ~cable_in /\ "station" \in enabled
MicroapEnabledGet == "uap" \in enabled

Cable ==
  /\ cable_in' = ~cable_in
  /\ UNCHANGED <<mode, enabled, refused, halted>>

Restore(settings) ==
  /\ mode' = [s \in Settings |-> IF s \in settings THEN "known" ELSE mode[s]]
  /\ refused' = refused \ settings
  /\ UNCHANGED <<enabled, cable_in, halted>>

\* ui_sys_wireless_station_restore_defaults, ui_sys_wireless_microap_restore_defaults
RestoreDefaults(iface) == Restore(Of(iface))

\* ui_sys_wireless_restore_default: the interfaces reported as enabled, besides what
\* the library's own oem restore covers, which this code does not show.
RestoreDefault ==
  \E oem \in SUBSET Settings :
    Restore(oem \cup (IF StationEnabledGet THEN Of("station") ELSE {})
                \cup (IF MicroapEnabledGet THEN Of("uap") ELSE {}))
-----------------------------------------------------------------------------
Next ==
  /\ halted = "no"
  /\ \/ \E m \in Modes : Set(m)
     \/ \E s \in Settings : Get(s)
     \/ \E iface \in {"station", "uap"} :
          RestoreDefaults(iface) \/ \E on \in BOOLEAN : EnabledSet(iface, on)
     \/ Cable \/ RestoreDefault

Spec == Init /\ [][Next]_vars
-----------------------------------------------------------------------------
TypeOK ==
  /\ mode \in [Settings -> Modes]
  /\ enabled \subseteq {"station", "uap"}
  /\ cable_in \in BOOLEAN
  /\ refused \subseteq Settings
  /\ halted \in {"no", "setter", "getter"}

\* An assertion in a getter stops the machine only over a mode that the setter has
\* answered false for, and that no restore has replaced: a caller that heeds the
\* answers never meets it, although a refused mode is stored all the same
\* (644-664, 773-901, 995-1053).
StopsOnlyOnRefused ==
  halted = "getter" => \E s \in refused : s \in Asserted /\ mode[s] = "unknown"
=============================================================================

----------------------------- MODULE MCComponents -----------------------------
(***************************************************************************)
(* The components that share no state, each explored on its own: a         *)
(* behaviour is one of the component "focus" names.  Each property is      *)
(* about one component, so its states are those of all the components      *)
(* together, and their number is a sum instead of a product.               *)
(***************************************************************************)
EXTENDS Components

VARIABLE focus

\* Entries of the status table; those left out (a door, a jam, an error more) are like
\* others that are here.
MCPrintKnown == {"idle", "printing", "canceling", "initializing", "cleaning", "paper_out",
  "paper_out_all", "manual_duplex", "door_open", "paper_jam"}
MCScanKnown == {"idle", "initializing", "scanning", "canceling_scan", "miss_pick", "paper_jam"}
MCStrings == {[plain |-> 0, special |-> 0], [plain |-> 12, special |-> 18]}
Everything == {"platform", "consumables", "copy", "print", "scan", "network", "wireless"}
MCBuilds == {Everything, {"copy", "scan"}, {"platform", "print"}}

\* The components a behaviour is not about stay in one initial state.
FocusInit ==
  /\ focus \in {"print", "scan", "wireless", "block", "network", "power", "boot", "ip", "modes"}
  /\ Init
  /\ focus # "scan" => scan_device_state = "NULL" /\ last_known_paper_status = 0
  /\ focus # "network" => ~link_up /\ active_link = 0 /\ ~ipv4_configured
  /\ focus # "power" => wake_events = {} /\ \A t \in DOMAIN call :
       call[t].bit = "usb_job" /\ ~call[t].enabled
  /\ focus # "boot" => built = Everything /\ \A s \in DOMAIN status : status[s] = "rest"
  /\ focus # "ip" => watched = "name"
  /\ focus # "modes" => enabled = {}

FocusNext ==
  /\ UNCHANGED focus
  /\ \/ focus = "print" /\ PrintStep
     \/ focus = "scan" /\ ScanStep
     \/ focus = "wireless" /\ WirelessStep
     \/ focus = "block" /\ BlockStep
     \/ focus = "network" /\ NetworkStep
     \/ focus = "power" /\ PowerStep
     \/ focus = "boot" /\ StartStep
     \/ focus = "ip" /\ IpStep
     \/ focus = "modes" /\ ModeStep

FocusSpec == FocusInit /\ [][FocusNext]_<<focus, vars>>

\* Nothing is claimed of what follows the overlap of the two calls of the network's
\* callback, or a WSD scan observed too early: it is not explored further.
UntilExcepted == ~net_overlapped /\ ~wsd_early

\* Bounds: two scan threads about to report, a paper sensor that fails or sees none, and
\* one IP setting of the interface that is not 0.
FewAtOnce ==
  /\ focus = "scan" =>
       /\ last_known_paper_status # 1
       /\ \E t, u \in DOMAIN reporting : \A v \in DOMAIN reporting \ {t, u} : reporting[v] = "none"
  /\ focus = "ip" =>
       LET s == store["uAP_drvr"]
       IN  s.address + s.mask + s.gateway + s.name + s.ipv6 <= 1
=============================================================================

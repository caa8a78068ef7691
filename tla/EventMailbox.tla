----------------------------- MODULE EventMailbox -----------------------------
(***************************************************************************)
(* What the event queue promises the components and the UIs.  An event is  *)
(* sent, perhaps stored, and then out: each UI that listens from then on   *)
(* until it is over gets it, and gets it once.  The events of one sender   *)
(* come out of the store in the order of their sending, and none is lost   *)
(* but those there is no memory for.                                       *)
(***************************************************************************)
EXTENDS Integers, Sequences

CONSTANTS
  Events,  \* what is sent, with its sender, by, and the sender's count, n
  Losable, \* the events that may be lost
  Uis

VARIABLES
  stage,     \* of each event: "new", "sent", "stored", "out" or "over"
  listening, \* the UIs that want to know
  owed,      \* the UIs that have still to get an event that is out
  got        \* the events each UI got
mailbox == <<stage, listening, owed, got>>

Init ==
  /\ stage = [e \in Events |-> "new"]
  /\ listening = {}
  /\ owed = [e \in Events |-> {}]
  /\ got = [u \in Uis |-> <<>>]

Earlier(e) == {f \in Events : f.by = e.by /\ f.n < e.n}
Move(e, from, to) ==
  /\ stage[e] \in from
  /\ stage' = [stage EXCEPT ![e] = to]

\* A sender goes on when its last event is stored, out, over or lost.
Send(e) ==
  /\ Move(e, {"new"}, "sent")
  /\ \A f \in Earlier(e) : stage[f] \notin {"new", "sent"}
  /\ UNCHANGED <<listening, owed, got>>

Store(e) == Move(e, {"sent"}, "stored") /\ UNCHANGED <<listening, owed, got>>

Lose(e) ==
  /\ e \in Losable
  /\ Move(e, {"sent"}, "over")
  /\ UNCHANGED <<listening, owed, got>>

Take(e) ==
  /\ Move(e, {"sent", "stored"}, "out")
  /\ \A f \in Earlier(e) : stage[f] # "stored"
  /\ owed' = [owed EXCEPT ![e] = listening]
  /\ UNCHANGED <<listening, got>>

Call(e, u) ==
  /\ stage[e] = "out"
  /\ u \in owed[e]
  /\ owed' = [owed EXCEPT ![e] = @ \ {u}]
  /\ got' = [got EXCEPT ![u] = Append(@, e)]
  /\ UNCHANGED <<stage, listening>>

Finish(e) ==
  /\ Move(e, {"out"}, "over")
  /\ owed[e] = {}
  /\ UNCHANGED <<listening, owed, got>>

\* UIs come and go.  One that comes while an event is out may or may not get it,
\* but not again.
Listen ==
  /\ listening' \in SUBSET Uis
  /\ owed' \in [Events -> SUBSET listening']
  /\ \A e \in Events :
       /\ owed[e] \cap listening' \subseteq owed'[e]
       /\ \A u \in owed'[e] \ owed[e] :
            /\ stage[e] = "out" /\ u \notin listening
            /\ \A i \in DOMAIN got[u] : got[u][i] # e
  /\ UNCHANGED <<stage, got>>

Next ==
  \/ \E e \in Events : Send(e) \/ Store(e) \/ Lose(e) \/ Take(e) \/ Finish(e)
  \/ \E e \in Events, u \in Uis : Call(e, u)
  \/ Listen

Spec == Init /\ [][Next]_mailbox
=============================================================================

----------------------------- MODULE MCEventQueue -----------------------------
(***************************************************************************)
(* Two component threads that send events while ui_sys_init runs and a UI  *)
(* registers; the event of the second finds no memory.                   *)
(***************************************************************************)
EXTENDS EventQueue

CONSTANTS c1, c2
MCMaxEvents == [t \in Posters |-> IF t = c1 THEN 2 ELSE 1]
MCStarved == {[by |-> c2, n |-> 1]}
=============================================================================

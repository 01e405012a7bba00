--------------------------- MODULE MCSessionWrites --------------------------
EXTENDS SessionWrites, TLC

(* The second removal of a lead whose first one failed.  Of the behaviours of *)
(* WritesSpec these are the ones in which the lead stays mounted, its worker  *)
(* is closed without being cached, and edits come only after the failure.    *)

Worker == CHOOSE s \in Sessions : s # Lead

Scenario ==
    /\ open'[Lead] # None /\ loading'[Lead] = None /\ removing'[Worker] = None
    /\ \A s \in Sessions : cache'[s] = None /\ withdrawn'[s] = {}
    /\ dropped' = {} =>
         edits' = 0 /\ happenings' <= 2 /\ \A s \in Sessions : open'[s] # None /\ loading'[s] = None
    /\ busy' = {}

ScenarioSpec == WritesInit /\ [][WritesNext /\ Scenario]_writesVars
=============================================================================

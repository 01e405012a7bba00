---------------------------- MODULE TurnService -----------------------------
(***************************************************************************)
(* What the host promises its clients about turns, with no processes, no   *)
(* disk and no failures in it (docs/remote-access.md, host/engine.ts).      *)
(*                                                                          *)
(* A client's message becomes a turn of one session.  A session runs one    *)
(* turn at a time.  A turn is handed to its provider at most once, only     *)
(* while it is its session's current turn, and it is settled once: a settled *)
(* turn stays settled, whatever crashed or was retried in between.          *)
(***************************************************************************)
CONSTANTS Sessions, Turns, None

VARIABLES
    turn,     \* turn -> "new", "accepted", "dispatched" or "settled"
    current   \* session -> None or its turn that is not settled

vars == <<turn, current>>

Init == /\ turn = [t \in Turns |-> "new"]
        /\ current = [s \in Sessions |-> None]

Accept(s, t) ==
    /\ turn[t] = "new" /\ current[s] = None
    /\ turn' = [turn EXCEPT ![t] = "accepted"]
    /\ current' = [current EXCEPT ![s] = t]

Dispatch(s) ==
    /\ current[s] # None /\ turn[current[s]] = "accepted"
    /\ turn' = [turn EXCEPT ![current[s]] = "dispatched"]
    /\ UNCHANGED current

\* A restart settles every turn the host was running in one step.
Settle(S) ==
    /\ S # {} /\ \A s \in S : current[s] # None
    /\ turn' = [t \in Turns |-> IF \E s \in S : current[s] = t THEN "settled" ELSE turn[t]]
    /\ current' = [s \in Sessions |-> IF s \in S THEN None ELSE current[s]]

Next == \/ \E s \in Sessions : (\E t \in Turns : Accept(s, t)) \/ Dispatch(s)
        \/ \E S \in SUBSET Sessions : Settle(S)

Spec == Init /\ [][Next]_vars
=============================================================================

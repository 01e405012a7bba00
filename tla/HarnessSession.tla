--------------------------- MODULE HarnessSession ---------------------------
(***************************************************************************)
(* One conversation and its provider on the desktop: the queue of           *)
(* operations and the idle timer of integrations/harness/core/registry.ts,  *)
(* and the life of a turn in the adapter of Codex                            *)
(* (integrations/harness/providers/codex/codex.ts), from turn/start over     *)
(* JSON-RPC to turn/completed, Stop and the loss of the process.             *)
(*                                                                          *)
(* Abstractions.  Only turns are queued: a compaction and a rewind wait and  *)
(* settle the same way.  A turn is named after its operation.  What a turn   *)
(* prints is left out, so a notification is a start or an end.  Each         *)
(* direction of the connection is first in, first out; the app server is     *)
(* external and may answer turn/start before or after the turn ends, and     *)
(* refuse or delay a turn/start while it still runs a turn.                  *)
(***************************************************************************)
EXTENDS Desktop, Naturals, Sequences, FiniteSets

CONSTANTS
    Turns,        \* the prompts sent, each once
    MaxExits,     \* times the process dies of its own accord
    MaxTimeouts,  \* turn/start requests that time out
    MaxSteers     \* messages sent into a turn

ASSUME SessionAssumption ==
    /\ MaxExits \in Nat /\ MaxTimeouts \in Nat /\ MaxSteers \in Nat
    /\ None \notin Turns

VARIABLES
    \* registry.ts
    queue,      \* operations of the session, the head in progress
    at,         \* turn -> where its operation stands
    timer,      \* the idle timer is armed
    steering,   \* a steer waits for the operations queued before it
    \* codex.ts
    live,       \* the connection, None before ensureLive and after the end
    promise,    \* turn -> what became of its turnPromise
    swallow,    \* cancelledThreads holds the session
    \* The connection and the app server.
    toCodex, fromCodex, running, owed,
    \* The user, and history for the properties.
    hasty,      \* sends before a stopped turn has returned, acts on a turn that the
                \* provider has not named or that is over; or the app and the provider
                \* refuse and time out
    stopped,    \* turns the user stopped
    outcome,    \* turn -> how its send returned
    ended,      \* turns the provider reported as ended
    deaths, timeouts, steers

registryVars == <<queue, at, timer, steering>>
codexVars    == <<live, promise, swallow>>
serverVars   == <<toCodex, fromCodex, running, owed>>
sessionPast  == <<hasty, stopped, outcome, ended>>
faultBounds  == <<deaths, timeouts, steers>>
sessionVars  == <<registryVars, codexVars, serverVars, sessionPast, faultBounds>>

NewLive == [cancelled |-> FALSE, mute |-> FALSE, active |-> None, done |-> None, endPending |-> FALSE]
Live == [cancelled : BOOLEAN, mute : BOOLEAN, active : Turns \cup {None},
         done : Turns \cup {None}, endPending : BOOLEAN]
ASSUME LiveAssumption == None \notin Live
Requests == [m : {"start", "interrupt"}, t : Turns]
Answers  == [m : {"started", "completed", "startOk", "startNo", "interrupted"}, t : Turns]
Note(m, t) == [m |-> m, t |-> t]

SessionTypeOK ==
    /\ queue \in Seq(Turns) /\ timer \in BOOLEAN /\ steering \in BOOLEAN
    /\ at \in [Turns -> {"new", "queued", "opening", "starting", "waiting", "finishing", "done"}]
    /\ live \in Live \cup {None} /\ swallow \in BOOLEAN
    /\ promise \in [Turns -> {"none", "pending", "resolved", "rejected"}]
    /\ toCodex \in Seq(Requests) /\ fromCodex \in Seq(Answers)
    /\ running \in Turns \cup {None} /\ owed \subseteq Turns
    /\ \A t \in Turns : (\E k \in 1..Len(queue) : queue[k] = t) <=> at[t] \notin {"new", "done"}
    /\ outcome \in [Turns -> {"none", "ended", "failed", "swallowed"}]

SessionInit ==
    /\ queue = <<>> /\ at = [t \in Turns |-> "new"] /\ timer = FALSE /\ steering = FALSE
    /\ live = None /\ promise = [t \in Turns |-> "none"] /\ swallow = FALSE
    /\ toCodex = <<>> /\ fromCodex = <<>> /\ running = None /\ owed = {}
    /\ hasty \in BOOLEAN /\ stopped = {} /\ outcome = [t \in Turns |-> "none"] /\ ended = {}
    /\ deaths = 0 /\ timeouts = 0 /\ steers = 0

(*************************** The adapter ***********************************)
\* finishActiveTurn: an end with no turn registered is kept for the next one.
Finished_PendingAnyway(l) == [l EXCEPT !.active = None, !.done = None, !.endPending = TRUE]
Finished(l) == [l EXCEPT !.active = None, !.done = None, !.endPending = (l.done = None)]
Kept(p, l) == IF l.done = None THEN p ELSE [p EXCEPT ![l.done] = "resolved"]
Finish(l) == live' = Finished(l) /\ promise' = Kept(promise, l)

\* runTurn up to turn/start; settlePendingTurn may end the turn at once.
Unmuted_StaysMuted(l) == [l EXCEPT !.cancelled = FALSE]
Unmuted(l) == [l EXCEPT !.cancelled = FALSE, !.mute = FALSE]
StartTurn(t, l) ==
    /\ LET registered == [Unmuted(l) EXCEPT !.done = t]
           pending    == [promise EXCEPT ![t] = "pending"] IN
       IF l.endPending
       THEN live' = Finished(registered) /\ promise' = Kept(pending, registered)
       ELSE live' = registered /\ promise' = pending
    /\ toCodex' = Append(toCodex, Note("start", t))
    /\ at' = [at EXCEPT ![t] = "starting"]

\* The connection is gone: requests in flight are rejected, a registered turn is
\* resolved by stopCodexSession and rejected by the exit handler.  A Stop that
\* awaited its interrupt goes on, and arms the timer.
InFlight(t) == at[t] = "starting"
StopAwaits  == \/ \E k \in 1..Len(toCodex) : toCodex[k].m = "interrupt"
               \/ \E k \in 1..Len(fromCodex) : fromCodex[k].m = "interrupted"
Closed(verdict) ==
    /\ live' = None
    /\ promise' = [t \in Turns |-> IF promise[t] = "pending" THEN verdict ELSE promise[t]]
    /\ at' = [t \in Turns |-> IF InFlight(t) THEN "finishing" ELSE at[t]]
    /\ outcome' = [t \in Turns |-> IF InFlight(t) THEN "failed" ELSE outcome[t]]
    /\ toCodex' = <<>> /\ fromCodex' = <<>> /\ running' = None /\ owed' = {}

(*************************** The registry **********************************)
Current(t) == queue # <<>> /\ Head(queue) = t
UiBusy(t)  == at[t] \notin {"new", "done"} /\ t \notin stopped

Submit(t) ==
    /\ at[t] = "new" /\ \A u \in Turns : ~UiBusy(u)
    /\ hasty \/ queue = <<>>
    /\ queue' = Append(queue, t)
    /\ at' = [at EXCEPT ![t] = "queued"]
    /\ UNCHANGED <<timer, steering, codexVars, serverVars, sessionPast, faultBounds>>

\* The operation starts once those before it have settled; with a live
\* connection it goes straight on to turn/start.
IsNext_Overlaps(t) == TRUE
IsNext(t) == Current(t)
BeginTurn(t) ==
    /\ at[t] = "queued" /\ IsNext(t)
    /\ timer' = FALSE
    /\ \/ /\ live = None
          /\ at' = [at EXCEPT ![t] = "opening"]
          /\ UNCHANGED <<codexVars, serverVars, outcome>>
       \/ /\ live # None /\ ~swallow
          /\ StartTurn(t, live)
          /\ UNCHANGED <<swallow, fromCodex, running, owed, outcome>>
       \/ /\ live # None /\ swallow
          /\ swallow' = FALSE
          /\ at' = [at EXCEPT ![t] = "finishing"]
          /\ outcome' = [outcome EXCEPT ![t] = "swallowed"]
          /\ UNCHANGED <<live, promise, serverVars>>
    /\ UNCHANGED <<queue, steering, hasty, stopped, ended, faultBounds>>

\* control_authorize_turn refuses: the operation is over and no timer is armed.
AuthorizeFails(t) ==
    /\ at[t] = "queued" /\ Current(t) /\ hasty
    /\ timer' = FALSE /\ steering' = FALSE
    /\ at' = [at EXCEPT ![t] = "done"] /\ queue' = Tail(queue)
    /\ outcome' = [outcome EXCEPT ![t] = "failed"]
    /\ UNCHANGED <<codexVars, serverVars, hasty, stopped, ended, faultBounds>>

Swallowed_NotChecked == FALSE
Swallowed == swallow
\* ensureLive: spawn, initialize, thread/start or thread/resume.
Opened(t) ==
    /\ at[t] = "opening"
    /\ swallow' = FALSE
    /\ IF Swallowed
       THEN /\ live' = NewLive
            /\ at' = [at EXCEPT ![t] = "finishing"]
            /\ outcome' = [outcome EXCEPT ![t] = "swallowed"]
            /\ UNCHANGED <<promise, toCodex>>
       ELSE StartTurn(t, NewLive) /\ UNCHANGED outcome
    /\ UNCHANGED <<queue, timer, steering, fromCodex, running, owed, hasty, stopped, ended, faultBounds>>
OpenFails(t) ==
    /\ at[t] = "opening"
    /\ swallow' = FALSE
    /\ at' = [at EXCEPT ![t] = "finishing"]
    /\ outcome' = [outcome EXCEPT ![t] = "failed"]
    /\ UNCHANGED <<queue, timer, steering, live, promise, serverVars, hasty, stopped, ended, faultBounds>>

\* runTurn goes on from turnPromise.
Settle(t) ==
    /\ at[t] = "waiting" /\ promise[t] # "pending"
    /\ at' = [at EXCEPT ![t] = "finishing"]
    /\ outcome' = [outcome EXCEPT ![t] = IF promise[t] = "resolved" THEN "ended" ELSE "failed"]
    /\ UNCHANGED <<queue, timer, steering, codexVars, serverVars, hasty, stopped, ended, faultBounds>>

\* control_turn_finished, then scheduleIdlePark; a steer that waited comes next.
ArmedAfterTurn == ~steering
Left(t) == [k \in 1..Len(queue) - 1 |-> IF \E j \in 1..k : queue[j] = t THEN queue[k + 1] ELSE queue[k]]
FinishTurn(t) ==
    /\ at[t] = "finishing"
    /\ at' = [at EXCEPT ![t] = "done"]
    /\ queue' = Left(t)
    /\ timer' = ArmedAfterTurn /\ steering' = FALSE
    /\ UNCHANGED <<codexVars, serverVars, sessionPast, faultBounds>>

\* A message into the turn: at once while the send runs, else after the queue.
Steer(t) ==
    /\ steers < MaxSteers /\ steers' = steers + 1
    /\ UiBusy(t) /\ Current(t)
    /\ \/ /\ at[t] \in {"opening", "starting", "waiting"}
          /\ timer' = FALSE /\ UNCHANGED steering
       \/ /\ at[t] \in {"queued", "finishing"} /\ hasty
          /\ steering' = TRUE /\ UNCHANGED timer
    /\ UNCHANGED <<queue, at, codexVars, serverVars, sessionPast, deaths, timeouts>>

\* Stop: cancelHarnessTurn and cancelCodexTurn.
Stop(t) ==
    /\ UiBusy(t) /\ stopped' = stopped \cup {t}
    /\ \/ /\ live = None /\ (hasty \/ at[t] \in {"queued", "opening"})
          /\ swallow' = TRUE /\ timer' = TRUE
          /\ UNCHANGED <<live, promise, toCodex>>
       \/ /\ live # None /\ live.active = None /\ hasty
          /\ Finish([live EXCEPT !.cancelled = TRUE, !.mute = TRUE])
          /\ timer' = TRUE /\ UNCHANGED <<swallow, toCodex>>
       \/ /\ live # None /\ live.active # None /\ (hasty \/ live.active = t)
          /\ live' = [live EXCEPT !.cancelled = TRUE, !.mute = TRUE]
          /\ toCodex' = Append(toCodex, Note("interrupt", live.active))
          /\ timer' = FALSE /\ UNCHANGED <<swallow, promise>>
    /\ UNCHANGED <<queue, at, steering, fromCodex, running, owed, hasty, outcome, ended, faultBounds>>

\* Five minutes later: stopHarnessSession, then stopCodexSession.  Beginning,
\* opening and finishing an operation take less (ensureLive's requests time out).
Brief(t) == at[t] \in {"opening", "finishing"} \/ (at[t] = "queued" /\ Current(t))
Park ==
    /\ timer /\ \A t \in Turns : ~Brief(t)
    /\ timer' = StopAwaits /\ swallow' = FALSE
    /\ IF live = None
       THEN UNCHANGED <<live, promise, at, outcome, serverVars>>
       ELSE Closed("resolved")
    /\ UNCHANGED <<queue, steering, hasty, stopped, ended, faultBounds>>

\* The exit handler.
Exit ==
    /\ deaths < MaxExits /\ deaths' = deaths + 1
    /\ live # None
    /\ timer' = (timer \/ StopAwaits)
    /\ Closed("rejected")
    /\ UNCHANGED <<queue, steering, swallow, hasty, stopped, ended, timeouts, steers>>

(*************************** The app server (external) *********************)
CodexTakes ==
    /\ toCodex # <<>>
    /\ LET r == Head(toCodex) IN
       \/ /\ r.m = "start" /\ running = None
          /\ running' = r.t /\ owed' = owed \cup {r.t}
          /\ fromCodex' = Append(fromCodex, Note("started", r.t)) /\ UNCHANGED ended
       \/ /\ r.m = "start" /\ running # None
          /\ fromCodex' = Append(fromCodex, Note("startNo", r.t)) /\ UNCHANGED <<running, owed, ended>>
       \/ /\ r.m = "interrupt" /\ running = r.t
          /\ running' = None /\ ended' = ended \cup {r.t}
          /\ fromCodex' = fromCodex \o <<Note("completed", r.t), Note("interrupted", r.t)>> /\ UNCHANGED owed
       \/ /\ r.m = "interrupt" /\ running # r.t
          /\ fromCodex' = Append(fromCodex, Note("interrupted", r.t)) /\ UNCHANGED <<running, owed, ended>>
    /\ toCodex' = Tail(toCodex)
    /\ UNCHANGED <<registryVars, codexVars, hasty, stopped, outcome, faultBounds>>
CodexAnswers ==
    /\ \E t \in owed : owed' = owed \ {t} /\ fromCodex' = Append(fromCodex, Note("startOk", t))
    /\ UNCHANGED <<registryVars, codexVars, toCodex, running, sessionPast, faultBounds>>
CodexEnds ==
    /\ running # None
    /\ running' = None /\ ended' = ended \cup {running}
    /\ fromCodex' = Append(fromCodex, Note("completed", running))
    /\ UNCHANGED <<registryVars, codexVars, toCodex, owed, hasty, stopped, outcome, faultBounds>>

(*************************** What it says reaches the adapter **************)
Silent(l) == l.mute \/ l.cancelled
Hear ==
    /\ fromCodex # <<>> /\ fromCodex' = Tail(fromCodex)
    /\ LET n == Head(fromCodex) IN
       \/ /\ n.m = "started"
          /\ live' = IF Silent(live) THEN live ELSE [live EXCEPT !.active = n.t]
          /\ UNCHANGED <<promise, at, outcome, timer>>
       \/ /\ n.m = "completed"
          /\ IF Silent(live) THEN UNCHANGED <<live, promise>> ELSE Finish(live)
          /\ UNCHANGED <<at, outcome, timer>>
       \/ /\ n.m = "startOk" /\ InFlight(n.t)
          /\ at' = [at EXCEPT ![n.t] = "waiting"]
          /\ LET named == IF live.done # None /\ live.active = None THEN [live EXCEPT !.active = n.t] ELSE live IN
             IF live.endPending /\ live.done # None THEN Finish(named) ELSE live' = named /\ UNCHANGED promise
          /\ UNCHANGED <<outcome, timer>>
       \/ /\ n.m = "startNo" /\ InFlight(n.t)
          /\ at' = [at EXCEPT ![n.t] = "finishing"]
          /\ outcome' = [outcome EXCEPT ![n.t] = "failed"]
          /\ live' = [live EXCEPT !.done = None] /\ promise' = [promise EXCEPT ![n.t] = "rejected"]
          /\ UNCHANGED timer
       \/ /\ n.m \in {"startOk", "startNo"} /\ ~InFlight(n.t)
          /\ UNCHANGED <<live, promise, at, outcome, timer>>
       \* The end of Stop: finish the turn, then arm the timer.
       \/ /\ n.m = "interrupted"
          /\ Finish(live) /\ timer' = TRUE
          /\ UNCHANGED <<at, outcome>>
    /\ UNCHANGED <<queue, steering, swallow, toCodex, running, owed, hasty, stopped, ended, faultBounds>>

\* turn/start is not answered in time.
StartTimesOut(t) ==
    /\ hasty /\ timeouts < MaxTimeouts /\ timeouts' = timeouts + 1
    /\ InFlight(t)
    /\ at' = [at EXCEPT ![t] = "finishing"]
    /\ outcome' = [outcome EXCEPT ![t] = "failed"]
    /\ live' = [live EXCEPT !.done = None] /\ promise' = [promise EXCEPT ![t] = "rejected"]
    /\ UNCHANGED <<queue, timer, steering, swallow, serverVars, hasty, stopped, ended, deaths, steers>>

CodexNext   == CodexTakes \/ CodexAnswers \/ CodexEnds \/ Hear
TurnNext(t) == BeginTurn(t) \/ Opened(t) \/ OpenFails(t) \/ Settle(t) \/ FinishTurn(t)
SessionNext ==
    \/ \E t \in Turns : Submit(t) \/ TurnNext(t) \/ AuthorizeFails(t) \/ Steer(t) \/ Stop(t) \/ StartTimesOut(t)
    \/ Park \/ Exit \/ CodexNext

SessionSpec == SessionInit /\ [][SessionNext]_sessionVars
\* The event loop runs what is ready, and the provider answers and ends its turns.
SessionFairness ==
    /\ \A t \in Turns : WF_sessionVars(TurnNext(t))
    /\ WF_sessionVars(CodexTakes) /\ WF_sessionVars(CodexAnswers)
    /\ WF_sessionVars(CodexEnds) /\ WF_sessionVars(Hear)
SessionFairSpec == SessionSpec /\ SessionFairness

(*************************** Properties ************************************)
\* A turn that waits can still be ended: its promise is the one the connection
\* has registered, whatever became of the turns before it (codex.ts:693-701).
NoLostTurn ==
    \A t \in Turns : at[t] \in {"starting", "waiting"} /\ promise[t] = "pending"
        => live # None /\ live.done = t

\* A stopped turn is over: from then on it shows nothing, and once its send has
\* returned the provider neither runs it nor is about to (codex.ts:150-151,
\* 343-365).  For a user who stops a turn that opens or that the provider has
\* named, and sends the next one after it.
Lingers(t) == running = t \/ \E k \in 1..Len(toCodex) : toCodex[k] = Note("start", t)
StopStops ==
    ~hasty => \A t \in stopped :
        /\ at[t] = "done" => ~Lingers(t)
        /\ at[t] \in {"starting", "waiting"} /\ promise[t] = "pending" => live.mute

\* A turn ends with itself: its send returns as ended only when the provider
\* reported the end of this turn or the user stopped it (codex.ts:791-794).
TurnEndsWithItself ==
    ~hasty => \A t \in Turns : outcome[t] \in {"ended", "swallowed"} => t \in ended \cup stopped

\* The idle timer never runs beside a turn in progress, which it would kill, and
\* always runs when the connection is left idle (registry.ts:110-113, 213-237).
IdleIsTimed ==
    ~hasty => /\ timer => \A t \in Turns : promise[t] # "pending"
              /\ queue = <<>> /\ live # None => timer

\* The queue, the idle timer and the connection agree about which turn is on
\* (registry.ts:110-237, codex.ts:673-732).
SessionConsistent == SessionTypeOK /\ IdleIsTimed /\ TurnEndsWithItself

\* Every prompt gets its answer: a send that was queued returns, whatever the
\* user stops, whoever dies and however requests and notifications cross.
SendsReturn == \A t \in Turns : at[t] = "queued" ~> at[t] = "done"

\* What StopStops says, of every user: the comment at codex.ts:791-794 makes busy
\* and stop follow the provider's turn.
StopAlwaysStops == \A t \in stopped : at[t] = "done" => ~Lingers(t)
=============================================================================

----------------------------- MODULE HostEngine -----------------------------
(***************************************************************************)
(* The remote host's engine: host/engine.ts with the SQLite store it writes *)
(* (host/store.ts), the provider adapter it drives (one of the ten adapters *)
(* behind host/providers.ts; codex.ts is the one read here) and the process *)
(* table under the adapter (host/child-backend.ts).                         *)
(*                                                                          *)
(* JavaScript runs one callback at a time, so an action is one callback:    *)
(* everything from a resumption to the next await.  What interleaves is     *)
(* client commands, provider output, timers, process exits, the promise     *)
(* chain of each turn, and the host stopping or crashing.                   *)
(*                                                                          *)
(* Abstractions.  A transcript is a set of blocks, each naming the turn it  *)
(* was appended to; texts, models, settings and attachments are left out.   *)
(* A run id is drawn by randomUUID for one accepted send, so the id of that *)
(* command stands for it.  Approval ids restart in every process, so they   *)
(* are numbers.                                                             *)
(***************************************************************************)
EXTENDS Naturals

CONSTANTS
    Sessions,      \* session ids the host may hand out (randomUUID)
    Existing,      \* the sessions already in the store at the start
    Projects,      \* registered projects
    Commands,      \* command ids clients choose
    None,          \* "no value": undefined, a missing row, a missing map entry
    CommandTypes,  \* which of the nine command types clients send
    EventKinds,    \* which kinds of event providers emit
    OtherSteps,    \* which of the other steps from outside happen
    MaxEvents,     \* events one turn emits
    MaxFaults,     \* store transactions that fail (disk full, I/O error)
    MaxCrashes,    \* times the host process goes down
    MaxRenames     \* title edits from a client

AllCommandTypes == {"create", "configure", "draft", "removeDraft", "send",
                    "compact", "cancel", "approve", "answer"}
AllEventKinds == {"text", "approval", "question", "plan"}
AllOtherSteps == {"delete", "switch", "close"}

ASSUME ConstantsAssumption ==
    /\ Existing \subseteq Sessions
    /\ Projects # {}
    /\ None \notin Sessions /\ None \notin Commands /\ None \notin Projects
    /\ CommandTypes \subseteq AllCommandTypes
    /\ EventKinds \subseteq AllEventKinds
    /\ OtherSteps \subseteq AllOtherSteps
    /\ MaxEvents \in Nat /\ MaxFaults \in Nat
    /\ MaxCrashes \in Nat /\ MaxRenames \in Nat

VARIABLES
    \* The SQLite database.
    disk,        \* session rows: None or a HostSession
    receipts,    \* command id -> None or the accepted command's receipt
    retired,     \* ids of deleted sessions; no row of theirs, but randomUUID draws none again
    \* The engine's memory.
    up,          \* the host process is alive
    closing,     \* close() was called
    running,     \* session -> None or its turn's promise chain
    live,        \* session -> None or the snapshot with unwritten events
    switching,   \* projects inside withIdleProject
    naming,      \* sessions whose first-turn title is being generated
    \* The provider adapter and the process table.
    prov,        \* session -> what the adapter's send() is doing
    child,       \* session -> None or the run whose process is in the table
    dying,       \* session -> runs whose process was told to stop, still alive
    marks,       \* cancelledThreads: cancels that found no live process
    sinks,       \* runs whose onEvent callback was handed to an adapter
    \* History, read by the properties only (emitted also numbers the events).
    emitted,     \* run -> events emitted so far
    dispatched,  \* run -> times provider.send or compact was called for it
    prompted,    \* runs whose prompt reached a provider process
    accepted,    \* <<session, run, n>>: events the engine took in
    answered,    \* decisions and answers handed to the adapter
    \* Bounds of the model.
    faults, crashes, renames

database == <<disk, receipts, retired>>
engine   == <<up, closing, running, live, switching, naming>>
provider == <<prov, child, dying, marks, sinks>>
history  == <<emitted, dispatched, prompted, accepted, answered>>
bounds   == <<faults, crashes, renames>>
vars     == <<database, engine, provider, history, bounds>>

-----------------------------------------------------------------------------
(* Values *)

Run == Commands \cup {None}

Block == [role : {"user", "text", "approval", "plan", "note"},
          turn : Run,    \* the turn whose part of the transcript it is in
          by   : Run,    \* the command or the turn that produced it
          n    : Nat,    \* which event of the turn (0: none)
          mark : {"-", "draft", "open", "allow", "deny", "cancelled", "ready",
                  "building", "built", "stopped", "error", "storage", "closed",
                  "restarted"}]

Transcript == SUBSET Block
Status == {"idle", "running", "interrupted"}
Title  == {"new", "prompt", "generated", "manual"}

HostSession == [project  : Projects,
                status   : Status,
                runId    : Run,
                revision : Nat,
                title    : Title,
                question : Nat,            \* pendingQuestion (0: none)
                blocks   : Transcript]

Receipt == [type : AllCommandTypes, session : Sessions, revision : Nat]

Live == [value : HostSession, dirty : BOOLEAN, timer : BOOLEAN]

\* Where a turn's promise chain stands, and what its adapter is doing.
Stage == {"queued", "sending", "stopping", "retryWait", "retryStopping", "abandoned"}
Phase == {"launching", "opening", "turn", "muted", "ended"}

Running == [runId     : Commands,
            cancelled : BOOLEAN,
            persistenceFailed : BOOLEAN,
            at        : Stage,
            error     : BOOLEAN,      \* send() rejected
            wait      : Run]          \* whose process stop() is awaiting

IdleProv == [phase |-> "none", run |-> None, error |-> FALSE]
Prov == {IdleProv} \cup [phase : Phase, run : Commands, error : BOOLEAN]

\* None stands for a missing entry: it is no row, receipt, chain, snapshot or block.
ASSUME NoneAssumption ==
    /\ None \notin HostSession /\ None \notin Receipt /\ None \notin Running
    /\ None \notin Live /\ None \notin Block

Drafts(v) == {b \in v.blocks : b.mark = "draft"}
Pending(v, n) == {b \in v.blocks : b.role = "approval" /\ b.n = n /\ b.mark = "open"}

\* A session fresh from the create command.
NewSession(p) == [project |-> p, status |-> "idle", runId |-> None, revision |-> 0,
                  title |-> "new", question |-> 0, blocks |-> {}]

-----------------------------------------------------------------------------
(* Pure steps on a session *)

\* store.save through engine.save: the written row carries the next revision.
Saved(v) == [v EXCEPT !.revision = @ + 1]

\* applyHarnessEvent: fold event n of run r into a snapshot.
Applied(v, r, n, kind) ==
    LET block(role, mark) ==
            [role |-> role, turn |-> v.runId, by |-> r, n |-> n, mark |-> mark]
    IN  CASE kind = "text"     -> [v EXCEPT !.blocks = @ \cup {block("text", "-")}]
          [] kind = "approval" -> [v EXCEPT !.blocks = @ \cup {block("approval", "open")}]
          [] kind = "question" -> [v EXCEPT !.question = n]
          [] kind = "plan"     ->
               [v EXCEPT !.blocks =
                   {b \in @ : b.role # "plan" \/ b.turn # v.runId} \cup {block("plan", "ready")}]

\* approval.resolved: every block that carries the request id takes the decision.
Decided(v, n, decision) ==
    [v EXCEPT !.blocks =
        {IF b.role = "approval" /\ b.n = n THEN [b EXCEPT !.mark = decision] ELSE b : b \in @}]

\* Slip: a plan keeps building.
Closed_KeepsPlans(b, built) ==
    IF b.mark = "open" THEN [b EXCEPT !.mark = "cancelled"] ELSE b

\* stopStreaming and the plan map of settled(): how a block looks once its turn is over.
Closed(b, built) ==
    CASE b.role = "approval" /\ b.mark = "open" -> [b EXCEPT !.mark = "cancelled"]
      [] b.role = "plan" /\ b.mark = "building" ->
           [b EXCEPT !.mark = IF built THEN "built" ELSE "ready"]
      [] OTHER -> b

\* Slip: an interrupted turn is rolled back, the message that started it included.
Settled_RollsBack(v, status, message) ==
    [v EXCEPT !.status = status, !.question = 0,
              !.blocks = {b \in @ : status = "idle" \/ b.turn # v.runId}]

\* settled(): message "-" stands for no message.
Settled(v, status, message) ==
    LET built == status = "idle" /\ message = "-"
        note  == [role |-> "note", turn |-> v.runId, by |-> v.runId, n |-> 0, mark |-> message]
    IN  [v EXCEPT !.status = status,
                  !.question = 0,
                  !.blocks = {Closed(b, built) : b \in @}
                             \cup (IF message = "-" THEN {} ELSE {note})]

\* The send branch of command(): drafts go, the chosen plan starts building, the
\* message is appended, and a first message may replace the placeholder title.
FirstTurn(v) == v.blocks = Drafts(v)
Started(v, c, type, plan) ==
    [v EXCEPT !.status = "running",
              !.runId = c,
              !.question = 0,
              !.title = IF type = "send" /\ FirstTurn(v) /\ @ = "new" THEN "prompt" ELSE @,
              !.blocks = {IF b = plan THEN [b EXCEPT !.mark = "building"] ELSE b :
                             b \in @ \ Drafts(v)}
                         \cup {[role |-> "user", turn |-> c, by |-> c, n |-> 0, mark |-> "-"]}]

-----------------------------------------------------------------------------
(* Engine helpers *)

\* flush(): write the live snapshot if it holds unwritten events.
Dirty(s) == live[s] # None /\ live[s].dirty
Flushed(s) == IF Dirty(s) THEN Saved(live[s].value) ELSE disk[s]
Snapshot(v) == [value |-> v, dirty |-> FALSE, timer |-> FALSE]
\* Slip: the caller writes the row and forgets the snapshot.
Synced_Stale(s, v) == live[s]
\* ... and the live entry after a caller wrote v to the row.
Synced(s, v) == IF live[s] = None THEN None ELSE Snapshot(v)

AfterFlush(s) == IF Dirty(s) THEN Snapshot(Flushed(s))
                 ELSE IF live[s] = None THEN None ELSE [live[s] EXCEPT !.timer = FALSE]

\* A transaction that throws.  flush() has already cleared its timer; the
\* events stay in memory.
Fault == faults < MaxFaults /\ faults' = faults + 1
\* Slip: the queue of events is emptied before the write.
FlushThrows_DropsEvents(s) ==
    /\ Dirty(s)
    /\ Fault
    /\ live' = [live EXCEPT ![s].timer = FALSE, ![s].dirty = FALSE]
FlushThrows(s) ==
    /\ Dirty(s)
    /\ Fault
    /\ live' = [live EXCEPT ![s].timer = FALSE]

\* The synchronous part of provider.stop(): forget the cancel mark, unblock a turn
\* in progress, take the process out of the table and tell it to die.  A
\* session still launching its process has nothing to stop.
StopProvider(S) ==
    /\ marks' = marks \ S
    /\ prov' = [s \in Sessions |->
                  IF s \in S /\ prov[s].phase \in {"turn", "muted"}
                  THEN [prov[s] EXCEPT !.phase = "ended"] ELSE prov[s]]
    /\ child' = [s \in Sessions |-> IF s \in S THEN None ELSE child[s]]
    /\ dying' = [s \in Sessions |->
                  IF s \in S /\ child[s] # None THEN dying[s] \cup {child[s]} ELSE dying[s]]

\* await provider.stop(): a process that was in the table must be gone; a stop
\* that found none returns at once.
StopReturned(s) == running[s].wait = None \/ running[s].wait \notin dying[s]

\* The event loop takes a request, a timer or an exit only when no promise chain is
\* ready to resume after its `await provider.stop()`.  (A turn just queued
\* does not hold it up: its caller may issue more commands first.)
Resumable(s) == /\ running[s] # None
                /\ running[s].at \in {"stopping", "retryStopping"}
                /\ StopReturned(s)
EventLoop == up /\ \A s \in Sessions : ~Resumable(s)

Retire(f, s) == [f EXCEPT ![s] = None]

-----------------------------------------------------------------------------
(* Commands: every one is acknowledged once, under its command id *)

\* Slip: a repeated command id is not recognised.
Fresh_NoReceipt(c, type) == EventLoop /\ ~closing /\ type \in CommandTypes
Fresh(c, type) == EventLoop /\ ~closing /\ type \in CommandTypes /\ receipts[c] = None

\* The transaction at the end of command(): save the session, record the receipt.
Accept(c, s, type, v) ==
    /\ disk' = [disk EXCEPT ![s] = Saved(v)]
    /\ receipts' = [receipts EXCEPT ![c] =
                      [type |-> type, session |-> s, revision |-> Saved(v).revision]]
    /\ live' = [live EXCEPT ![s] = Synced(s, Saved(v))]

Create(c, s, p) ==
    /\ Fresh(c, "create")
    /\ disk[s] = None /\ s \notin retired
    /\ p \notin switching
    /\ Accept(c, s, "create", NewSession(p))
    /\ UNCHANGED <<retired, up, closing, running, switching, naming, provider, history, bounds>>

Configure(c, s) ==
    /\ Fresh(c, "configure")
    /\ disk[s] # None /\ disk[s].status # "running"
    /\ Accept(c, s, "configure", Flushed(s))
    /\ UNCHANGED <<retired, up, closing, running, switching, naming, provider, history, bounds>>

Draft(c, s) ==
    LET v == Flushed(s) IN
    /\ Fresh(c, "draft")
    /\ disk[s] # None /\ v.status # "running" /\ Drafts(v) = {}
    /\ Accept(c, s, "draft",
         [v EXCEPT !.title = IF v.blocks = {} THEN "prompt" ELSE @,
                   !.blocks = @ \cup {[role |-> "user", turn |-> None, by |-> c,
                                       n |-> 0, mark |-> "draft"]}])
    /\ UNCHANGED <<retired, up, closing, running, switching, naming, provider, history, bounds>>

RemoveDraft(c, s) ==
    LET v == Flushed(s) IN
    /\ Fresh(c, "removeDraft")
    /\ disk[s] # None /\ Drafts(v) # {}
    /\ Accept(c, s, "removeDraft", [v EXCEPT !.blocks = @ \ Drafts(v)])
    /\ UNCHANGED <<retired, up, closing, running, switching, naming, provider, history, bounds>>

\* run(): the promise chain of an accepted send, queued as a microtask.
Queued(c) == [runId |-> c, cancelled |-> FALSE, persistenceFailed |-> FALSE,
              at |-> "queued", error |-> FALSE, wait |-> None]

\* Slips: the branch switch, or the running turn, is not looked at.
MayStart_DuringSwitch(v) == v.status # "running"
MayStart_WhileRunning(v) == v.project \notin switching
MayStart(v) == v.project \notin switching /\ v.status # "running"

\* draft is the draft block the message replaces, plan the plan it builds.
Send(c, s, type, draft, plan) ==
    LET v == Flushed(s) IN
    /\ type \in {"send", "compact"}
    /\ Fresh(c, type)
    /\ disk[s] # None
    /\ MayStart(v)
    /\ draft # None => type = "send" /\ draft \in Drafts(v)
    /\ plan # None => /\ type = "send"
                      /\ plan \in v.blocks /\ plan.role = "plan"
                      /\ plan.mark \notin {"building", "built"}
    /\ LET saved == Saved(Started(v, c, type, plan)) IN
         /\ disk' = [disk EXCEPT ![s] = saved]
         /\ receipts' = [receipts EXCEPT ![c] =
                           [type |-> type, session |-> s, revision |-> saved.revision]]
         /\ live' = [live EXCEPT ![s] = Snapshot(saved)]
    /\ running' = [running EXCEPT ![s] = Queued(c)]
    /\ naming' = IF type = "send" /\ FirstTurn(v) /\ v.title = "new"
                 THEN naming \cup {s} ELSE naming
    /\ UNCHANGED <<retired, up, closing, switching, provider, history, bounds>>

\* The guard of cancel, approve and answer: the client names the running turn.
\* Slip: any running turn will do.
Names_AnyTurn(s, r) == disk[s] # None /\ disk[s].status = "running"
Names(s, r) == disk[s] # None /\ disk[s].status = "running" /\ disk[s].runId = r

\* provider.cancel(): interrupt a live turn, or leave a mark for one still launching.
Cancel(c, s, r) ==
    /\ Fresh(c, "cancel")
    /\ Names(s, r)
    /\ Accept(c, s, "cancel", Flushed(s))
    /\ running' = IF running[s] = None THEN running
                  ELSE [running EXCEPT ![s].cancelled = TRUE]
    /\ IF prov[s].phase \in {"turn", "muted", "ended"}
       THEN /\ prov' = IF prov[s].phase = "turn" THEN [prov EXCEPT ![s].phase = "muted"] ELSE prov
            /\ UNCHANGED marks
       ELSE marks' = marks \cup {s} /\ UNCHANGED prov
    /\ UNCHANGED <<retired, up, closing, switching, naming, child, dying, sinks, history, bounds>>

\* provider.approve() and answer() reach the process only while the turn listens.
Answered(c, s, r, n) ==
    answered' = answered \cup
        {[command |-> c, run |-> r, n |-> n,
          to |-> IF prov[s].phase = "turn" THEN prov[s].run ELSE None]}

Approve(c, s, r, n, decision) ==
    LET v == Flushed(s) IN
    /\ Fresh(c, "approve")
    /\ Names(s, r)
    /\ Pending(v, n) # {}
    /\ Accept(c, s, "approve", Decided(v, n, decision))
    /\ Answered(c, s, r, n)
    /\ UNCHANGED <<retired, up, closing, running, switching, naming, provider,
                   emitted, dispatched, prompted, accepted, bounds>>

Answer(c, s, r, n) ==
    LET v == Flushed(s) IN
    /\ Fresh(c, "answer")
    /\ Names(s, r)
    /\ n # 0 /\ v.question = n
    /\ Accept(c, s, "answer", [v EXCEPT !.question = 0])
    /\ Answered(c, s, r, n)
    /\ UNCHANGED <<retired, up, closing, running, switching, naming, provider,
                   emitted, dispatched, prompted, accepted, bounds>>

\* A command that is rejected, or whose transaction fails, has still flushed.
CommandFails(s) ==
    /\ EventLoop /\ ~closing /\ Dirty(s)
    /\ disk' = [disk EXCEPT ![s] = Flushed(s)]
    /\ live' = [live EXCEPT ![s] = Snapshot(Flushed(s))]
    /\ UNCHANGED <<receipts, retired, up, closing, running, switching, naming,
                   provider, history, bounds>>

\* The flush before a command (or a title edit) throws: nothing is applied.
CommandFlushThrows(s) ==
    /\ EventLoop /\ ~closing
    /\ FlushThrows(s)
    /\ UNCHANGED <<database, up, closing, running, switching, naming, provider,
                   history, crashes, renames>>

-----------------------------------------------------------------------------
(* Requests that are not commands *)

\* updateSession() with a new title.
UpdateSession(s) ==
    /\ EventLoop /\ ~closing /\ disk[s] # None /\ renames < MaxRenames
    /\ LET saved == Saved([Flushed(s) EXCEPT !.title = "manual"]) IN
         /\ disk' = [disk EXCEPT ![s] = saved]
         /\ live' = [live EXCEPT ![s] = Synced(s, saved)]
    /\ renames' = renames + 1
    /\ UNCHANGED <<receipts, retired, up, closing, running, switching, naming,
                   provider, history, faults, crashes>>

DeleteSession(s) ==
    /\ "delete" \in OtherSteps
    /\ EventLoop /\ ~closing
    /\ disk[s] # None /\ disk[s].status # "running"
    /\ disk' = Retire(disk, s)
    /\ retired' = retired \cup {s}
    /\ UNCHANGED <<receipts, engine, provider, history, bounds>>

\* withIdleProject(): the guards before the awaited git operation, and finally.
BeginSwitch(p) ==
    /\ "switch" \in OtherSteps
    /\ EventLoop /\ ~closing
    /\ p \notin switching
    /\ \A s \in Sessions : disk[s] # None /\ disk[s].project = p => disk[s].status # "running"
    /\ switching' = switching \cup {p}
    /\ UNCHANGED <<database, up, closing, running, live, naming, provider, history, bounds>>

EndSwitch(p) ==
    /\ EventLoop /\ p \in switching
    /\ switching' = switching \ {p}
    /\ UNCHANGED <<database, up, closing, running, live, naming, provider, history, bounds>>

\* The title the request saw is still there.  Slip: nobody looks.
TitleAwaited_Always(v) == TRUE
TitleAwaited(v) == v.title = "prompt"

\* generateTitle() resolves.  A flush runs first; the title is written only if
\* nobody changed the one the request saw.
TitleGenerated(s) ==
    /\ EventLoop /\ s \in naming
    /\ naming' = naming \ {s}
    /\ \/ /\ disk[s] # None
          /\ IF TitleAwaited(Flushed(s))
             THEN LET saved == Saved([Flushed(s) EXCEPT !.title = "generated"]) IN
                    /\ disk' = [disk EXCEPT ![s] = saved]
                    /\ live' = [live EXCEPT ![s] = Synced(s, saved)]
             ELSE /\ disk' = [disk EXCEPT ![s] = Flushed(s)]
                  /\ live' = [live EXCEPT ![s] = AfterFlush(s)]
          /\ UNCHANGED faults
       \/ disk[s] # None /\ FlushThrows(s) /\ UNCHANGED disk
       \/ UNCHANGED <<disk, live, faults>>      \* no title, or the session is gone
    /\ UNCHANGED <<receipts, retired, up, closing, running, switching, provider,
                   history, crashes, renames>>

-----------------------------------------------------------------------------
(* A turn: the promise chain that run() builds *)

\* provider.stop(), then await it.
Await(s, error) ==
    /\ StopProvider({s})
    /\ running' = [running EXCEPT ![s].at = "stopping", ![s].error = error,
                                  ![s].wait = child[s]]

\* The microtask starts: call the adapter unless the turn was already called off.
StartTurn(s) ==
    /\ EventLoop /\ running[s] # None /\ running[s].at = "queued"
    /\ LET r == running[s].runId IN
       IF closing \/ running[s].cancelled
       THEN /\ Await(s, FALSE)
            /\ UNCHANGED <<sinks, dispatched>>
       ELSE /\ running' = [running EXCEPT ![s].at = "sending"]
            /\ prov' = [prov EXCEPT ![s] = [phase |-> "launching", run |-> r, error |-> FALSE]]
            /\ sinks' = sinks \cup {r}
            /\ dispatched' = [dispatched EXCEPT ![r] = @ + 1]
            /\ UNCHANGED <<child, dying, marks>>
    /\ UNCHANGED <<database, up, closing, live, switching, naming,
                   emitted, prompted, accepted, answered, bounds>>

\* send() resolved or rejected: stop the provider and wait for its process.
SendSettles(s) ==
    /\ EventLoop /\ running[s] # None /\ running[s].at = "sending"
    /\ prov[s].phase = "ended"
    /\ running' = [running EXCEPT ![s].at = "stopping", ![s].error = prov[s].error,
                                  ![s].wait = child[s]]
    /\ marks' = marks \ {s}
    /\ prov' = [prov EXCEPT ![s] = IdleProv]
    /\ child' = Retire(child, s)
    /\ dying' = IF child[s] = None THEN dying ELSE [dying EXCEPT ![s] = @ \cup {child[s]}]
    /\ UNCHANGED <<database, up, closing, live, switching, naming, sinks, history, bounds>>

\* Slip: a stopped turn gets a status of its own.
Outcome_FourthStatus(s) ==
    IF running[s].cancelled THEN <<"stopped", "stopped">> ELSE <<"idle", "-">>

\* How the finished turn reads: its status and its closing message.
Outcome(s) ==
    CASE closing                      -> <<"interrupted", "closed">>
      [] running[s].persistenceFailed -> <<"interrupted", "storage">>
      [] running[s].cancelled         -> <<"idle", "stopped">>
      [] running[s].error             -> <<"idle", "error">>
      [] OTHER                        -> <<"idle", "-">>

\* The provider is gone: write what is left, settle the turn, forget it.
FinishTurn(s) ==
    /\ up /\ running[s] # None /\ running[s].at = "stopping"
    /\ StopReturned(s)
    /\ LET latest == Flushed(s) IN
         disk' = [disk EXCEPT ![s] =
                    IF latest.runId = running[s].runId
                    THEN Saved(Settled(latest, Outcome(s)[1], Outcome(s)[2]))
                    ELSE latest]
    /\ live' = Retire(live, s)
    /\ running' = Retire(running, s)
    /\ UNCHANGED <<receipts, retired, up, closing, switching, naming, provider,
                   history, bounds>>

\* Slips: the settlement is given up, with or without forgetting the turn.
Retrying_Forgets(s) == Retire(running, s)
Retrying_Never(s) == [running EXCEPT ![s].at = "abandoned"]

\* retrySettlement(): try again in a second, unless the host is stopping.
Retrying(s) == [running EXCEPT ![s].at = IF closing THEN "abandoned" ELSE "retryWait"]

\* ... the write of the last events, or the settlement itself, throws: stop the
\* provider once more and retry.
FinishTurnFails(s) ==
    /\ up /\ running[s] # None /\ running[s].at = "stopping"
    /\ StopReturned(s)
    /\ \/ FlushThrows(s) /\ UNCHANGED disk
       \/ /\ Fault
          /\ disk' = [disk EXCEPT ![s] = Flushed(s)]
          /\ live' = Retire(live, s)
    /\ StopProvider({s})
    /\ running' = Retrying(s)
    /\ UNCHANGED <<receipts, retired, up, closing, switching, naming, sinks,
                   history, crashes, renames>>

\* The retry timer fires: stop the provider again.
RetryFires(s) ==
    /\ EventLoop /\ running[s] # None /\ running[s].at = "retryWait"
    /\ StopProvider({s})
    /\ running' = [running EXCEPT ![s].at = "retryStopping", ![s].wait = child[s]]
    /\ UNCHANGED <<database, up, closing, live, switching, naming, sinks, history, bounds>>

RetrySettles(s) ==
    /\ up /\ running[s] # None /\ running[s].at = "retryStopping"
    /\ StopReturned(s)
    /\ LET latest == Flushed(s) IN
         disk' = [disk EXCEPT ![s] =
                    IF latest.runId = running[s].runId /\ latest.status = "running"
                    THEN Saved(Settled(latest, "interrupted", "storage"))
                    ELSE latest]
    /\ live' = Retire(live, s)
    /\ running' = Retire(running, s)
    /\ UNCHANGED <<receipts, retired, up, closing, switching, naming, provider,
                   history, bounds>>

RetryFails(s) ==
    /\ up /\ running[s] # None /\ running[s].at = "retryStopping"
    /\ StopReturned(s)
    /\ \/ FlushThrows(s) /\ UNCHANGED disk
       \/ /\ Fault
          /\ disk' = [disk EXCEPT ![s] = Flushed(s)]
          /\ live' = [live EXCEPT ![s] = AfterFlush(s)]
    /\ running' = Retrying(s)
    /\ UNCHANGED <<receipts, retired, up, closing, switching, naming, provider,
                   history, crashes, renames>>

-----------------------------------------------------------------------------
(* Output *)

\* event() listens to the running turn only.  Slip: to any callback of the session.
Listens_AnyTurn(s, r) == live[s] # None /\ live[s].value.status = "running"
Listens(s, r) == live[s] # None /\ live[s].value.runId = r /\ live[s].value.status = "running"

\* What a turn's callback may still deliver: output as soon as the prompt is in, and
\* after the turn as well; requests only while the turn is in progress.
Emits(s, r, kind) ==
    /\ r \in sinks /\ receipts[r].session = s
    /\ kind \in EventKinds
    /\ IF kind = "text" THEN r \in prompted
       ELSE prov[s].phase = "turn" /\ prov[s].run = r

\* event(): fold it into the live snapshot if its turn is the running one.  Text is
\* written by a timer; anything a user may act on is written at once, and if
\* that write throws the provider is stopped without being awaited.
ProviderEvent(s, r, kind) ==
    LET n == emitted[r] + 1
        value == Applied(live[s].value, r, n, kind)
    IN
    /\ EventLoop /\ Emits(s, r, kind) /\ n <= MaxEvents
    /\ Listens(s, r)
    /\ emitted' = [emitted EXCEPT ![r] = n]
    /\ accepted' = accepted \cup {<<s, r, n, kind>>}
    /\ \/ /\ kind = "text"
          /\ live' = [live EXCEPT ![s] = [value |-> value, dirty |-> TRUE, timer |-> TRUE]]
          /\ UNCHANGED <<disk, running, prov, child, dying, marks, faults>>
       \/ /\ kind # "text"
          /\ disk' = [disk EXCEPT ![s] = Saved(value)]
          /\ live' = [live EXCEPT ![s] = Snapshot(Saved(value))]
          /\ UNCHANGED <<running, prov, child, dying, marks, faults>>
       \/ /\ kind # "text"
          /\ Fault
          /\ live' = [live EXCEPT ![s] = [value |-> value, dirty |-> TRUE, timer |-> FALSE]]
          /\ running' = IF running[s] = None THEN running
                        ELSE [running EXCEPT ![s].persistenceFailed = TRUE]
          /\ StopProvider({s})
          /\ UNCHANGED disk
    /\ UNCHANGED <<receipts, retired, up, closing, switching, naming, sinks,
                   dispatched, prompted, answered, crashes, renames>>

\* scheduledFlush() from the 120 ms timer.
TimerFlush(s) ==
    /\ EventLoop /\ live[s] # None /\ live[s].timer
    /\ disk' = [disk EXCEPT ![s] = Flushed(s)]
    /\ live' = [live EXCEPT ![s] = AfterFlush(s)]
    /\ UNCHANGED <<receipts, retired, up, closing, running, switching, naming,
                   provider, history, bounds>>

TimerFlushThrows(s) ==
    /\ EventLoop /\ live[s] # None /\ live[s].timer
    /\ FlushThrows(s)
    /\ running' = IF running[s] = None THEN running
                  ELSE [running EXCEPT ![s].persistenceFailed = TRUE]
    /\ StopProvider({s})
    /\ UNCHANGED <<database, up, closing, switching, naming, sinks, history,
                   crashes, renames>>

-----------------------------------------------------------------------------
(* The adapter's send() and its process *)

\* ensureLive(): the process enters the table; one left there is stopped first.
Spawn(s) ==
    /\ EventLoop /\ prov[s].phase = "launching"
    /\ prov' = [prov EXCEPT ![s].phase = "opening"]
    /\ child' = [child EXCEPT ![s] = prov[s].run]
    /\ dying' = IF child[s] = None THEN dying ELSE [dying EXCEPT ![s] = @ \cup {child[s]}]
    /\ UNCHANGED <<database, engine, marks, sinks, history, bounds>>

\* The binary is missing, the handshake fails or times out: send() rejects.
OpeningFails(s) ==
    /\ EventLoop /\ prov[s].phase \in {"launching", "opening"}
    /\ prov' = [prov EXCEPT ![s].phase = "ended", ![s].error = TRUE]
    /\ marks' = marks \ {s}
    /\ UNCHANGED <<database, engine, child, dying, sinks, history, bounds>>

\* The process is ready: deliver the prompt, unless a cancel left a mark.
ProviderReady(s) ==
    /\ EventLoop /\ prov[s].phase = "opening" /\ child[s] = prov[s].run
    /\ IF s \in marks
       THEN prov' = [prov EXCEPT ![s].phase = "ended"] /\ UNCHANGED prompted
       ELSE /\ prov' = [prov EXCEPT ![s].phase = "turn"]
            /\ prompted' = prompted \cup {prov[s].run}
    /\ marks' = marks \ {s}
    /\ UNCHANGED <<database, engine, child, dying, sinks,
                   emitted, dispatched, accepted, answered, bounds>>

\* The provider completes the turn, fails it, or answers the interrupt.
TurnEnds(s) ==
    /\ EventLoop /\ prov[s].phase \in {"turn", "muted"}
    /\ \E error \in IF prov[s].phase = "turn" THEN BOOLEAN ELSE {FALSE} :
         prov' = [prov EXCEPT ![s].phase = "ended", ![s].error = error]
    /\ UNCHANGED <<database, engine, child, dying, marks, sinks, history, bounds>>

\* The process dies by itself: a turn in progress fails, a handshake never answers.
ChildExits(s) ==
    /\ EventLoop /\ child[s] # None
    /\ child' = Retire(child, s)
    /\ prov' = IF prov[s].phase \in {"opening", "turn", "muted"}
               THEN [prov EXCEPT ![s].phase = "ended", ![s].error = prov[s].phase # "muted"]
               ELSE prov
    /\ marks' = IF prov[s].phase = "opening" THEN marks \ {s} ELSE marks
    /\ UNCHANGED <<database, engine, dying, sinks, history, bounds>>

\* A process that was told to stop is gone (SIGKILL after three seconds at most; on
\* a dead host its guard stops it).
ProcessGone(s, r) ==
    /\ r \in dying[s]
    /\ dying' = [dying EXCEPT ![s] = @ \ {r}]
    /\ UNCHANGED <<database, engine, prov, child, marks, sinks, history, bounds>>

-----------------------------------------------------------------------------
(* The host process *)

\* engine.close(): refuse commands, drop the retry timers, stop every running turn.
Close ==
    /\ "close" \in OtherSteps
    /\ EventLoop /\ ~closing
    /\ closing' = TRUE
    /\ StopProvider({s \in Sessions : running[s] # None})
    /\ running' = [s \in Sessions |->
                     IF running[s] # None /\ running[s].at = "retryWait"
                     THEN [running[s] EXCEPT !.at = "abandoned"] ELSE running[s]]
    /\ UNCHANGED <<database, up, live, switching, naming, sinks, history, bounds>>

\* The memory of the process is gone, and nothing holds its children any more.
Down ==
    /\ up' = FALSE /\ closing' = FALSE
    /\ running' = [s \in Sessions |-> None]
    /\ live' = [s \in Sessions |-> None]
    /\ switching' = {} /\ naming' = {} /\ marks' = {} /\ sinks' = {}
    /\ prov' = [s \in Sessions |-> IdleProv]
    /\ child' = [s \in Sessions |-> None]
    /\ dying' = [s \in Sessions |->
                   IF child[s] = None THEN dying[s] ELSE dying[s] \cup {child[s]}]
    /\ crashes < MaxCrashes /\ crashes' = crashes + 1
    /\ UNCHANGED <<database, history, faults, renames>>

\* close() returns once every turn's chain has ended and every stop was awaited.
Exit ==
    /\ EventLoop /\ closing
    /\ \A s \in Sessions :
         /\ running[s] # None => running[s].at \notin {"queued", "sending", "stopping"}
         /\ dying[s] = {}
    /\ Down

Crash == up /\ Down

\* Slip: every session that ever ran is settled again.
Interrupted_Any == {s \in Sessions : disk[s] # None /\ disk[s].runId # None}
Interrupted == {s \in Sessions : disk[s] # None /\ disk[s].status = "running"}

\* The constructor: settle what a crash left running, never replay it.  A failing
\* save leaves the host down with only some of the rows settled.
Restart ==
    /\ ~up
    /\ LET settle(S) == [s \in Sessions |->
                           IF s \in S THEN Saved(Settled(disk[s], "interrupted", "restarted"))
                           ELSE disk[s]]
       IN  \/ /\ disk' = settle(Interrupted)
              /\ up' = TRUE
              /\ UNCHANGED faults
           \/ /\ Fault
              /\ \E S \in SUBSET Interrupted : S # Interrupted /\ disk' = settle(S)
              /\ UNCHANGED up
    /\ UNCHANGED <<receipts, retired, closing, running, live, switching, naming,
                   provider, history, crashes, renames>>

-----------------------------------------------------------------------------
Init ==
    /\ disk \in [Sessions -> {None} \cup {NewSession(p) : p \in Projects}]
    /\ \A s \in Sessions : disk[s] # None <=> s \in Existing
    /\ receipts = [c \in Commands |-> None]
    /\ retired = {}
    /\ up = TRUE /\ closing = FALSE
    /\ running = [s \in Sessions |-> None]
    /\ live = [s \in Sessions |-> None]
    /\ switching = {} /\ naming = {}
    /\ prov = [s \in Sessions |-> IdleProv]
    /\ child = [s \in Sessions |-> None]
    /\ dying = [s \in Sessions |-> {}]
    /\ marks = {} /\ sinks = {}
    /\ emitted = [c \in Commands |-> 0]
    /\ dispatched = [c \in Commands |-> 0]
    /\ prompted = {} /\ accepted = {} /\ answered = {}
    /\ faults = 0 /\ crashes = 0 /\ renames = 0

ClientStep ==
    \E s \in Sessions :
      \/ \E c \in Commands :
           \/ \E p \in Projects : Create(c, s, p)
           \/ Configure(c, s)
           \/ Draft(c, s)
           \/ RemoveDraft(c, s)
           \/ disk[s] # None /\
                \E type \in {"send", "compact"},
                   draft \in {None} \cup Drafts(disk[s]),
                   plan \in {None} \cup {b \in disk[s].blocks : b.role = "plan"} :
                     Send(c, s, type, draft, plan)
           \/ \E r \in Commands :
                \/ Cancel(c, s, r)
                \/ \E n \in 1 .. MaxEvents :
                     \/ \E decision \in {"allow", "deny"} : Approve(c, s, r, n, decision)
                     \/ Answer(c, s, r, n)
      \/ CommandFails(s)
      \/ CommandFlushThrows(s)
      \/ UpdateSession(s)
      \/ DeleteSession(s)

SwitchStep == \E p \in Projects : BeginSwitch(p) \/ EndSwitch(p)

TurnStep(s) == \/ StartTurn(s) \/ SendSettles(s)
               \/ FinishTurn(s) \/ FinishTurnFails(s)
               \/ RetryFires(s) \/ RetrySettles(s) \/ RetryFails(s)
               \/ TimerFlush(s) \/ TimerFlushThrows(s)
               \/ TitleGenerated(s)

ProviderStep(s) == \/ Spawn(s) \/ OpeningFails(s) \/ ProviderReady(s)
                   \/ TurnEnds(s) \/ ChildExits(s)
                   \/ \E r \in Commands : ProcessGone(s, r)
                   \/ \E r \in Commands, kind \in AllEventKinds : ProviderEvent(s, r, kind)

HostStep == Close \/ Exit \/ Crash \/ Restart

Next == \/ ClientStep
        \/ SwitchStep
        \/ \E s \in Sessions : TurnStep(s) \/ ProviderStep(s)
        \/ HostStep

Spec == Init /\ [][Next]_vars

-----------------------------------------------------------------------------
(* Properties *)

\* Every variable has its type.
TypeOK ==
    /\ disk \in [Sessions -> HostSession \cup {None}]
    /\ receipts \in [Commands -> Receipt \cup {None}]
    /\ retired \subseteq Sessions
    /\ up \in BOOLEAN /\ closing \in BOOLEAN
    /\ running \in [Sessions -> Running \cup {None}]
    /\ live \in [Sessions -> Live \cup {None}]
    /\ switching \subseteq Projects
    /\ naming \subseteq Sessions
    /\ prov \in [Sessions -> Prov]
    /\ child \in [Sessions -> Run]
    /\ dying \in [Sessions -> SUBSET Commands]
    /\ marks \subseteq Sessions
    /\ sinks \subseteq Commands
    /\ emitted \in [Commands -> Nat]
    /\ dispatched \in [Commands -> Nat]
    /\ prompted \subseteq Commands
    /\ accepted \subseteq Sessions \X Commands \X Nat \X AllEventKinds
    /\ answered \subseteq [command : Commands, run : Commands, n : Nat, to : Run]
    /\ faults \in Nat /\ crashes \in Nat /\ renames \in Nat

\* While the host is up, a session reads "running" exactly while one promise chain
\* owns it, and that chain is the turn the row names: no turn is orphaned by a
\* failing write, and none is running unseen (engine.ts:778-862, 370-412).
RunningHasOwner ==
    up => \A s \in Sessions :
            /\ (disk[s] # None /\ disk[s].status = "running") <=> running[s] # None
            /\ running[s] # None => disk[s].runId = running[s].runId

\* The live snapshot never falls behind the row: whoever writes the row between two
\* batches of output (a command, a title edit, a generated title) hands its
\* version to the snapshot, so the next batch cannot undo it (engine.ts:337-354,
\* 707-708, 739-740).
LiveFollowsDisk ==
    \A s \in Sessions :
      live[s] # None =>
        /\ disk[s] # None
        /\ live[s].value.revision = disk[s].revision
        /\ live[s].value.title = disk[s].title
        /\ live[s].value.runId = disk[s].runId
        /\ ~live[s].dirty => live[s].value = disk[s]

\* Output the engine took in is kept as long as the host has not crashed: it is in
\* the row, or in a snapshot still waiting for a write, through failing
\* writes and retried settlements.  (Questions leave the session when settled.)
Holds(v, r, n) == \E b \in v.blocks : b.by = r /\ b.n = n
OutputIsKept ==
    crashes = 0 =>
      \A e \in accepted :
        \/ e[4] \notin {"text", "approval"}
        \/ e[1] \in retired
        \/ Holds(disk[e[1]], e[2], e[3])
        \/ live[e[1]] # None /\ live[e[1]].dirty /\ Holds(live[e[1]].value, e[2], e[3])

\* A turn's output stays in its own part of the transcript, however late the
\* callback of an earlier turn fires (engine.ts:864-867).
OutputStaysInItsTurn ==
    \A s \in Sessions :
      disk[s] # None => \A b \in disk[s].blocks : b.mark # "draft" => b.by = b.turn

\* provider.send is called at most once for an accepted command: not by a client
\* that repeats the command, not by a settlement retry, not by a restart
\* (engine.ts:268-269, 420-421).
AtMostOneDispatch == \A c \in Commands : dispatched[c] <= 1

\* A receipt is a durable promise: the message it acknowledges is in the transcript
\* of its session, or the session was deleted (engine.ts:690-710).
ReceiptIsDurable ==
    \A c \in Commands :
      receipts[c] # None /\ receipts[c].type \in {"send", "compact"} =>
        LET s == receipts[c].session IN
        \/ s \in retired
        \/ disk[s] # None /\ \E b \in disk[s].blocks :
             b.role = "user" /\ b.by = c /\ b.mark = "-"

\* A session that is not running asks for nothing and builds nothing: no open
\* approval, no question, no plan stuck in "building" (engine.ts:881-913).
SettledAsksNothing ==
    \A s \in Sessions :
      disk[s] # None /\ disk[s].status # "running" =>
        /\ disk[s].question = 0
        /\ \A b \in disk[s].blocks : b.mark \notin {"open", "building"}

\* A request is decided once, and the decision reaches the turn that asked, or
\* nobody (engine.ts:640-688).
AnsweredOnce ==
    \A a, b \in answered :
      /\ a.run = b.run /\ a.n = b.n => a = b
      /\ a.to \in {None, a.run}

\* No turn runs in a checkout while its branch is being switched (engine.ts:300-320,
\* 427-430, 457-461).
NoTurnDuringSwitch ==
    \A s \in Sessions :
      disk[s] # None /\ disk[s].project \in switching =>
        disk[s].status # "running" /\ running[s] = None

\* A title typed by the user stays, whatever a slow title generation returns.  (A
\* draft saved as the very first block retitles the session.)
ManualTitleStays ==
    [][\A s \in Sessions :
         disk[s] # None /\ disk'[s] # None /\ disk[s].title = "manual" =>
           disk'[s].title = "manual" \/ disk[s].blocks = {}]_vars

\* A settled turn stays settled: the same turn never runs again and its outcome is
\* never rewritten by a late retry, a late callback or a restart.
SettledIsFinal ==
    [][\A s \in Sessions :
         disk[s] # None /\ disk[s].status # "running"
         /\ disk'[s] # None /\ disk'[s].runId = disk[s].runId =>
           /\ disk'[s].status = disk[s].status
           /\ {b \in disk'[s].blocks : b.role = "note"} = {b \in disk[s].blocks : b.role = "note"}]_vars

\* The engine implements the turn service: what a client can see of a turn is its
\* receipt, its session's row, and whether the provider was called for it (engine.ts).
IsTurn(c) == receipts[c] # None /\ receipts[c].type \in {"send", "compact"}
OnDisk(c) == LET s == receipts[c].session IN
             disk[s] # None /\ disk[s].status = "running" /\ disk[s].runId = c
Service == INSTANCE TurnService WITH
    Turns <- Commands,
    turn <- [c \in Commands |->
               IF ~IsTurn(c) THEN "new"
               ELSE IF ~OnDisk(c) THEN "settled"
               ELSE IF dispatched[c] = 0 THEN "accepted" ELSE "dispatched"],
    current <- [s \in Sessions |->
                  IF disk[s] # None /\ disk[s].status = "running" THEN disk[s].runId ELSE None]
TurnsAreServed == Service!Spec

\* Once the user stopped a turn, it settles, through failing writes, a crash and a
\* restart.  What is assumed fair: the engine's own callbacks and timers, a
\* handshake (it times out after a minute), a provider's reply to an
\* interrupt, the end of a killed process, and the service manager's restart.
\* Nothing is assumed of a turn that nobody stopped: it may run for ever.  The
\* host's own shutdown is left out: see NoPromptOnceClosing.
Stopped(s) == disk[s] # None /\ disk[s].status = "running"
              /\ (~up \/ (running[s] # None /\ running[s].cancelled))
CallbackFairness(s) ==
    /\ WF_vars(StartTurn(s)) /\ WF_vars(SendSettles(s)) /\ WF_vars(FinishTurn(s))
    /\ WF_vars(RetryFires(s)) /\ WF_vars(RetrySettles(s))
    /\ WF_vars(OpeningFails(s) \/ Spawn(s)) /\ WF_vars(OpeningFails(s) \/ ProviderReady(s))
    /\ WF_vars(prov[s].phase = "muted" /\ TurnEnds(s))
    /\ \A r \in Commands : WF_vars(ProcessGone(s, r))
Fairness == /\ \A s \in Sessions : CallbackFairness(s)
            /\ WF_vars(Restart)
FairSpec == Spec /\ Fairness
StoppedTurnSettles ==
    \A s \in Sessions : Stopped(s) ~> (disk[s] = None \/ disk[s].status # "running" \/ closing)

-----------------------------------------------------------------------------
(* What the repository says of the engine and the code does not do *)

\* "Other remote prompts are sent directly to the provider"
\* (docs/remote-access.md:103): a turn that settled without a word was prompted.
QuietTurnWasPrompted ==
    \A s \in Sessions :
      disk[s] # None /\ disk[s].status = "idle" /\ disk[s].runId # None
      /\ (\A b \in disk[s].blocks : b.role = "note" => b.turn # disk[s].runId) =>
        disk[s].runId \in prompted

\* "Keep the session running until the old process has stopped" (engine.ts:823):
\* a session that accepts a follow-up has no process of its own left dying.
SettledMeansStopped ==
    up /\ ~closing /\ crashes = 0 =>
      \A s \in Sessions : disk[s] # None /\ disk[s].status # "running" => dying[s] = {}

\* "Approval request ids are live only for the turn that produced them"
\* (apply.ts:518): a request that was decided keeps its decision.
DecisionIsFinal ==
    [][\A s \in Sessions :
         disk[s] # None /\ disk'[s] # None =>
           \A b \in disk[s].blocks :
             b.role = "approval" /\ b.mark # "open" => b \in disk'[s].blocks]_vars

\* "Stop the host and interrupt its running turns" (cli.ts:85): once the host is
\* closing, no prompt is delivered any more.
NoPromptOnceClosing == [][closing => prompted' = prompted]_vars

=============================================================================

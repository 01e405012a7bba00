----------------------------- MODULE Automations -----------------------------
(***************************************************************************)
(* Automations of the desktop app: the rows, runs and claims in its         *)
(* database (src-tauri/src/automations.rs), the passes of every window that *)
(* claim what is due (features/automations/model/automations.ts) and what    *)
(* appeared in the inbox (automationEvents.ts), and the launch of a claimed  *)
(* run with the recovery of what a stopped app left (app/App.tsx).           *)
(*                                                                          *)
(* Abstractions.  Every automation has a time trigger, whose occurrences are *)
(* the ticks of the clock, and a trigger that every inbox item matches.  A   *)
(* pass claims for one automation; those of one listing follow each other.   *)
(* A window makes one pass over the inbox at a time.  The session a run gets *)
(* and its folder, how a run that is over ended, the limits of 100            *)
(* occurrences a pass and 500 items to retry, and the trimming of histories  *)
(* beyond their limit are left out.                                          *)
(***************************************************************************)
EXTENDS Desktop, Naturals, Sequences, FiniteSets

CONSTANTS
    AutoWindows,   \* windows of the app
    Autos,         \* automations
    Items,         \* inbox items, each with its event key
    Grace,         \* missed_run_grace_minutes, in ticks
    MaxTime,       \* ticks of the clock
    MaxRuns,       \* rows of automation_runs
    MaxHappenings, \* edits, deletions, runs by hand, failing calls and windows
                   \* opened, all together
    MaxStarts      \* starts of the app after the first

ASSUME AutomationsAssumption ==
    Grace \in Nat /\ MaxTime \in Nat /\ MaxRuns \in Nat /\ MaxHappenings \in Nat /\ MaxStarts \in Nat

VARIABLES
    now,        \* the clock
    \* The database and local storage.
    autos,      \* automation -> [there, enabled, next]
    runs,       \* automation_runs, in order of creation
    claims,     \* automation_event_claims
    stored,     \* items kept for a retry
    \* The app.
    page,       \* window -> its state, below
    edit,       \* an edit on its way to the database
    \* History, read by the properties only.
    kept,       \* items that have been kept
    sent,       \* run -> times its prompt was submitted
    edited,     \* automations edited or deleted
    unreported, \* runs whose outcome could not be written
    crowded,    \* the app has had two windows at once
    \* Bounds of the model.
    happenings, starts

autoStore == <<autos, runs, claims, stored>>
autoPast  == <<kept, sent, edited, unreported, crowded>>
autoVars  == <<now, autoStore, page, edit, autoPast, happenings, starts>>

Happens == happenings < MaxHappenings /\ happenings' = happenings + 1 /\ UNCHANGED starts
Routine == UNCHANGED <<happenings, starts>>

(***************************************************************************)
(* A page: the runs there were when it booted, whether it has asked for      *)
(* their recovery, those it has still to launch one after the other, the     *)
(* runs it claimed, those marked running and about to be submitted, those    *)
(* with a turn, the passes under way, its items to retry (None before it     *)
(* reads them), the items that wait for the recovery, and those it has seen. *)
(***************************************************************************)
Closed == [up |-> FALSE, before |-> 0, recovered |-> FALSE, queue |-> <<>>, fresh |-> {},
           marked |-> {}, turns |-> {}, due |-> None, inbox |-> None, retry |-> None,
           waiting |-> {}, seen |-> {}]
Booted == [Closed EXCEPT !.up = TRUE, !.before = Len(runs)]
Ready(w) == page[w].up /\ page[w].recovered /\ page[w].queue = <<>>

Run(a, why, of, status) == [auto |-> a, why |-> why, of |-> of, status |-> status]
Over == {"over", "deleted"}
Statuses == Over \cup {"pending", "running"}
RunRows == [auto : Autos, why : {"scheduled", "event", "manual"}, of : Nat \cup Items, status : Statuses]
\* A pass over what is due (the occurrence to claim next, the time of the
\* listing, the runs it got), and one over what appeared (the claims to try,
\* the items, those of failed claims, the runs it got).
DuePasses   == [auto : Autos, expected : Nat, at : 0..MaxTime, batch : SUBSET Nat]
InboxPasses == [todo : SUBSET (Autos \X Items), items : SUBSET Items, failed : SUBSET Items, batch : SUBSET Nat]
ASSUME PassesAssumption == None \notin DuePasses /\ None \notin InboxPasses

AutomationsTypeOK ==
    /\ now \in 0..MaxTime
    /\ autos \in [Autos -> [there : BOOLEAN, enabled : BOOLEAN, next : 0..(MaxTime + 1)]]
    /\ Len(runs) <= MaxRuns /\ Len(sent) = Len(runs)
    /\ \A r \in DOMAIN runs : runs[r] \in RunRows
    /\ claims \subseteq Autos \X Items /\ stored \subseteq Items
    /\ \A w \in AutoWindows :
           LET p == page[w]
           IN /\ p.fresh \cup p.marked \cup p.turns \cup {p.queue[i] : i \in DOMAIN p.queue} \subseteq DOMAIN runs
              /\ p.fresh \cap (p.marked \cup p.turns) = {} /\ p.waiting \subseteq Items
              /\ p.due \in DuePasses \cup {None} /\ p.inbox \in InboxPasses \cup {None}
              /\ p.retry = None \/ p.retry \subseteq Items

AutomationsInit ==
    /\ now = 0
    /\ autos = [a \in Autos |-> [there |-> TRUE, enabled |-> TRUE, next |-> 1]]
    /\ runs = <<>> /\ claims = {} /\ stored = {}
    /\ \E w \in AutoWindows : page = [x \in AutoWindows |-> IF x = w THEN Booted ELSE Closed]
    /\ edit = None
    /\ kept = {} /\ sent = <<>> /\ edited = {} /\ unreported = {} /\ crowded = FALSE
    /\ happenings = 0 /\ starts = 0

Tick == now < MaxTime /\ now' = now + 1 /\ UNCHANGED <<autoStore, page, edit, autoPast>> /\ Routine

(*************************** The database **********************************)
\* new_run: the row, and the number it has.
NewRun(run) == Len(runs) < MaxRuns /\ runs' = Append(runs, run) /\ sent' = Append(sent, 0)
\* automation_run_update of a row that is still there.
Update(r, status) == runs' = [runs EXCEPT ![r].status = status]
There(r) == runs[r].status # "deleted"

MayClaim_AnyTime(a, expected, at) == autos[a].enabled /\ expected <= at
\* automations_claim_due: the row still stands where the caller read it.
MayClaim(a, expected, at) == autos[a].enabled /\ autos[a].next = expected /\ expected <= at

\* automation_runs_recover, of the runs there were when the window booted.
Interrupted(w) == {r \in 1..page[w].before : runs[r].status = "running"}
Pending(w) == {r \in 1..page[w].before : runs[r].status \notin Over /\ r \notin Interrupted(w)}

(*************************** Recovery **************************************)
InOrder(s) == CHOOSE q \in [1..Cardinality(s) -> s] : \A i, j \in DOMAIN q : i < j => q[i] < q[j]
Recover(w) ==
    /\ page[w].up /\ ~page[w].recovered
    /\ runs' = [r \in DOMAIN runs |->
                   IF r \in Interrupted(w) THEN [runs[r] EXCEPT !.status = "over"] ELSE runs[r]]
    /\ page' = [page EXCEPT ![w].recovered = TRUE, ![w].queue = InOrder(Pending(w))]
    /\ UNCHANGED <<now, autos, claims, stored, edit, autoPast>> /\ Routine
\* The recovery fails: the next tick tries it again, and the items that
\* waited for it are not queued.
RecoverFails(w) ==
    /\ page[w].up /\ ~page[w].recovered /\ Happens
    /\ page' = [page EXCEPT ![w].waiting = {}]
    /\ UNCHANGED <<now, autoStore, edit, autoPast>>

(*************************** Launching *************************************)
Launchable(w) == page[w].fresh \cup
    IF page[w].queue = <<>> \/ Head(page[w].queue) \in page[w].marked THEN {} ELSE {Head(page[w].queue)}
Taken(p, r)    == [p EXCEPT !.fresh = @ \ {r}]
Prompted(p, r) == [p EXCEPT !.marked = @ \ {r}, !.turns = @ \cup {r}]
\* The recovery goes on when a run of it has been submitted, or not.
Went(p, r) == IF p.queue # <<>> /\ Head(p.queue) = r THEN [p EXCEPT !.queue = Tail(@)] ELSE p

\* updateAutomationRun(running) comes before anything is submitted.  A run of
\* a deleted automation is not found.
Mark(w, r) ==
    /\ page[w].up /\ r \in Launchable(w) /\ There(r)
    /\ Update(r, "running")
    /\ page' = [page EXCEPT ![w].fresh = @ \ {r}, ![w].marked = @ \cup {r}]
    /\ UNCHANGED <<now, autos, claims, stored, edit, autoPast>> /\ Routine
NotFound(w, r) ==
    /\ page[w].up /\ r \in Launchable(w) /\ ~There(r)
    /\ page' = [page EXCEPT ![w] = Went(Taken(@, r), r)]
    /\ UNCHANGED <<now, autoStore, edit, autoPast>> /\ Routine
\* The call fails, and so may the one that reports it.
MarkFails(w, r) ==
    /\ page[w].up /\ r \in Launchable(w) /\ There(r) /\ Happens
    /\ \/ Update(r, "over") /\ UNCHANGED unreported
       \/ unreported' = unreported \cup {r} /\ UNCHANGED runs
    /\ page' = [page EXCEPT ![w] = Went(Taken(@, r), r)]
    /\ UNCHANGED <<now, autos, claims, stored, edit, kept, sent, edited, crowded>>
Submit(w, r) ==
    /\ page[w].up /\ r \in page[w].marked
    /\ page' = [page EXCEPT ![w] = Went(Prompted(@, r), r)]
    /\ sent' = [sent EXCEPT ![r] = @ + 1]
    /\ UNCHANGED <<now, autoStore, edit, kept, edited, unreported, crowded>> /\ Routine
\* The turn ends, or the session did not take the prompt.
Settle(w, r) ==
    /\ page[w].up /\ r \in page[w].turns
    /\ IF There(r) THEN Update(r, "over") ELSE UNCHANGED runs
    /\ page' = [page EXCEPT ![w].turns = @ \ {r}]
    /\ UNCHANGED <<now, autos, claims, stored, edit, autoPast>> /\ Routine
SettleFails(w, r) ==
    /\ page[w].up /\ r \in page[w].turns /\ Happens
    /\ unreported' = unreported \cup {r}
    /\ page' = [page EXCEPT ![w].turns = @ \ {r}]
    /\ UNCHANGED <<now, autoStore, edit, kept, sent, edited, crowded>>

(*************************** What is due ***********************************)
\* claimDueAutomations lists the automations, ...
StartPass(w, a) ==
    /\ Ready(w) /\ page[w].due = None
    /\ autos[a].there /\ autos[a].enabled /\ autos[a].next <= now
    /\ page' = [page EXCEPT ![w].due = [auto |-> a, expected |-> autos[a].next, at |-> now, batch |-> {}]]
    /\ UNCHANGED <<now, autoStore, edit, autoPast>> /\ Routine
\* ... claims one occurrence after the other, ...
ClaimDue(w) ==
    LET pass == page[w].due
        t    == pass.expected
        run  == Run(pass.auto, "scheduled", t, IF pass.at - t <= Grace THEN "pending" ELSE "over")
    IN /\ page[w].up /\ pass # None /\ t <= pass.at
       /\ autos[pass.auto].there /\ MayClaim(pass.auto, t, pass.at)
       /\ NewRun(run)
       /\ autos' = [autos EXCEPT ![pass.auto].next = t + 1]
       /\ page' = [page EXCEPT ![w].due =
              [auto |-> pass.auto, expected |-> t + 1, at |-> pass.at,
               batch |-> IF run.status = "pending" THEN pass.batch \cup {Len(runs) + 1} ELSE pass.batch]]
       /\ UNCHANGED <<now, claims, stored, edit, kept, edited, unreported, crowded>> /\ Routine
\* ... and launches what it got, when there is no more or a claim fails or
\* finds that the schedule has moved on.
EndPass(w) ==
    LET pass == page[w].due
    IN /\ page[w].up /\ pass # None
       /\ \/ /\ pass.expected > pass.at \/ ~autos[pass.auto].there
                \/ ~MayClaim(pass.auto, pass.expected, pass.at)
             /\ Routine
          \/ pass.expected <= pass.at /\ Happens
       /\ page' = [page EXCEPT ![w].due = None, ![w].fresh = @ \cup pass.batch]
       /\ UNCHANGED <<now, autoStore, edit, autoPast>>

(*************************** What appeared *********************************)
\* claimInboxAutomationRuns, up to its listing: the items are kept first.
Queued(p) == (IF p.retry = None THEN stored ELSE p.retry) \cup p.waiting
StartInbox(p) ==
    [p EXCEPT !.retry = Queued(p), !.waiting = {},
              !.inbox = [todo |-> {a \in Autos : autos[a].there /\ autos[a].enabled} \X Queued(p),
                         items |-> Queued(p), failed |-> {}, batch |-> {}]]
\* A poll of the inbox finds items for the first time, or none: then it tries
\* those that were kept.  The recovery comes first.
Poll(w, found) ==
    /\ page[w].up /\ page[w].inbox = None /\ found # {} /\ found \cap page[w].seen = {}
    /\ page' = [page EXCEPT ![w].seen = @ \cup found, ![w].waiting = @ \cup found]
    /\ UNCHANGED <<now, autoStore, edit, autoPast>> /\ Routine
ClaimAppeared(w) ==
    /\ Ready(w) /\ page[w].inbox = None /\ Queued(page[w]) # {}
    /\ page' = [page EXCEPT ![w] = StartInbox(@)]
    /\ stored' = Queued(page[w]) /\ kept' = kept \cup Queued(page[w])
    /\ UNCHANGED <<now, autos, runs, claims, edit, sent, edited, unreported, crowded>> /\ Routine

\* automations_claim_event: INSERT OR IGNORE by automation and event key.
MayClaimEvent(a, i) == autos[a].enabled /\ <<a, i>> \notin claims
Tried(p, m, failed, batch) ==
    [p EXCEPT !.inbox = [todo |-> @.todo \ {m}, items |-> @.items,
                         failed |-> @.failed \cup failed, batch |-> @.batch \cup batch]]
ClaimEvent(w, a, i) ==
    /\ page[w].up /\ page[w].inbox # None /\ <<a, i>> \in page[w].inbox.todo
    /\ IF autos[a].there /\ MayClaimEvent(a, i)
       THEN /\ NewRun(Run(a, "event", i, "pending"))
            /\ claims' = claims \cup {<<a, i>>}
            /\ page' = [page EXCEPT ![w] = Tried(@, <<a, i>>, {}, {Len(runs) + 1})]
       ELSE /\ page' = [page EXCEPT ![w] = Tried(@, <<a, i>>, IF autos[a].there THEN {} ELSE {i}, {})]
            /\ UNCHANGED <<runs, claims, sent>>
    /\ UNCHANGED <<now, autos, stored, edit, kept, edited, unreported, crowded>> /\ Routine
ClaimEventFails(w, a, i) ==
    /\ page[w].up /\ page[w].inbox # None /\ <<a, i>> \in page[w].inbox.todo /\ Happens
    /\ page' = [page EXCEPT ![w] = Tried(@, <<a, i>>, {i}, {})]
    /\ UNCHANGED <<now, autoStore, edit, autoPast>>
Retained_None(p) == p.retry \ p.inbox.items
\* What has been tried leaves the queue, except the items of failed claims.
Retained(p) == p.retry \ (p.inbox.items \ p.inbox.failed)
EndInbox(w) ==
    /\ page[w].up /\ page[w].inbox # None /\ page[w].inbox.todo = {}
    /\ page' = [page EXCEPT ![w].retry = Retained(page[w]), ![w].inbox = None,
                            ![w].fresh = @ \cup page[w].inbox.batch]
    /\ stored' = Retained(page[w])
    /\ UNCHANGED <<now, autos, runs, claims, edit, autoPast>> /\ Routine

(*************************** The user **************************************)
RunNow(w, a) ==
    /\ page[w].up /\ autos[a].there /\ Happens
    /\ NewRun(Run(a, "manual", now, "pending"))
    /\ page' = [page EXCEPT ![w].fresh = @ \cup {Len(runs) + 1}]
    /\ UNCHANGED <<now, autos, claims, stored, edit, kept, edited, unreported, crowded>>
\* saveAutomation: the next run is computed before the call; the automation
\* may be enabled or disabled with it.
Edit(a) ==
    /\ edit = None /\ autos[a].there /\ Happens
    /\ \E enabled \in BOOLEAN : edit' = [auto |-> a, enabled |-> enabled, next |-> now + 1]
    /\ UNCHANGED <<now, autoStore, page, autoPast>>
EditLands ==
    /\ edit # None
    /\ LET a == edit.auto
       IN /\ autos' = [autos EXCEPT ![a] = [there |-> TRUE, enabled |-> edit.enabled, next |-> edit.next]]
          /\ edited' = edited \cup {a}
    /\ edit' = None
    /\ UNCHANGED <<now, runs, claims, stored, page, kept, sent, unreported, crowded>> /\ Routine
\* The runs and the claims go with the automation.
Delete(a) ==
    /\ autos[a].there /\ Happens
    /\ autos' = [autos EXCEPT ![a].there = FALSE]
    /\ runs' = [r \in DOMAIN runs |->
                   IF runs[r].auto = a THEN [runs[r] EXCEPT !.status = "deleted"] ELSE runs[r]]
    /\ claims' = {c \in claims : c[1] # a}
    /\ edited' = edited \cup {a}
    /\ UNCHANGED <<now, stored, page, edit, kept, sent, unreported, crowded>>

(*************************** The app ***************************************)
OpenWindow(w) ==
    /\ ~page[w].up /\ Happens
    /\ page' = [page EXCEPT ![w] = Booted]
    /\ crowded' = TRUE
    /\ UNCHANGED <<now, autoStore, edit, kept, sent, edited, unreported>>
\* It dies or is quit, and starts again with one window.
Restart(w) ==
    /\ starts < MaxStarts /\ starts' = starts + 1
    /\ page' = [x \in AutoWindows |-> IF x = w THEN Booted ELSE Closed]
    /\ edit' = None
    /\ UNCHANGED <<now, autoStore, autoPast, happenings>>

AutomationsNext ==
    \/ Tick \/ EditLands
    \/ \E a \in Autos : Edit(a) \/ Delete(a)
    \/ \E w \in AutoWindows :
           \/ Recover(w) \/ RecoverFails(w) \/ ClaimDue(w) \/ EndPass(w) \/ ClaimAppeared(w) \/ EndInbox(w)
           \/ OpenWindow(w) \/ Restart(w)
           \/ \E a \in Autos : StartPass(w, a) \/ RunNow(w, a)
           \/ \E r \in DOMAIN runs : \/ Mark(w, r) \/ NotFound(w, r) \/ MarkFails(w, r)
                                     \/ Submit(w, r) \/ Settle(w, r) \/ SettleFails(w, r)
           \/ \E found \in SUBSET Items : Poll(w, found)
           \/ \E a \in Autos, i \in Items : ClaimEvent(w, a, i) \/ ClaimEventFails(w, a, i)

AutomationsSpec == AutomationsInit /\ [][AutomationsNext]_autoVars
-----------------------------------------------------------------------------
\* What starts a run starts it once: two windows that claim the same occurrence
\* or the same inbox item get one run between them (the compare-and-swap of
\* next_run_at, the key of automation_event_claims), unless an edit that was
\* computed before a claim moved the schedule back.
ClaimedOnce ==
    \A r, s \in DOMAIN runs :
        /\ r # s /\ There(r) /\ There(s)
        /\ runs[r].auto = runs[s].auto /\ runs[r].why = runs[s].why /\ runs[r].of = runs[s].of
        => runs[r].why = "manual" \/ (runs[r].why = "scheduled" /\ runs[r].auto \in edited)

\* A prompt is submitted once, whatever dies between its claim, its mark and
\* its turn: the recovery launches only what was not marked running.  (Another
\* window of the same app takes them for those of an app that stopped.)
SubmittedOnce == ~crowded => \A r \in DOMAIN sent : sent[r] <= 1

\* What starts a run starts one run, and that run prompts once
\* (automations.rs:737-960).
RunsOnce == AutomationsTypeOK /\ ClaimedOnce /\ SubmittedOnce

\* What has a run: an occurrence, an item.
Passed(a, t) == \E r \in DOMAIN runs : runs[r].auto = a /\ runs[r].why = "scheduled" /\ runs[r].of = t
Kept(i) == i \in stored \/ \E w \in AutoWindows : page[w].retry # None /\ i \in page[w].retry
Held(r) ==
    \E w \in AutoWindows :
        LET p == page[w]
        IN \/ r \in p.fresh \cup p.marked \cup p.turns \cup {p.queue[i] : i \in DOMAIN p.queue}
           \/ p.due # None /\ r \in p.due.batch
           \/ p.inbox # None /\ r \in p.inbox.batch
           \/ p.up /\ ~p.recovered /\ r <= p.before
\* Nothing that was due is forgotten, whatever fails or dies: the schedule
\* moves past an occurrence only with a run for it, unless it is edited; a run that
\* waits or runs is in the hands of a page, or of the recovery to come, unless
\* its outcome could not be written; an item that was kept for an automation
\* stays kept until it is claimed.  (Two windows do not see each other's
\* items, and each takes the other's runs for those of a stopped app.)
NothingForgotten ==
    /\ \A a \in Autos \ edited, t \in 1..MaxTime : t < autos[a].next => Passed(a, t)
    /\ ~crowded =>
           /\ \A r \in DOMAIN runs : runs[r].status \notin Over => Held(r) \/ r \in unreported
           /\ \A i \in kept, a \in Autos \ edited : <<a, i>> \in claims \/ Kept(i)
=============================================================================

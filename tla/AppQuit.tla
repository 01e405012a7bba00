------------------------------- MODULE AppQuit -------------------------------
(***************************************************************************)
(* Quitting and reopening the desktop app: the one coordinator in           *)
(* src-tauri/src/window.rs that polls the windows, asks once, waits for      *)
(* every window's save and exits; the pages that answer it                   *)
(* (app/model/appLifecycle.ts, main.tsx); the table of chats in flight and   *)
(* the workspace snapshot they write, which the next start restores and      *)
(* continues from.                                                          *)
(*                                                                          *)
(* Abstractions.  A workspace is the set of chats open in it.  A chat's      *)
(* transcript is saved as its turns begin and end (SessionWrites models how), *)
(* so the store is: which transcripts end with the interruption note, the    *)
(* snapshot and the table.  Closing a window that has work hides it, which   *)
(* changes none of this (on Linux and Windows without the tray it asks and   *)
(* stops its chats: not modelled).  A save of the table made outside a quit  *)
(* succeeds.                                                                 *)
(***************************************************************************)
EXTENDS Desktop, Naturals, Sequences, FiniteSets

CONSTANTS
    AppWindows,   \* labels of workspace windows
    Main,         \* the first window's; the others' are never used again
    Chats,        \* sessions that can be resumed after a quit
    MaxHappenings \* quits asked for, turns begun, windows opened, writes of a
                  \* quit's save that fail and starts of the app, all together

ASSUME QuitAssumption ==
    /\ None \notin AppWindows \cup Chats /\ Main \in AppWindows /\ MaxHappenings \in Nat
    /\ IsFiniteSet(AppWindows) /\ IsFiniteSet(Chats)

VARIABLES
    app,        \* "running" or "exited"
    \* Each window: its webview and its page.
    life,       \* "none", "loading" (no listeners yet), "booting", "open", "closed"
    tabs,       \* the chats it shows
    busy,       \* those with a turn running
    owing,      \* those that end with the interruption note: to be continued
    unsynced,   \* its snapshot is still to be written
    rowKey,     \* the chats in flight it last wrote, None before the first
    rowWrites,  \* its writes of the table, one after the other
    quitting,   \* its page takes no part in saving on unload
    heard,      \* events it has not handled
    saving,     \* its saves for a quit
    dialog,     \* the quit its dialog asks about
    \* The coordinator.
    run,        \* QUIT_RUN
    quits,      \* QUIT_COUNTER
    calls,      \* calls of the pages that it has not handled
    \* The store.
    rows,       \* chats in in_flight_sessions
    shot,       \* chats in the workspace snapshot
    marked,     \* chats whose transcript ends with the interruption note
    \* History, read by the properties only.
    answered,   \* windows that answered the last poll
    after,      \* turns that began after their window had answered it
    polled,     \* the windows the last poll went to
    owed,       \* the windows asked to save for the last quit
    saved,      \* the windows that saved for it
    cut,        \* window -> the turns its save cuts short, as long as they run
    exit,       \* why the app ended, and whether the user said yes to the last quit
    early,      \* windows told to save before they had a workspace
    torn,       \* windows whose chats in flight changed while they saved for a quit
    \* Bounds of the model.
    happenings

quitPages   == <<life, tabs, busy, owing, unsynced, rowKey, rowWrites>>
quitPart    == <<quitting, heard, saving, dialog>>
quitCore    == <<run, quits, calls>>
quitStore   == <<rows, shot, marked>>
quitPast    == <<answered, after, polled, owed, saved, cut, exit, early, torn>>
quitVars    == <<app, quitPages, quitPart, quitCore, quitStore, quitPast, happenings>>

QuitIds == 1..MaxHappenings
\* QuitRun: the quit under way.
QuitRuns == [id : QuitIds, stage : {"polling", "confirming", "committing"}, pending : SUBSET AppWindows,
             replied : SUBSET AppWindows, inFlight : Nat, prompt : AppWindows \cup {None}]
ASSUME QuitRunAssumption == None \notin QuitRuns   \* None: no quit is under way
ASSUME RowsAssumption == \A s \in SUBSET Chats : s # None   \* None: nothing written so far
Happens == happenings < MaxHappenings /\ happenings' = happenings + 1
Event(kind, id) == [kind |-> kind, id |-> id]
Save(id, at, refs, shown) == [id |-> id, at |-> at, refs |-> refs, shown |-> shown]
Call(w, kind, id, value) == [from |-> w, kind |-> kind, id |-> id, value |-> value]
Alive     == {w \in AppWindows : life[w] \notin {"none", "closed"}}
Alone     == \A w \in AppWindows \ {Main} : life[w] = "none"   \* so far
Listening == {w \in AppWindows : life[w] \in {"booting", "open"}}

AppTypeOK ==
    /\ app \in {"running", "exited"}
    /\ life \in [AppWindows -> {"none", "loading", "booting", "open", "closed"}]
    /\ tabs \in [AppWindows -> SUBSET Chats] /\ busy \in [AppWindows -> SUBSET Chats]
    /\ owing \in [AppWindows -> SUBSET Chats]
    /\ \A w \in AppWindows : busy[w] \cup owing[w] \subseteq tabs[w] /\ busy[w] \cap owing[w] = {}
    /\ unsynced \in [AppWindows -> BOOLEAN] /\ quitting \in [AppWindows -> BOOLEAN]
    /\ \A w \in AppWindows :
           /\ rowKey[w] = None \/ rowKey[w] \subseteq Chats
           /\ \A i \in DOMAIN rowWrites[w] : rowWrites[w][i].refs \subseteq Chats
           /\ \A i \in DOMAIN heard[w] : heard[w][i].kind \in {"poll", "confirm", "commit", "aborted"}
           /\ \A s \in saving[w] : s.at \in {"boot", "transcripts", "rows"}
           /\ dialog[w] = None \/ dialog[w] \in QuitIds
    /\ run \in QuitRuns \cup {None}
    /\ run # None =>
          /\ run.stage \in {"polling", "committing"} <=> run.pending # {}
          /\ run.stage = "polling" => run.pending \cap run.replied = {}
    /\ rows \subseteq Chats /\ shot \subseteq Chats /\ marked \subseteq Chats

\* What a process starts with: one window, loading.
Fresh ==
    /\ life' = [x \in AppWindows |-> IF x = Main THEN "loading" ELSE "none"]
    /\ tabs' = [x \in AppWindows |-> {}] /\ busy' = [x \in AppWindows |-> {}]
    /\ owing' = [x \in AppWindows |-> {}] /\ unsynced' = [x \in AppWindows |-> FALSE]
    /\ rowKey' = [x \in AppWindows |-> None] /\ rowWrites' = [x \in AppWindows |-> <<>>]
    /\ quitting' = [x \in AppWindows |-> FALSE] /\ heard' = [x \in AppWindows |-> <<>>]
    /\ saving' = [x \in AppWindows |-> {}] /\ dialog' = [x \in AppWindows |-> None]
    /\ run' = None /\ quits' = 0 /\ calls' = {}
    /\ answered' = {} /\ after' = {} /\ polled' = {} /\ owed' = {} /\ saved' = {}
    /\ cut' = [x \in AppWindows |-> {}] /\ exit' = [why |-> "none", agreed |-> FALSE]
    /\ early' = {} /\ torn' = {}

QuitInit ==
    /\ app = "running"
    /\ life = [x \in AppWindows |-> IF x = Main THEN "open" ELSE "none"]
    /\ tabs = [x \in AppWindows |-> {}] /\ busy = [x \in AppWindows |-> {}]
    /\ owing = [x \in AppWindows |-> {}] /\ unsynced = [x \in AppWindows |-> FALSE]
    /\ rowKey = [x \in AppWindows |-> None] /\ rowWrites = [x \in AppWindows |-> <<>>]
    /\ quitting = [x \in AppWindows |-> FALSE] /\ heard = [x \in AppWindows |-> <<>>]
    /\ saving = [x \in AppWindows |-> {}] /\ dialog = [x \in AppWindows |-> None]
    /\ run = None /\ quits = 0 /\ calls = {}
    /\ rows = {} /\ shot = {} /\ marked = {}
    /\ answered = {} /\ after = {} /\ polled = {} /\ owed = {} /\ saved = {}
    /\ cut = [x \in AppWindows |-> {}]
    /\ exit = [why |-> "none", agreed |-> FALSE] /\ early = {} /\ torn = {}
    /\ happenings = 0

(*************************** Windows and turns *****************************)
\* The write of the table that a change of the chats in flight brings: none
\* for what was written last, none for an idle page that never had any.
ShouldWrite(w, refs) == refs # rowKey[w] /\ (refs = {} => rowKey[w] # None)
InFlight(w, refs) ==
    /\ busy' = [busy EXCEPT ![w] = refs]
    /\ torn' = IF saving[w] = {} THEN torn ELSE torn \cup {w}
    /\ IF ShouldWrite(w, refs)
       THEN /\ rowKey' = [rowKey EXCEPT ![w] = refs]
            /\ rowWrites' = [rowWrites EXCEPT ![w] = Append(@, [refs |-> refs, id |-> 0])]
       ELSE UNCHANGED <<rowKey, rowWrites>>

\* A turn begins, in a chat the window shows or in a new one.  A chat left
\* with the interruption note is continued as soon as the page is up.
Begin(w, c) ==
    /\ app = "running" /\ life[w] = "open" /\ c \notin busy[w]
    /\ c \in tabs[w] \/ \A x \in AppWindows : c \notin tabs[x]
    /\ tabs' = [tabs EXCEPT ![w] = @ \cup {c}]
    /\ unsynced' = [unsynced EXCEPT ![w] = @ \/ c \notin tabs[w]]
    /\ owing' = [owing EXCEPT ![w] = @ \ {c}]
    /\ InFlight(w, busy[w] \cup {c})
    /\ marked' = marked \ {c}
    /\ after' = IF w \in answered THEN after \cup {<<w, c>>} ELSE after
    /\ Happens
    /\ UNCHANGED <<app, life, quitPart, quitCore, rows, shot, answered, polled, owed, saved, cut, exit, early>>
End(w, c) ==
    /\ app = "running" /\ c \in busy[w]
    /\ InFlight(w, busy[w] \ {c})
    /\ marked' = marked \ {c}
    /\ cut' = [cut EXCEPT ![w] = @ \ {c}] /\ after' = after \ {<<w, c>>}
    /\ UNCHANGED <<app, life, tabs, owing, unsynced, quitPart, quitCore, rows, shot, answered, polled,
                   owed, saved, exit, early, happenings>>

\* The debounced save of the snapshot.
SyncSnapshot(w) ==
    /\ app = "running" /\ life[w] = "open" /\ unsynced[w]
    /\ shot' = tabs[w] /\ unsynced' = [unsynced EXCEPT ![w] = FALSE]
    /\ UNCHANGED <<app, life, tabs, busy, owing, rowKey, rowWrites, quitPart, quitCore, rows, marked,
                   quitPast, happenings>>

OpenWindow(w) ==
    /\ app = "running" /\ w # Main /\ life[w] = "none"
    /\ life' = [life EXCEPT ![w] = "loading"]
    /\ Happens
    /\ UNCHANGED <<app, tabs, busy, owing, unsynced, rowKey, rowWrites, quitPart, quitCore, quitStore,
                   answered, after, polled, owed, saved, cut, exit, early, torn>>
Loaded(w) ==
    /\ app = "running" /\ life[w] = "loading"
    /\ life' = [life EXCEPT ![w] = "booting"]
    /\ UNCHANGED <<app, tabs, busy, owing, unsynced, rowKey, rowWrites, quitPart, quitCore, quitStore,
                   quitPast, happenings>>

\* A save done for the quit under way.
SavedFor(w, saves) == {w : s \in {t \in saves : run # None /\ run.id = t.id}}

\* loadResumedWorkspaceOnce: the chats of the snapshot and of the table; those
\* of the table get the interruption note.  A commit that came earlier goes on.
Resumed == shot \cup rows
Boots(w) ==
    /\ app = "running" /\ life[w] = "booting"
    /\ life' = [life EXCEPT ![w] = "open"]
    /\ tabs' = [tabs EXCEPT ![w] = Resumed]
    /\ owing' = [owing EXCEPT ![w] = Resumed \cap (rows \cup marked)]
    /\ unsynced' = [unsynced EXCEPT ![w] = TRUE]
    /\ marked' = marked \cup rows
    /\ quitting' = [quitting EXCEPT ![w] = saving[w] # {}]
    /\ IF Resumed = {}
       THEN /\ calls' = calls \cup {Call(w, "ready", s.id, TRUE) : s \in saving[w]}
            /\ saving' = [saving EXCEPT ![w] = {}]
       ELSE /\ saving' = [saving EXCEPT ![w] =
                   {Save(s.id, "transcripts", Resumed \cap (rows \cup marked), Resumed) : s \in @}]
            /\ UNCHANGED calls
    /\ saved' = IF Resumed = {} THEN saved \cup SavedFor(w, saving[w]) ELSE saved
    /\ UNCHANGED <<app, busy, rowKey, rowWrites, heard, dialog, run, quits, rows, shot, answered, after,
                   polled, owed, cut, exit, early, torn, happenings>>

(*************************** The coordinator *******************************)
Run(id, windows) ==
    [id |-> id, stage |-> "polling", pending |-> windows, replied |-> {}, inFlight |-> 0, prompt |-> None]
\* emit: to every page that listens; a page that is still loading misses it.
Emitted(queue, windows, e) ==
    [w \in AppWindows |-> IF w \in windows \cap Listening THEN Append(queue[w], e) ELSE queue[w]]

\* confirm_quit.
Exits(why, agreed) ==
    /\ app' = "exited" /\ run' = None
    /\ exit' = [why |-> why, agreed |-> agreed]
ExitsEmpty(queue) ==
    /\ Exits("empty", FALSE) /\ heard' = queue /\ UNCHANGED owed

\* start_commit, for the windows there are now.
StartCommit(r, windows, queue, agreed) ==
    IF windows = {}
    THEN Exits("empty", agreed) /\ heard' = queue /\ UNCHANGED owed
    ELSE /\ run' = [r EXCEPT !.stage = "committing", !.pending = windows]
         /\ heard' = Emitted(queue, windows, Event("commit", r.id))
         /\ owed' = windows
         /\ exit' = [exit EXCEPT !.agreed = agreed]
         /\ UNCHANGED app

Silent_Idle(r) == 0
\* close_poll: a window that never answered counts as busy.
Silent(r) == Cardinality(r.pending)
StartConfirm(r, windows, queue) ==
    LET closed == [r EXCEPT !.stage = "confirming", !.pending = {}, !.inFlight = @ + Silent(r)]
    IN IF closed.inFlight = 0
       THEN StartCommit(closed, windows, queue, FALSE)
       ELSE run' = closed /\ heard' = queue /\ UNCHANGED <<app, owed, exit>>

\* request_quit.  While a run is under way it only shows the dialog again.
RequestQuit ==
    /\ app = "running" /\ run = None /\ Happens
    /\ quits' = quits + 1
    /\ IF Alive = {}
       THEN ExitsEmpty(heard)
       ELSE /\ run' = Run(quits + 1, Alive)
            /\ heard' = Emitted(heard, Alive, Event("poll", quits + 1))
            /\ exit' = [exit EXCEPT !.agreed = FALSE]
            /\ UNCHANGED <<app, owed>>
    /\ polled' = Alive /\ answered' = {} /\ after' = {} /\ saved' = {}
    /\ cut' = [w \in AppWindows |-> {}]
    /\ UNCHANGED <<quitPages, quitting, saving, dialog, calls, quitStore, early, torn>>

\* The rest of start_confirm, for work in flight: one window, among those that
\* answered the poll if any is left, gets the dialog.  The poll's limit runs on
\* a thread of its own, so a window may close between the two.
Prompt ==
    /\ app = "running" /\ run # None /\ run.stage = "confirming" /\ run.prompt = None
    /\ IF Alive = {}
       THEN ExitsEmpty(heard)
       ELSE \E w \in IF Alive \cap run.replied = {} THEN Alive ELSE Alive \cap run.replied :
                /\ run' = [run EXCEPT !.prompt = w]
                /\ heard' = Emitted(heard, {w}, Event("confirm", run.id))
                /\ UNCHANGED <<app, owed, exit>>
    /\ UNCHANGED <<quitPages, quitting, saving, dialog, quits, calls, quitStore, answered, after, polled,
                   saved, cut, early, torn, happenings>>

Watched_NoDialog == {"polling", "committing"}
\* watch_stage: the limit set for a stage passes while the run is still in it
\* (a thread that wakes up later finds another run or stage and does nothing).
Watched == {"polling", "confirming", "committing"}
TimesOut ==
    /\ app = "running" /\ run # None /\ run.stage \in Watched
    /\ CASE run.stage = "polling" -> StartConfirm(run, Alive, heard)
         [] run.stage = "confirming" -> run.prompt # None /\ run' = None /\ UNCHANGED <<app, heard, owed, exit>>
         [] OTHER -> Exits("timeout", exit.agreed) /\ UNCHANGED <<heard, owed>>
    /\ UNCHANGED <<quitPages, quitting, saving, dialog, quits, calls, quitStore, answered, after, polled,
                   saved, cut, early, torn, happenings>>

\* The calls of the pages.
Names(r, id, stage) == r # None /\ r.id = id /\ r.stage = stage
Ready(r, w) == r.pending \ {w}
\* record_reply.
Answered(r, c) ==
    [r EXCEPT !.pending = @ \ {c.from}, !.replied = @ \cup {c.from}, !.inFlight = @ + c.value]
Replied(c) ==
    IF ~Names(run, c.id, "polling") THEN UNCHANGED <<app, run, heard, owed, exit>>
    ELSE LET r == Answered(run, c)
         IN IF r.pending = {} THEN StartConfirm(r, Alive, heard)
            ELSE run' = r /\ UNCHANGED <<app, heard, owed, exit>>
Decided(c) ==
    IF ~(Names(run, c.id, "confirming") /\ run.prompt = c.from)
    THEN UNCHANGED <<app, run, heard, owed, exit>>
    ELSE IF c.value THEN StartCommit(run, Alive, heard, TRUE)
    ELSE run' = None /\ UNCHANGED <<app, heard, owed, exit>>
SavedReply(c) ==
    IF ~Names(run, c.id, "committing") THEN UNCHANGED <<app, run, heard, owed, exit>>
    ELSE IF Ready(run, c.from) = {}
    THEN Exits("ready", exit.agreed) /\ UNCHANGED <<heard, owed>>
    ELSE run' = [run EXCEPT !.pending = Ready(run, c.from)] /\ UNCHANGED <<app, heard, owed, exit>>
NotSaved_Quietly(c) ==
    /\ run' = IF run # None /\ run.id = c.id THEN None ELSE run
    /\ UNCHANGED <<app, heard, owed, exit>>
NotSaved(c) ==
    /\ run' = IF run # None /\ run.id = c.id THEN None ELSE run
    /\ heard' = Emitted(heard, Alive, Event("aborted", c.id))
    /\ UNCHANGED <<app, owed, exit>>
HandleCall(c) ==
    /\ app = "running" /\ c \in calls
    /\ calls' = calls \ {c}
    /\ CASE c.kind = "reply" -> Replied(c)
         [] c.kind = "decision" -> Decided(c)
         [] c.kind = "ready" /\ c.value -> SavedReply(c)
         [] OTHER -> NotSaved(c)
    /\ UNCHANGED <<quitPages, quitting, saving, dialog, quits, quitStore, answered, after, polled, saved, cut,
                   early, torn, happenings>>

\* An idle window closes (a page that is up saves its workspace first), and
\* the coordinator forgets it.
Close(w) ==
    /\ app = "running" /\ w \in Alive /\ busy[w] = {} /\ rowWrites[w] = <<>>
    /\ shot' = IF life[w] = "open" THEN tabs[w] ELSE shot
    /\ life' = [life EXCEPT ![w] = "closed"]
    /\ tabs' = [tabs EXCEPT ![w] = {}] /\ owing' = [owing EXCEPT ![w] = {}]
    /\ unsynced' = [unsynced EXCEPT ![w] = FALSE] /\ rowKey' = [rowKey EXCEPT ![w] = None]
    /\ quitting' = [quitting EXCEPT ![w] = FALSE] /\ saving' = [saving EXCEPT ![w] = {}]
    /\ dialog' = [dialog EXCEPT ![w] = None] /\ calls' = {c \in calls : c.from # w}
    /\ LET queue == [heard EXCEPT ![w] = <<>>]
           rest  == Alive \ {w}
           r     == [run EXCEPT !.pending = @ \ {w}]
       IN IF run = None \/ (run.stage = "confirming" /\ run.prompt # w)
          THEN heard' = queue /\ UNCHANGED <<app, run, owed, exit>>
          ELSE CASE run.stage = "confirming" -> run' = None /\ heard' = queue /\ UNCHANGED <<app, owed, exit>>
                 [] run.stage # "confirming" /\ r.pending # {} ->
                        run' = r /\ heard' = queue /\ UNCHANGED <<app, owed, exit>>
                 [] run.stage = "polling" /\ r.pending = {} -> StartConfirm(r, rest, queue)
                 [] OTHER -> Exits("ready", exit.agreed) /\ heard' = queue /\ UNCHANGED owed
    /\ UNCHANGED <<busy, rowWrites, quits, rows, marked, answered, after, polled, saved, cut, early, torn,
                   happenings>>

(*************************** The pages *************************************)
QuitRefs_None(w) == {}
\* inFlightRefs: what a save for a quit marks and writes.
QuitRefs(w) == busy[w]

\* main.tsx: the first event the page has not handled.
Hears(w, e) == app = "running" /\ w \in Listening /\ heard[w] # <<>> /\ Head(heard[w]) = e
               /\ heard' = [heard EXCEPT ![w] = Tail(@)]
Poll(w, id) ==
    /\ Hears(w, Event("poll", id))
    /\ calls' = calls \cup {Call(w, "reply", id, Cardinality(busy[w]))}
    /\ answered' = IF run # None /\ run.id = id THEN answered \cup {w} ELSE answered
    /\ UNCHANGED <<app, quitPages, quitting, saving, dialog, run, quits, quitStore, after, polled,
                   owed, saved, cut, exit, early, torn, happenings>>
\* A page whose dialog is open answers no for the new one.
Confirm(w, id) ==
    /\ Hears(w, Event("confirm", id))
    /\ IF dialog[w] = None THEN dialog' = [dialog EXCEPT ![w] = id] /\ UNCHANGED calls
       ELSE calls' = calls \cup {Call(w, "decision", id, FALSE)} /\ UNCHANGED dialog
    /\ UNCHANGED <<app, quitPages, quitting, saving, run, quits, quitStore, quitPast, happenings>>
Decide(w) ==
    /\ app = "running" /\ dialog[w] # None
    /\ \E yes \in BOOLEAN : calls' = calls \cup {Call(w, "decision", dialog[w], yes)}
    /\ dialog' = [dialog EXCEPT ![w] = None]
    /\ UNCHANGED <<app, quitPages, quitting, heard, saving, run, quits, quitStore, quitPast, happenings>>
\* commitQuit: a page without a workspace waits for its boot first.
Commit(w, id) ==
    /\ Hears(w, Event("commit", id))
    /\ IF life[w] = "open"
       THEN /\ quitting' = [quitting EXCEPT ![w] = TRUE]
            /\ saving' = [saving EXCEPT ![w] = @ \cup {Save(id, "transcripts", QuitRefs(w), tabs[w])}]
            /\ UNCHANGED early
       ELSE /\ saving' = [saving EXCEPT ![w] = @ \cup {Save(id, "boot", {}, {})}]
            /\ early' = early \cup {w}
            /\ UNCHANGED quitting
    /\ cut' = [cut EXCEPT ![w] = busy[w]]
    /\ UNCHANGED <<app, quitPages, dialog, quitCore, quitStore, answered, after, polled, owed, saved, exit, torn, happenings>>
Aborted(w, id) ==
    /\ Hears(w, Event("aborted", id))
    /\ quitting' = [quitting EXCEPT ![w] = FALSE]
    /\ UNCHANGED <<app, quitPages, saving, dialog, quitCore, quitStore, quitPast, happenings>>

\* persistQuitState: the transcripts, with the interruption note for the chats
\* in flight, then the snapshot, then the table, behind its earlier writes.
SaveWorkspace(w, s) ==
    /\ app = "running" /\ s \in saving[w] /\ s.at = "transcripts"
    /\ marked' = marked \cup s.refs
    /\ shot' = s.shown
    /\ rowWrites' = [rowWrites EXCEPT ![w] = Append(@, [refs |-> s.refs, id |-> s.id])]
    /\ saving' = [saving EXCEPT ![w] = (@ \ {s}) \cup {[s EXCEPT !.at = "rows"]}]
    /\ UNCHANGED <<app, life, tabs, busy, owing, unsynced, rowKey, quitting, heard, dialog, quitCore, rows,
                   quitPast, happenings>>

\* A write of a save fails, after the ones before it: the page stays, and says
\* so.  (A page that saves what it was still restoring ignores failures.)
SaveFails(w, s) ==
    /\ app = "running" /\ s \in saving[w] /\ w \notin early
    /\ \/ /\ s.at = "transcripts"
          /\ \E refs \in SUBSET s.refs : marked' = marked \cup refs
          /\ UNCHANGED rowWrites
       \/ /\ s.at = "rows" /\ Head(rowWrites[w]).id = s.id
          /\ rowWrites' = [rowWrites EXCEPT ![w] = Tail(@)]
          /\ UNCHANGED marked
    /\ saving' = [saving EXCEPT ![w] = @ \ {s}]
    /\ quitting' = [quitting EXCEPT ![w] = FALSE]
    /\ calls' = calls \cup {Call(w, "ready", s.id, FALSE)}
    /\ Happens
    /\ UNCHANGED <<app, life, tabs, busy, owing, unsynced, rowKey, heard, dialog, run, quits, rows, shot,
                   quitPast>>

\* The writes of one page's table land in the order they were made.
NextWrite(w) == {i \in DOMAIN rowWrites[w] : i = 1}
WriteRows(w, i) ==
    /\ app = "running" /\ i \in NextWrite(w)
    /\ LET write == rowWrites[w][i]
           done  == {s \in saving[w] : s.at = "rows" /\ s.id = write.id}
       IN /\ rows' = write.refs
          /\ rowWrites' = [rowWrites EXCEPT ![w] =
                 [k \in 1..(Len(@) - 1) |-> IF k < i THEN @[k] ELSE @[k + 1]]]
          /\ saving' = [saving EXCEPT ![w] = @ \ done]
          /\ calls' = calls \cup {Call(w, "ready", s.id, TRUE) : s \in done}
          /\ saved' = saved \cup SavedFor(w, done)
    /\ UNCHANGED <<app, life, tabs, busy, owing, unsynced, rowKey, quitting, heard, dialog, run, quits,
                   shot, marked, answered, after, polled, owed, cut, exit, early, torn, happenings>>

\* The process starts again, after it exited or because it died.
Start ==
    /\ Happens
    /\ app' = "running" /\ Fresh
    /\ UNCHANGED quitStore

QuitNext ==
    \/ RequestQuit \/ Prompt \/ TimesOut \/ Start
    \/ \E c \in calls : HandleCall(c)
    \/ \E w \in AppWindows :
           \/ OpenWindow(w) \/ Loaded(w) \/ Boots(w) \/ Close(w) \/ SyncSnapshot(w) \/ Decide(w)
           \/ \E c \in Chats : Begin(w, c) \/ End(w, c)
           \/ \E id \in QuitIds : Poll(w, id) \/ Confirm(w, id) \/ Commit(w, id) \/ Aborted(w, id)
           \/ \E s \in saving[w] : SaveWorkspace(w, s) \/ SaveFails(w, s)
           \/ \E i \in DOMAIN rowWrites[w] : WriteRows(w, i)

QuitSpec == QuitInit /\ [][QuitNext]_quitVars
\* The threads that watch the stages wake up, and start_confirm goes on.
QuitFairSpec == QuitSpec /\ WF_quitVars(Prompt \/ TimesOut)
-----------------------------------------------------------------------------
\* Nobody's work is killed unasked: when the app exits without a yes, a turn
\* still running began after its window had answered that quit's poll, or in a
\* window opened after it (the coordinator's one decision for all windows).
ExitIsAgreed ==
    app = "exited" /\ ~exit.agreed =>
        \A w \in polled : {w} \X busy[w] \subseteq after

\* An exit that waited for the saves waited for all of them: every window that
\* was asked to save and is still there has saved for this quit (quit_ready).
ExitIsSaved ==
    app = "exited" /\ exit.why = "ready" => owed \cap Alive \subseteq saved

\* A chat cut short by a quit comes back: with one window, what was in flight
\* when it saved and is still running at the exit is restored and continued by
\* the next start (markTurnInterrupted, the snapshot and the table).
KeptForReopening ==
    app = "exited" /\ exit.why = "ready" /\ Alone =>
        \A w \in Alive \ early : busy[w] \cap cut[w] \subseteq rows \cup (shot \cap marked)

\* A page that stays goes back to saving on unload: once no quit is under way
\* it has left quitting or has yet to hear that the quit was called off
\* (abortQuit), unless it was told to save while it booted.
StaysMeansPersisting ==
    \A w \in AppWindows :
        app = "running" /\ run = None /\ quitting[w] /\ w \notin early
        => \E i \in DOMAIN heard[w] : heard[w][i].kind = "aborted"

\* A crash finds the table true: when the writes of the only window have
\* landed, the table lists exactly its chats in flight (the in-flight queue),
\* unless these changed while a save for a quit that has not ended the app ran.
TableFollows ==
    \A w \in AppWindows :
        app = "running" /\ Alone /\ w \notin torn /\ rowWrites[w] = <<>> /\ rowKey[w] # None
        => rows = busy[w]

\* The coordinator and the pages agree about the quit under way
\* (window.rs:255-620, appLifecycle.ts:104-190).
QuitConsistent == AppTypeOK /\ StaysMeansPersisting

\* The app exits with the user's consent and with everybody's work saved.
ExitIsSafe == ExitIsAgreed /\ ExitIsSaved

\* What the app leaves behind, by a quit or by a crash, names the chats the next
\* start must continue (inFlight.ts:49-158).
ReopensWhatWasCut == KeptForReopening /\ TableFollows

\* Quit never hangs: every quit ends, called off or with the app, whatever
\* page is wedged or lost (watch_stage: nothing waits forever).  A quit begins
\* only after the one before it ended.
QuitSettles == (run # None) ~> (run = None)

\* A chat is marked as interrupted, and continued, because its turn was cut
\* short (sealInFlightTurn): none that another window is running.
OnlyCutTurnsContinue ==
    \A v, w \in AppWindows : v # w => owing[v] \cap busy[w] = {}
=============================================================================

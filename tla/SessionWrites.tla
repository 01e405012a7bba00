--------------------------- MODULE SessionWrites ---------------------------
(***************************************************************************)
(* How a window of the desktop app keeps its conversations in the SQLite     *)
(* store: features/sessions/data/sessionStore.ts (a queue of writes per      *)
(* conversation, tombstones of deleted ones), the persist effect, closing,   *)
(* reopening and prefetching in app/App.tsx, and the removal of              *)
(* features/sessions/model/sessionRemoval.ts.  Lead is a conversation that   *)
(* orchestrates; all others start as its workers and carry its id in their   *)
(* transcripts.                                                              *)
(*                                                                          *)
(* Abstractions.  A transcript is the set of the edits it holds and whether  *)
(* it names the lead; an empty one has no user block and is not stored.      *)
(* Prompts, output, titles and folders are edits.  Whether a chat has a tab  *)
(* is a choice of each step.  One window; archiving, pinning and linking are *)
(* left out, as is the repair of Claude rows while loading, and the move of  *)
(* a chat to another working copy (onWorktreeChange), which sends its pending *)
(* copy away and has saves skip it until the move is over (switchingWorktrees).*)
(***************************************************************************)
EXTENDS Desktop, Naturals, SequencesExt

CONSTANTS
    Sessions,      \* conversations
    Lead,          \* the one the others work for
    MaxEdits,      \* edits made, over all conversations
    MaxHappenings  \* edits, turns, drafts removed, conversations closed or saved
                   \* at once, times the window is hidden, removals and refused
                   \* writes, together

ASSUME WritesAssumption ==
    /\ Lead \in Sessions
    /\ {MaxEdits, MaxHappenings} \subseteq Nat

VARIABLES
    \* The store.
    stored,     \* conversation -> its row
    \* sessionStore.ts.
    queue,      \* conversation -> writes not yet answered, the oldest first
    running,    \* conversation -> what its oldest write was invoked with
    leadById,   \* sessionWriteLeadById: conversations queued with a lead
    tombs,      \* deletedSessionIds
    \* App.tsx.
    open,       \* conversation -> its transcript, of the mounted ones
    busy,       \* conversations in a turn
    observed,   \* conversation -> the transcript the effect last looked at
    pending,    \* conversation -> the transcript waiting for the 650 ms timer
    last,       \* conversation -> the transcript last saved
    cache,      \* conversation -> its transcript, of the closed ones
    loading,    \* conversation -> a session_get in progress
    removing,   \* conversation -> how far its removal is
    \* History, read by the properties only.
    gone,       \* conversations whose deletion the store carried out
    dropped,    \* conversations whose unsaved edit a removal threw away
    withdrawn,  \* conversation -> edits of its removed drafts
    early,      \* conversations loaded before their last write was stored
    outdated,   \* conversations whose row was last saved from an old copy
    \* Bounds of the model.
    edits, happenings

storeVars  == <<stored, gone>>
queueVars  == <<queue, running, leadById, tombs>>
appVars    == <<open, busy, observed, pending, last>>
closedVars == <<cache, loading>>
budget     == <<edits, happenings>>
pastVars   == <<dropped, withdrawn, early, outdated>>
writesVars == <<storeVars, queueVars, appVars, closedVars, removing, pastVars, budget>>

Transcript == [text : SUBSET (0..MaxEdits), led : BOOLEAN]
\* A write tells its result to the one who asked, or not; old (history): when
\* it was asked for, more was mounted than it holds.
Write == [op : {"save", "delete"}, doc : Transcript \cup {None}, tells : BOOLEAN, old : BOOLEAN]
Run   == [op : {"save", "delete"}, doc : Transcript \cup {None}, tells : BOOLEAN, old : BOOLEAN,
          sent : Transcript \cup {None}]
Load  == [opens : BOOLEAN, read : BOOLEAN, doc : Transcript \cup {None}]

\* A removal first asks and stops the turn, then waits for as many writes of
\* each conversation as were queued, then for its delete.
Removal == [at : {"asked", "draining", "deleting", "deleted"}, waits : [Sessions -> Nat]]

ASSUME WriteRecordsAssumption == None \notin Transcript \cup Run \cup Load \cup Removal

WritesTypeOK ==
    /\ stored \in [Sessions -> Transcript \cup {None}]
    /\ \A s \in Sessions : stored[s] # None => stored[s].text # {}
    /\ queue \in [Sessions -> Seq(Write)] /\ running \in [Sessions -> Run \cup {None}]
    /\ leadById \subseteq Sessions /\ tombs \subseteq Sessions
    /\ \A m \in {open, observed, pending, last, cache} : m \in [Sessions -> Transcript \cup {None}]
    /\ loading \in [Sessions -> Load \cup {None}] /\ removing \in [Sessions -> Removal \cup {None}]
    /\ \A m \in {busy, gone, dropped, early, outdated} : m \subseteq Sessions
    /\ withdrawn \in [Sessions -> SUBSET (0..MaxEdits)]

WritesInit ==
    /\ stored = [s \in Sessions |-> [text |-> {0}, led |-> s # Lead]]
    /\ open = stored /\ observed = stored /\ last = stored
    /\ queue = [s \in Sessions |-> <<>>] /\ running = [s \in Sessions |-> None]
    /\ leadById = {} /\ tombs = {}
    /\ pending = [s \in Sessions |-> None] /\ cache = pending /\ loading = pending /\ removing = pending
    /\ busy = {} /\ gone = {}
    /\ dropped = {} /\ withdrawn = [s \in Sessions |-> {}] /\ early = {} /\ outdated = {}
    /\ edits = 0 /\ happenings = 0

Happens == happenings < MaxHappenings /\ happenings' = happenings + 1

-----------------------------------------------------------------------------
(* sessionStore.ts: the queue of one conversation.                           *)

\* shouldPersistSession: there is a user block.
ShouldPersist(doc) == doc # None /\ doc.text # {}

\* upsertSession of every conversation of docs, up to the queue.
Upsert(docs, tells) ==
    LET kept == {s \in Sessions : ShouldPersist(docs[s]) /\ s \notin tombs}
    IN /\ queue' = [s \in Sessions |-> IF s \in kept
                      THEN Append(queue[s], [op |-> "save", doc |-> docs[s], tells |-> tells,
                                             old |-> ~(open[s].text \subseteq docs[s].text)])
                      ELSE queue[s]]
       /\ leadById' = {s \in leadById : s \notin kept} \cup {s \in kept : docs[s].led}
       /\ UNCHANGED <<running, tombs>>

Only(s, doc) == [x \in Sessions |-> IF x = s THEN doc ELSE None]

\* The transcript a save is invoked with: a deleted lead is no longer named.
Stripped(doc) == [doc EXCEPT !.led = @ /\ Lead \notin tombs]

\* A write is invoked once all the earlier ones of its conversation settled.
Turn_Any(s) == IF running[s] = None THEN DOMAIN queue[s] ELSE {}
Turn(s) == IF running[s] = None /\ queue[s] # <<>> THEN {1} ELSE {}

\* One write of s is answered; the removals that wait for it count it.
Settled(s, left) ==
    /\ queue' = [queue EXCEPT ![s] = left] /\ running' = [running EXCEPT ![s] = None]
    /\ leadById' = IF left = <<>> THEN leadById \ {s} ELSE leadById
Counted(s) == [x \in Sessions |-> IF removing[x] = None THEN None
                 ELSE [at |-> removing[x].at, waits |-> [removing[x].waits EXCEPT ![s] = IF @ = 0 THEN 0 ELSE @ - 1]]]

Invoke(s) ==
    /\ \E i \in Turn(s) :
         LET w == queue[s][i]
             left == RemoveAt(queue[s], i)
         IN IF w.op = "save" /\ s \in tombs
              THEN Settled(s, left) /\ removing' = Counted(s)
              ELSE /\ queue' = [queue EXCEPT ![s] = left]
                   /\ running' = [running EXCEPT ![s] = [op |-> w.op, doc |-> w.doc, tells |-> w.tells, old |-> w.old,
                                                         sent |-> IF w.doc = None THEN None ELSE Stripped(w.doc)]]
                   /\ UNCHANGED <<leadById, removing>>
    /\ UNCHANGED <<storeVars, tombs, appVars, closedVars, pastVars, budget>>

\* session_upsert lands and its answer is taken.
SaveLands(s) ==
    /\ running[s] # None /\ running[s].op = "save"
    /\ stored' = [stored EXCEPT ![s] = running[s].sent]
    /\ last' = IF running[s].tells THEN [last EXCEPT ![s] = running[s].doc] ELSE last
    /\ outdated' = IF running[s].old THEN outdated \cup {s} ELSE outdated \ {s}
    /\ Settled(s, queue[s]) /\ removing' = Counted(s)
    /\ UNCHANGED <<gone, tombs, open, busy, observed, pending, closedVars, dropped, withdrawn, early, budget>>

\* session_delete: the row goes, and the workers of a lead no longer name it.
Released(docs, s) ==
    [x \in Sessions |-> IF s = Lead /\ docs[x] # None THEN [docs[x] EXCEPT !.led = FALSE] ELSE docs[x]]

DeleteLands(s) ==
    /\ running[s] # None /\ running[s].op = "delete"
    /\ stored' = [Released(stored, s) EXCEPT ![s] = None] /\ outdated' = outdated \ {s}
    /\ Settled(s, queue[s])
    /\ IF running[s].tells
         THEN gone' = gone \cup {s} /\ removing' = [Counted(s) EXCEPT ![s].at = "deleted"]
         ELSE gone' = gone /\ removing' = Counted(s)
    /\ UNCHANGED <<tombs, appVars, closedVars, dropped, withdrawn, early, budget>>

\* The store refuses a write: a save is forgotten, a removal fails.
WriteFails(s) ==
    /\ running[s] # None /\ Happens
    /\ Settled(s, queue[s]) /\ dropped' = dropped \cup {s}
    /\ IF running[s].op = "delete" /\ running[s].tells
         THEN removing' = [Counted(s) EXCEPT ![s] = None] /\ tombs' = tombs \ {s}
         ELSE removing' = Counted(s) /\ tombs' = tombs
    /\ UNCHANGED <<storeVars, appVars, closedVars, withdrawn, early, outdated, edits>>

-----------------------------------------------------------------------------
(* App.tsx: the persist effect, which runs after every change of the         *)
(* mounted conversations, and the saves it makes.                            *)

\* Mounted conversations become now; waiting is what pending was before, and
\* of turned the turn began or ended.  What changed waits for the timer, unless
\* it is the output of a turn that has a tab and a row: that waits for a new
\* prompt or a new provider thread (fresh), or for the end of the turn.
Effect(now, waiting, turned, fresh) ==
    LET seen == {s \in Sessions : now[s] # None /\ removing'[s] = None /\ (s \in turned \/ observed[s] # now[s])}
        due(tabless) == {s \in seen : ShouldPersist(now[s])
                           /\ (s \notin busy' \/ s \in tabless \/ s \in fresh \/ last[s] = None)}
    IN /\ open' = now
       /\ observed' = [s \in Sessions |-> IF s \in seen THEN now[s]
                         ELSE IF now[s] = None \/ s \in turned THEN None ELSE observed[s]]
       /\ \E tabless \in SUBSET (busy' \cap seen) :
            pending' = [s \in Sessions |-> IF now[s] = None THEN None
                          ELSE IF s \in due(tabless) THEN now[s] ELSE waiting[s]]

\* persistSession of docs: not while removed, not if nothing changed.
Persist_SinceSeen(docs) ==
    Upsert([s \in Sessions |-> IF removing[s] = None /\ docs[s] # observed[s] THEN docs[s] ELSE None], TRUE)
Persist(docs) ==
    Upsert([s \in Sessions |-> IF removing[s] = None /\ docs[s] # last[s] THEN docs[s] ELSE None], TRUE)

\* A conversation changes.  With a new prompt or a new provider thread it is
\* saved at once as well.
Change(s, now, turned) ==
    /\ removing' = removing
    /\ \E fresh \in SUBSET {s} :
         /\ Effect(now, pending, turned, fresh)
         /\ IF fresh = {} THEN UNCHANGED queueVars ELSE Persist(Only(s, now[s]))

Edit(s) ==
    /\ open[s] # None /\ edits < MaxEdits /\ edits' = edits + 1 /\ Happens
    /\ busy' = busy /\ Change(s, [open EXCEPT ![s].text = @ \cup {edits + 1}], {})
    /\ UNCHANGED <<storeVars, last, closedVars, pastVars>>

\* A turn or a compaction begins, and ends.  The one of a conversation being
\* removed only ends, and the effect does not look at it then.
Begin(s) ==
    /\ ShouldPersist(open[s]) /\ s \notin busy /\ removing[s] = None /\ Happens
    /\ busy' = busy \cup {s} /\ Change(s, open, {s})
    /\ UNCHANGED <<storeVars, last, closedVars, pastVars, edits>>

End(s) ==
    /\ s \in busy /\ open[s] # None
    /\ busy' = busy \ {s} /\ Change(s, open, {s})
    /\ UNCHANGED <<storeVars, last, closedVars, pastVars, budget>>

\* Closing its tab, renaming it and side threads save what is mounted at once.
PersistNow(s) ==
    /\ open[s] # None /\ open[s] # last[s] /\ removing[s] = None /\ Happens
    /\ Persist(Only(s, open[s]))
    /\ UNCHANGED <<storeVars, appVars, closedVars, removing, pastVars, edits>>

\* The timer: what is pending is saved, but for conversations being removed.
Flush ==
    /\ \E s \in Sessions : pending[s] # None
    /\ pending' = [s \in Sessions |-> None]
    /\ Persist(pending)
    /\ dropped' = dropped \cup {s \in Sessions : pending[s] # None /\ removing[s] # None}
    /\ UNCHANGED <<storeVars, open, busy, observed, last, closedVars, removing, withdrawn, early, outdated, budget>>

\* persistLiveTranscripts: the window is hidden; nothing is looked at first.
Hide ==
    /\ Happens
    /\ Upsert(open, FALSE)
    /\ UNCHANGED <<storeVars, appVars, closedVars, removing, pastVars, edits>>

\* The only draft of a conversation is removed: it is a blank one again, and
\* its row is deleted without a tombstone.  A lead holds more than a draft.
Discard(s) ==
    /\ s # Lead /\ s \notin busy /\ open[s] # None /\ Cardinality(open[s].text) = 1 /\ Happens
    /\ removing' = removing /\ busy' = busy
    /\ Effect([open EXCEPT ![s].text = {}], [pending EXCEPT ![s] = None], {}, {})
    /\ withdrawn' = [withdrawn EXCEPT ![s] = @ \cup open[s].text]
    /\ last' = [last EXCEPT ![s] = None] /\ loading' = [loading EXCEPT ![s] = None]
    /\ cache' = [cache EXCEPT ![s] = None]
    /\ queue' = [queue EXCEPT ![s] = Append(@, [op |-> "delete", doc |-> None, tells |-> FALSE, old |-> FALSE])]
    /\ UNCHANGED <<storeVars, running, leadById, tombs, dropped, early, outdated, edits>>

-----------------------------------------------------------------------------
(* Closing, reopening and prefetching.                                       *)

\* Its tab was closed and it is idle: it is cached, saved and unmounted.  One
\* that is too large, or closed with many others, does not stay in the cache.
Close(s) ==
    /\ open[s] # None /\ s \notin busy /\ Happens
    /\ \E kept \in BOOLEAN :
         cache' = IF kept /\ ShouldPersist(open[s]) THEN [cache EXCEPT ![s] = open[s]] ELSE cache
    /\ Persist(Only(s, open[s]))
    /\ dropped' = IF removing[s] # None THEN dropped \cup {s} ELSE dropped
    /\ removing' = removing /\ busy' = busy
    /\ Effect([open EXCEPT ![s] = None], pending, {}, {})
    /\ UNCHANGED <<storeVars, last, loading, withdrawn, early, outdated, edits>>

Unstored(s) == queue[s] # <<>> \/ running[s] # None

\* ensureOpenSession: from the cache, or from the store.
Reopen(s) ==
    /\ open[s] = None /\ s \notin gone
    /\ removing' = removing /\ busy' = busy
    /\ IF cache[s] # None
         THEN /\ cache' = [cache EXCEPT ![s] = None] /\ loading' = loading
              /\ IF removing[s] = None
                   THEN /\ Effect([open EXCEPT ![s] = cache[s]], pending, {}, {})
                        /\ last' = [last EXCEPT ![s] = cache[s]]
                   ELSE UNCHANGED appVars
         ELSE /\ loading' = [loading EXCEPT ![s] = IF @ = None THEN [opens |-> TRUE, read |-> FALSE, doc |-> None]
                                                   ELSE [opens |-> TRUE, read |-> @.read, doc |-> @.doc]]
              /\ loading' # loading
              /\ UNCHANGED <<appVars, cache>>
    /\ UNCHANGED <<storeVars, queueVars, pastVars, budget>>

\* onPrefetchHistorySession: the pointer rests on its card.
Prefetch(s) ==
    /\ removing[s] = None /\ open[s] = None /\ cache[s] = None /\ loading[s] = None /\ s \notin gone
    /\ loading' = [loading EXCEPT ![s] = [opens |-> FALSE, read |-> FALSE, doc |-> None]]
    /\ UNCHANGED <<storeVars, queueVars, appVars, cache, removing, pastVars, budget>>

Reads(s) ==
    /\ loading[s] # None /\ ~loading[s].read
    /\ loading' = [loading EXCEPT ![s] = [opens |-> @.opens, read |-> TRUE, doc |-> stored[s]]]
    /\ early' = IF Unstored(s) THEN early \cup {s} ELSE early
    /\ UNCHANGED <<storeVars, queueVars, appVars, cache, removing, dropped, withdrawn, outdated, budget>>

\* What was read arrives.  A conversation being removed is not opened.
Loaded(s) ==
    /\ loading[s] # None /\ loading[s].read
    /\ loading' = [loading EXCEPT ![s] = None]
    /\ removing' = removing /\ busy' = busy
    /\ LET doc == IF removing[s] = None THEN loading[s].doc ELSE None
       IN IF doc # None /\ open[s] = None /\ loading[s].opens
            THEN /\ Effect([open EXCEPT ![s] = doc], pending, {}, {})
                 /\ last' = [last EXCEPT ![s] = doc] /\ cache' = [cache EXCEPT ![s] = None]
            ELSE /\ cache' = IF doc # None /\ open[s] = None THEN [cache EXCEPT ![s] = doc] ELSE cache
                 /\ UNCHANGED appVars
    /\ UNCHANGED <<storeVars, queueVars, pastVars, budget>>

-----------------------------------------------------------------------------
(* Removal: onRemoveHistorySession, removeSession and deleteSession.         *)

\* invalidateLoadedSession, and the removal's own save is all that is left.
AskRemoval(s) ==
    /\ removing[s] = None /\ s \notin gone /\ Happens
    /\ removing' = [removing EXCEPT ![s] = [at |-> "asked", waits |-> [x \in Sessions |-> 0]]]
    /\ cache' = [cache EXCEPT ![s] = None] /\ loading' = [loading EXCEPT ![s] = None]
    /\ dropped' = IF pending[s] # None THEN dropped \cup {s} ELSE dropped
    /\ pending' = [pending EXCEPT ![s] = None]
    /\ UNCHANGED <<storeVars, queueVars, open, busy, observed, last, withdrawn, early, outdated, edits>>

\* The user takes it back.
CancelRemoval(s) ==
    /\ removing[s] # None /\ removing[s].at = "asked"
    /\ removing' = [removing EXCEPT ![s] = None]
    /\ UNCHANGED <<storeVars, queueVars, appVars, closedVars, pastVars, budget>>

\* The writes a deletion lets finish: its own and those of its workers.
DrainedBy(s) == {x \in Sessions : x = s \/ (s = Lead /\ x \in leadById)}

\* Its turn has been stopped.
BeginDelete(s) ==
    /\ removing[s] # None /\ removing[s].at = "asked" /\ s \notin busy
    /\ tombs' = tombs \cup {s}
    /\ removing' = [removing EXCEPT ![s] =
         [at |-> "draining",
          waits |-> [x \in Sessions |-> IF x \in DrainedBy(s)
                       THEN Len(queue[x]) + IF running[x] = None THEN 0 ELSE 1 ELSE 0]]]
    /\ UNCHANGED <<storeVars, queue, running, leadById, appVars, closedVars, pastVars, budget>>

Drained(s) ==
    /\ removing[s] # None /\ removing[s].at = "draining" /\ \A x \in Sessions : removing[s].waits[x] = 0
    /\ removing' = [removing EXCEPT ![s].at = "deleting"]
    /\ queue' = [queue EXCEPT ![s] = Append(@, [op |-> "delete", doc |-> None, tells |-> TRUE, old |-> FALSE])]
    /\ UNCHANGED <<storeVars, running, leadById, tombs, appVars, closedVars, pastVars, budget>>

\* invalidateLoadedSession of what may still hold a deleted conversation.
Reloaded_Never(s) == {}
Reloaded(s) == {x \in Sessions : loading[x] # None}

\* orchestrationReleased and removed, in one go.
EndRemoval(s) ==
    /\ removing[s] # None /\ removing[s].at = "deleted"
    /\ removing' = [removing EXCEPT ![s] = None] /\ busy' = busy
    /\ Effect([Released(open, s) EXCEPT ![s] = None], [Released(pending, s) EXCEPT ![s] = None], {}, {})
    /\ last' = [last EXCEPT ![s] = None]
    /\ loading' = [x \in Sessions |-> IF x \in Reloaded(s) THEN None ELSE loading[x]]
    /\ cache' = [x \in Sessions |-> IF x \in Reloaded(s) \/ x = s \/ Released(cache, s)[x] # cache[x]
                   THEN None ELSE cache[x]]
    /\ UNCHANGED <<storeVars, queueVars, pastVars, budget>>

\* A minute later the tombstone goes.  No write waits that long: what was
\* queued while the conversation could still be named has settled.
Expire(s) ==
    /\ s \in tombs /\ s \in gone /\ removing[s] = None
    /\ queue[s] = <<>> /\ running[s] = None
    /\ s = Lead => \A x \in Sessions : running[x] = None /\ queue[x] = <<>>
    /\ tombs' = tombs \ {s}
    /\ UNCHANGED <<storeVars, queue, running, leadById, appVars, closedVars, removing, pastVars, budget>>

WritesNext ==
    \/ Flush \/ Hide
    \/ \E s \in Sessions :
         \/ Invoke(s) \/ SaveLands(s) \/ DeleteLands(s) \/ WriteFails(s)
         \/ Edit(s) \/ Begin(s) \/ End(s) \/ PersistNow(s) \/ Discard(s)
         \/ Close(s) \/ Reopen(s) \/ Prefetch(s) \/ Reads(s) \/ Loaded(s)
         \/ AskRemoval(s) \/ CancelRemoval(s) \/ BeginDelete(s) \/ Drained(s) \/ EndRemoval(s) \/ Expire(s)

WritesSpec == WritesInit /\ [][WritesNext]_writesVars

-----------------------------------------------------------------------------
(* Properties.                                                               *)

\* A stored transcript never loses an edit to an older copy: a conversation's
\* writes reach the store in the order they were made, and what is reopened
\* is what was last saved.  Left out: a conversation pushed out of the cache
\* of closed ones before its last save was stored, and the write of a copy
\* that was older than what was mounted when the timer fired (OnlyNewer).
Loses(s) ==
    stored[s] # None /\ stored'[s] # None /\ ~(stored[s].text \ withdrawn[s] \subseteq stored'[s].text)
NothingOverwritten ==
    [][\A s \in Sessions : Loses(s) => s \in early \/ running[s].old]_writesVars

\* Writes of one conversation are chained, lest an older transcript overwrite
\* a newer one (sessionStore.ts:210-215).
OnlyNewer == [][\A s \in Sessions : Loses(s) => s \in early]_writesVars

\* Once its deletion is carried out a conversation never comes back, neither
\* by a save that was queued or waiting for the timer, nor by a load that
\* began before, after its tombstone went.
DeletedStaysDeleted == \A s \in gone : stored[s] = None

\* No stored worker names a lead that was deleted: it would never be shown,
\* neither beside its lead nor on its own.  Left out: a worker reopened before
\* its last save was stored, while an earlier removal of the lead failed; its
\* next save forgets the lead that save names (WorkersWritesFirst).
NoWorkerOfADeletedLead ==
    Lead \in gone =>
        \A s \in Sessions : stored[s] # None /\ stored[s].led => s \in early /\ Lead \in dropped

\* A deletion is final for the conversation and for its workers
\* (sessionStore.ts:240-262, 501-545).
DeletedIsGone == WritesTypeOK /\ DeletedStaysDeleted /\ NoWorkerOfADeletedLead

\* A save under way that names the lead is stored before the delete of the
\* lead is invoked (sessionStore.ts:507-508).
WorkersWritesFirst ==
    running[Lead] # None /\ running[Lead].op = "delete" =>
        \A s \in Sessions : running[s] # None /\ running[s].op = "save" => ~running[s].sent.led

\* When nothing is under way and no write failed, what the user sees is what
\* is stored.  Left out: a turn under way, which is saved when it ends; an edit
\* made within 650 ms of a removal that was called off, which is thrown away;
\* and a conversation whose last write was of an older copy (see the README).
TextOf(doc) == IF doc = None THEN {} ELSE doc.text
Quiet(s) == queue[s] = <<>> /\ running[s] = None /\ pending[s] = None /\ removing[s] = None /\ loading[s] = None
SavedWhenQuiet ==
    \A s \in Sessions \ (busy \cup dropped \cup early \cup outdated) : Quiet(s) /\ observed[s] = open[s] =>
        /\ open[s] # None => TextOf(stored[s]) = TextOf(open[s])
        /\ cache[s] # None => TextOf(stored[s]) = TextOf(cache[s])
=============================================================================

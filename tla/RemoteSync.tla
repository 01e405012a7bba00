----------------------------- MODULE RemoteSync ------------------------------
(***************************************************************************)
(* How a tab on another computer follows a host session: the per-block     *)
(* revisions the store keeps and the deltas it serves (host/store.ts), the  *)
(* bounded downloads of large syncs (host/sync-transfer.ts), the client that *)
(* applies them (connections/model/protocol.ts, connections.ts) and the poll *)
(* loop of the tab with its draft shown ahead of the host's answer          *)
(* (connections/ui/RemoteSession.tsx).                                      *)
(*                                                                          *)
(* Abstractions.  A transcript is a function from block ids to contents; the *)
(* order of the blocks always is the host's list of ids.  The rest of the   *)
(* session is its busy flag.  An inline limit and a piece are counted in     *)
(* requests, not bytes: any sync may be too large, and a large one takes     *)
(* Pieces requests.  Attachment previews, the project check and the cache of *)
(* snapshots of closed tabs are left out.                                   *)
(***************************************************************************)
EXTENDS Naturals, Sequences, FiniteSets

CONSTANTS
    Ids,           \* block ids
    Mine,          \* the ids this tab gives to its drafts
    Polls,         \* runs of the tab's poll effect that may overlap
    Transfers,     \* transfer ids of the host (randomUUID)
    Contents,      \* which contents the host saves
    None,          \* undefined: no block, no snapshot, no stamps
    MaxTransfers,  \* MAX_TRANSFERS
    Pieces,        \* requests a large sync takes
    MaxRevision,   \* revisions the host reaches
    MaxFaults,     \* lost answers, host restarts, expiries, other downloads
    MaxRefreshes   \* re-runs of the poll effect, and restarts of the app

ASSUME SyncAssumption ==
    /\ Mine \subseteq Ids
    /\ Polls # {}
    /\ Contents \subseteq {"text", "more", "draft"}
    /\ MaxTransfers \in Nat \ {0} /\ Pieces \in Nat \ {0}
    /\ MaxRevision \in Nat /\ MaxFaults \in Nat /\ MaxRefreshes \in Nat

VARIABLES
    \* The host.
    row,         \* the session's row, as store.find() returns it
    transfers,   \* SyncTransfers.transfers, in insertion order
    \* The tab.
    view,        \* the snapshot it shows, or None
    current,     \* the poll effect in force
    poll,        \* slot -> what that run of the poll loop is doing
    draft,       \* the draft command in the outbox, or None
    \* History, read by the properties only.
    versions,    \* revision -> what the host held at that revision
    taken,       \* draft commands the host accepted
    polled,      \* the tab's last snapshot was set by its poll loop
    \* Bounds of the model.
    faults, refreshes

host    == <<row, transfers, versions>>
tab     == <<view, current, poll, polled>>
outbox  == <<draft, taken>>
bounds  == <<faults, refreshes>>
vars    == <<host, tab, outbox, bounds>>

-----------------------------------------------------------------------------
(* Values *)

Content == {"text", "more", "draft"}
Blocks  == [Ids -> Content \cup {None}]
Version == [busy : BOOLEAN, blocks : Blocks]

\* Rows written by older hosts carry no stamps.
Row == [revision : Nat, version : Version, stamps : [Ids -> Nat] \cup {None}]

\* "mine" is the copy of a draft that the tab made itself.
ViewBlocks == [Ids -> Content \cup {"mine", None}]
View == [revision : Nat, busy : BOOLEAN, blocks : ViewBlocks,
         patched : BOOLEAN]     \* history: the tab has edited it

\* A sync: "unchanged", "snapshot" or "delta".  In a delta, ids is the host's
\* list of blocks, and version.blocks holds the ones that travel.
SyncKind == {"unchanged", "snapshot", "delta"}
Sync == [kind : SyncKind, base : Nat, revision : Nat,
         version : Version, ids : SUBSET Ids]

Transfer == [id : Transfers, sync : Sync]

\* A run of the poll loop: off, waiting for its timer, a request on its way, an
\* answer on its way, or reading pieces.
PollAt == {"off", "waiting", "asking", "answered", "reading"}
Poll == [at    : PollAt,
         known : View \cup {None},     \* the snapshot it captured
         full  : BOOLEAN,              \* the second try, without a revision
         reply : Sync \cup {None},
         from  : Transfers \cup {None},
         left  : 0 .. Pieces]

Resting(at) == [at |-> at, known |-> None, full |-> FALSE, reply |-> None,
                from |-> None, left |-> 0]
PollOff == Resting("off")
Waiting == Resting("waiting")
Asking(known, full) == [at |-> "asking", known |-> known, full |-> full, reply |-> None,
                        from |-> None, left |-> 0]
Present(blocks) == {i \in Ids : blocks[i] # None}
DraftsIn(blocks) == {i \in Ids : blocks[i] = "draft"}
\* None stands for a missing answer or snapshot: it is no record.
ASSUME RecordsAssumption == None \notin Sync /\ None \notin View
NoBlocks == [i \in Ids |-> None]

-----------------------------------------------------------------------------
(* The host: revisions, syncs and transfers *)

\* Slip: a new stamp is one revision old.
BlockRevisions_TooEarly(old, blocks, revision) ==
    [i \in Ids |-> IF /\ old.stamps # None
                      /\ blocks[i] # None /\ old.version.blocks[i] = blocks[i]
                   THEN old.stamps[i] ELSE old.revision]
\* blockRevisions(): a block that did not change keeps its stamp.
BlockRevisions(old, blocks, revision) ==
    [i \in Ids |-> IF /\ old.stamps # None
                      /\ blocks[i] # None /\ old.version.blocks[i] = blocks[i]
                   THEN old.stamps[i] ELSE revision]

\* store.save() under the next revision.
Save(version) ==
    LET next == row.revision + 1 IN
    /\ next <= MaxRevision
    /\ row' = [revision |-> next, version |-> version,
               stamps |-> BlockRevisions(row, version.blocks, next)]
    /\ versions' = [r \in 0 .. next |-> IF r = next THEN version ELSE versions[r]]

\* Slip: the comparison is one revision off.
Newer_OffByOne(stamp, base) == stamp > base + 1
Newer(stamp, base) == stamp > base

\* store.sync(): known is the snapshot whose revision the client sent, or None.
Answer(kind, base, blocks) ==
    [kind |-> kind, base |-> base, revision |-> row.revision,
     version |-> [busy |-> row.version.busy, blocks |-> blocks],
     ids |-> Present(row.version.blocks)]
SyncFor(known) ==
    LET blocks == row.version.blocks IN
    IF known = None
    THEN Answer("snapshot", 0, blocks)
    ELSE IF known.revision = row.revision
    THEN Answer("unchanged", row.revision, blocks)
    ELSE IF known.revision > row.revision \/ row.stamps = None
    THEN Answer("snapshot", 0, blocks)
    ELSE Answer("delta", known.revision,
                [i \in Ids |-> IF blocks[i] # None /\ Newer(row.stamps[i], known.revision)
                               THEN blocks[i] ELSE None])

\* Slip: one download too many.
Pruned_OffByOne(q) == IF Len(q) <= MaxTransfers THEN q ELSE Tail(q)
\* prune(): make room by dropping the oldest download.
Pruned(q) == IF Len(q) < MaxTransfers THEN q ELSE Tail(q)
Held(id) == \E k \in 1 .. Len(transfers) : transfers[k].id = id
Index(id) == CHOOSE k \in 1 .. Len(transfers) : transfers[k].id = id
TransferOf(id) == transfers[Index(id)]
Dropped(id) == [k \in 1 .. Len(transfers) - 1 |->
                  transfers[IF k < Index(id) THEN k ELSE k + 1]]
FreshTransfer(id) == ~Held(id) /\ \A p \in Polls : poll[p].from # id

\* Another device's commands and the provider's output, one save at a time: a block
\* is added, changed or removed, a sent draft goes, a turn starts or ends.
HostSaves(i, content, busy, drop) ==
    LET old    == row.version.blocks
        blocks == [j \in Ids |-> IF j = i THEN content
                                 ELSE IF drop /\ old[j] = "draft" THEN None ELSE old[j]]
    IN  /\ i \notin Mine
        /\ busy => DraftsIn(blocks) = {}
        /\ Cardinality(DraftsIn(blocks)) <= 1
        /\ Save([busy |-> busy, blocks |-> blocks])
        /\ UNCHANGED <<transfers, tab, outbox, bounds>>

\* A download of another client makes room for itself.
OtherDownload(id) ==
    /\ faults < MaxFaults /\ faults' = faults + 1
    /\ FreshTransfer(id)
    /\ transfers' = Append(Pruned(transfers), [id |-> id, sync |-> SyncFor(None)])
    /\ UNCHANGED <<row, versions, tab, outbox, refreshes>>

\* A download nobody reads for two minutes expires.
Expire(id) ==
    /\ faults < MaxFaults /\ faults' = faults + 1
    /\ Held(id)
    /\ transfers' = Dropped(id)
    /\ UNCHANGED <<row, versions, tab, outbox, refreshes>>

\* The host process restarts: the downloads lived in its memory.
HostRestarts ==
    /\ faults < MaxFaults /\ faults' = faults + 1
    /\ transfers # <<>> /\ transfers' = <<>>
    /\ UNCHANGED <<row, versions, tab, outbox, refreshes>>

-----------------------------------------------------------------------------
(* The client: applying a sync *)

\* The base check of applySessionSync().
BaseMatches(known, sync) ==
    sync.kind = "snapshot" \/ (known # None /\ known.revision = sync.base)

\* Every listed block travels or is known.
Complete(known, sync) ==
    sync.kind = "delta" =>
      \A i \in sync.ids : sync.version.blocks[i] # None \/ known.blocks[i] # None

Applies(known, sync) == BaseMatches(known, sync) /\ Complete(known, sync)

\* applySessionSync() when it does not throw.
ApplySync(known, sync) ==
    CASE sync.kind = "unchanged" -> known
      [] sync.kind = "snapshot" ->
           [revision |-> sync.revision, busy |-> sync.version.busy,
            blocks |-> sync.version.blocks, patched |-> FALSE]
      [] sync.kind = "delta" ->
           [revision |-> sync.revision, busy |-> sync.version.busy,
            blocks |-> [i \in Ids |->
                          IF i \notin sync.ids THEN None
                          ELSE IF sync.version.blocks[i] # None THEN sync.version.blocks[i]
                          ELSE known.blocks[i]],
            patched |-> known.patched]

-----------------------------------------------------------------------------
(* The tab's poll loop: an effect that a refresh disposes of and starts again *)

\* The timer fires: ask with the revision of the snapshot on screen.
PollStarts(p) ==
    /\ poll[p].at = "waiting" /\ p = current
    /\ poll' = [poll EXCEPT ![p] = Asking(view, FALSE)]
    /\ UNCHANGED <<host, view, current, polled, outbox, bounds>>

\* The revision sync() sends.  Slip: the second try sends it again.
AskedFor_Again(p) == poll[p].known
AskedFor(p) == IF poll[p].full THEN None ELSE poll[p].known

\* sessions.sync on the host: answer at once, or open a download.
HostAnswers(p) ==
    /\ poll[p].at = "asking"
    /\ LET sync == SyncFor(AskedFor(p)) IN
       \/ /\ poll' = [poll EXCEPT ![p].at = "answered", ![p].reply = sync]
          /\ UNCHANGED transfers
       \/ /\ sync.kind # "unchanged"
          /\ \E id \in Transfers :
               /\ FreshTransfer(id)
               /\ transfers' = Append(Pruned(transfers), [id |-> id, sync |-> sync])
               /\ poll' = [poll EXCEPT ![p].at = "reading", ![p].from = id,
                                       ![p].left = Pieces]
    /\ UNCHANGED <<row, versions, view, current, polled, outbox, bounds>>

\* sessions.syncChunk: the next piece; the last one closes the download.
ReadPiece(p) ==
    /\ poll[p].at = "reading" /\ Held(poll[p].from)
    /\ IF poll[p].left > 1
       THEN /\ poll' = [poll EXCEPT ![p].left = @ - 1]
            /\ UNCHANGED transfers
       ELSE /\ poll' = [poll EXCEPT ![p].at = "answered", ![p].from = None, ![p].left = 0,
                                    ![p].reply = TransferOf(poll[p].from).sync]
            /\ transfers' = Dropped(poll[p].from)
    /\ UNCHANGED <<row, versions, view, current, polled, outbox, bounds>>

\* After an error or a delivery, a disposed effect ends, the live one sets its timer.
Again(p) == [poll EXCEPT ![p] = IF p = current THEN Waiting ELSE PollOff]

\* "Session transfer expired; reload the session".
DownloadIsGone(p) ==
    /\ poll[p].at = "reading" /\ ~Held(poll[p].from)
    /\ poll' = Again(p)
    /\ UNCHANGED <<host, view, current, polled, outbox, bounds>>

\* A request or an answer is lost; what the host opened stays open.
RequestLost(p) ==
    /\ poll[p].at \in {"asking", "answered", "reading"}
    /\ faults < MaxFaults /\ faults' = faults + 1
    /\ poll' = Again(p)
    /\ UNCHANGED <<host, view, current, polled, outbox, refreshes>>

\* Slip: the answer to a disposed effect is shown as well.
Stale_Never(p) == FALSE
Stale(p) == p # current

\* loadRemoteSession() returns: show the result unless the effect was disposed of.
Deliver(p) ==
    /\ poll[p].at = "answered" /\ Applies(poll[p].known, poll[p].reply)
    /\ IF Stale(p)
       THEN UNCHANGED <<view, polled>>
       ELSE /\ view' = ApplySync(poll[p].known, poll[p].reply)
            /\ polled' = TRUE
    /\ poll' = Again(p)
    /\ UNCHANGED <<host, current, outbox, bounds>>

\* Slip: the error ends the poll, to be tried again the same way.
FallBack_GivesUp(p) == Again(p)
FallBack(p) == [poll EXCEPT ![p] = Asking(poll[p].known, TRUE)]

\* The sync does not apply: ask for everything.
AskForAll(p) ==
    /\ poll[p].at = "answered" /\ ~poll[p].full
    /\ ~Applies(poll[p].known, poll[p].reply)
    /\ poll' = FallBack(p)
    /\ UNCHANGED <<host, view, current, polled, outbox, bounds>>

\* What becomes of an effect that is disposed of: its timer is cleared, but requests
\* on their way run on.
Disposed(p) == IF poll[p].at = "waiting" THEN PollOff ELSE poll[p]
Rerun(q) ==
    /\ poll[q].at = "off"
    /\ current' = q
    /\ poll' = [p \in Polls |-> IF p = q THEN Waiting
                                ELSE IF p = current THEN Disposed(p) ELSE poll[p]]

\* The tab becomes visible or hidden, or its props change.
Refresh(q) ==
    /\ refreshes < MaxRefreshes /\ refreshes' = refreshes + 1
    /\ Rerun(q)
    /\ UNCHANGED <<host, view, polled, outbox, faults>>

\* The app restarts: nothing is on screen; the outbox is in localStorage.
AppRestarts(q) ==
    /\ refreshes < MaxRefreshes /\ refreshes' = refreshes + 1
    /\ view' = None /\ polled' = FALSE
    /\ current' = q
    /\ poll' = [p \in Polls |-> IF p = q THEN Waiting ELSE PollOff]
    /\ UNCHANGED <<host, outbox, faults>>

-----------------------------------------------------------------------------
(* The tab's own drafts *)

\* The user saves a draft: the command goes into the outbox.
SaveDraft(id) ==
    /\ draft = None
    /\ id \in Mine \ taken
    /\ draft' = id
    /\ UNCHANGED <<host, tab, taken, bounds>>

\* The host takes the command, or turns it down and the outbox forgets it.
HostTakesDraft ==
    /\ draft # None /\ draft \notin taken
    /\ IF ~row.version.busy /\ DraftsIn(row.version.blocks) = {}
       THEN /\ Save([busy   |-> FALSE,
                     blocks |-> [row.version.blocks EXCEPT ![draft] = "draft"]])
            /\ taken' = taken \cup {draft}
            /\ UNCHANGED draft
       ELSE draft' = None /\ UNCHANGED <<row, versions, taken>>
    /\ UNCHANGED <<transfers, tab, bounds>>

\* What the tab shows in place of the transcript until the next sync.
Patched(v, id) ==
    [revision |-> IF v = None THEN 0 ELSE v.revision,
     busy     |-> FALSE,
     blocks   |-> [i \in Ids |-> IF i = id THEN "mine"
                                 ELSE IF v = None \/ v.blocks[i] \in {"draft", "mine"} THEN None
                                 ELSE v.blocks[i]],
     patched  |-> TRUE]

\* The receipt arrives, from the first dispatch or from a retry however late: the
\* tab shows the draft before the next snapshot, and polls at once.
DraftReceipt(q) ==
    /\ draft \in taken
    /\ view' = Patched(view, draft) /\ polled' = FALSE
    /\ draft' = None
    /\ Rerun(q)
    /\ UNCHANGED <<host, taken, bounds>>

-----------------------------------------------------------------------------
\* A session just created, or one that an older host saved.
Init ==
    /\ \/ row = [revision |-> 1, version |-> [busy |-> FALSE, blocks |-> NoBlocks],
                 stamps |-> [i \in Ids |-> 1]]
       \/ /\ row \in [revision : {1}, version : Version, stamps : {None}]
          /\ \A i \in Ids : row.version.blocks[i] \in {"text", None}
          /\ \A i \in Mine : row.version.blocks[i] = None
    /\ versions = [r \in 0 .. 1 |->
                     IF r = 1 THEN row.version ELSE [busy |-> FALSE, blocks |-> NoBlocks]]
    /\ transfers = <<>>
    /\ view = None /\ polled = FALSE
    /\ current \in Polls
    /\ poll = [p \in Polls |-> IF p = current THEN Waiting ELSE PollOff]
    /\ draft = None /\ taken = {}
    /\ faults = 0 /\ refreshes = 0

HostStep ==
    \/ \E i \in Ids, content \in Contents \cup {None}, busy, drop \in BOOLEAN :
         HostSaves(i, content, busy, drop)
    \/ \E id \in Transfers : OtherDownload(id) \/ Expire(id)
    \/ HostRestarts
    \/ HostTakesDraft

PollStep(p) == \/ PollStarts(p) \/ HostAnswers(p) \/ ReadPiece(p) \/ DownloadIsGone(p)
               \/ RequestLost(p) \/ Deliver(p) \/ AskForAll(p)

TabStep == \/ \E q \in Polls : Refresh(q) \/ AppRestarts(q) \/ DraftReceipt(q)
           \/ \E id \in Mine : SaveDraft(id)

Next == HostStep \/ TabStep \/ \E p \in Polls : PollStep(p)

Spec == Init /\ [][Next]_vars

-----------------------------------------------------------------------------
(* Properties *)

\* Every variable has its type, and downloads stay within their limit.
TypeOK ==
    /\ row \in Row
    /\ transfers \in Seq(Transfer) /\ Len(transfers) <= MaxTransfers
    /\ view \in View \cup {None}
    /\ current \in Polls
    /\ poll \in [Polls -> Poll]
    /\ draft \in Mine \cup {None}
    /\ versions \in [0 .. row.revision -> Version]
    /\ taken \subseteq Mine
    /\ polled \in BOOLEAN
    /\ faults \in Nat /\ refreshes \in Nat

\* What the tab put together from deltas, pieces and its own earlier snapshot is
\* exactly what the host held at the revision it names, whatever was saved,
\* lost, evicted or restarted in between, as long as the tab did not edit it
\* (store.ts:137-156, 344-364; protocol.ts:113-143).
IsVersion(v) == /\ v.revision <= row.revision
                /\ v.busy = versions[v.revision].busy
                /\ v.blocks = versions[v.revision].blocks
ViewIsAVersion == view # None /\ ~view.patched => IsVersion(view)

\* A tab that did not edit its snapshot never has to download it again: each delta
\* it receives applies to the snapshot it asked for (protocol.ts:89-90).
DeltasApply ==
    \A p \in Polls :
      poll[p].at = "answered" /\ (poll[p].known = None \/ ~poll[p].known.patched) =>
        Applies(poll[p].known, poll[p].reply)

\* The second try always applies: loadRemoteSession() has no third
\* (connections.ts:191-205).
FullSyncApplies ==
    \A p \in Polls :
      poll[p].at = "answered" /\ poll[p].full => Applies(poll[p].known, poll[p].reply)

\* A tab never shows an older revision than it showed before, although answers to
\* effects that were disposed of still arrive (RemoteSession.tsx:357-359, 391).
NeverGoesBack == [][view # None /\ view' # None => view'.revision >= view.revision]_vars

\* Once the host is quiet, the tab reaches its last revision: through lost answers,
\* evicted and expired downloads, a host restart, refreshes, and its own
\* drafts that turned out not to match (connections.ts:191-205).  The timers
\* and the network are fair: a request is answered, lost or refused, and the
\* number of losses is bounded by MaxFaults.
Fairness == /\ \A p \in Polls :
                 /\ WF_vars(PollStarts(p)) /\ WF_vars(HostAnswers(p)) /\ WF_vars(ReadPiece(p))
                 /\ WF_vars(DownloadIsGone(p)) /\ WF_vars(Deliver(p)) /\ WF_vars(AskForAll(p))
FairSpec == Spec /\ Fairness
CatchesUp == <>[](view # None /\ view.revision = row.revision)

-----------------------------------------------------------------------------
(* What the repository says of the tab and the code does not do *)

\* "The remote view reconnects automatically and loads the host's latest persisted
\* snapshot" (docs/remote-access.md:67): what a poll leaves on screen is the
\* host's session at that revision, its blocks and whether it is running.
PolledIsTheHosts ==
    polled => /\ view.busy = versions[view.revision].busy
              /\ Present(view.blocks) = Present(versions[view.revision].blocks)

=============================================================================

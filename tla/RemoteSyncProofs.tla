-------------------------- MODULE RemoteSyncProofs ---------------------------
(***************************************************************************)
(* A tab that did not edit its snapshot shows exactly what the host held at  *)
(* the revision it names, and every delta it receives applies.              *)
(*                                                                          *)
(* The argument follows the data.  The stamps of the row are honest: a block *)
(* stamped r has not changed since revision r.  So a sync is honest when it  *)
(* is made: the blocks a delta leaves out are the same at its base.  Past   *)
(* versions never change, so a sync stays honest while it waits in a         *)
(* download or on the network, and so does every snapshot made from one.    *)
(*                                                                          *)
(* The last parts prove the types of what a tab and its downloads hold, and  *)
(* that no step takes a tab back: a poll in use knows the snapshot that is   *)
(* shown (KnownIsShown), and what it asked for is never older than that.    *)
(***************************************************************************)
EXTENDS RemoteSync, SequenceTheorems, TLAPS

\* A block stamped r has been the same since revision r.
StampsHonest ==
    row.stamps # None =>
      \A i \in Ids, r \in 0 .. row.revision :
        row.version.blocks[i] # None /\ row.stamps[i] <= r =>
          versions[r].blocks[i] = row.version.blocks[i]

\* A snapshot v is the version it names in the history h up to revision n.
Faithful(v, n, h) ==
    /\ v.revision <= n
    /\ ~v.patched => v.busy = h[v.revision].busy /\ v.blocks = h[v.revision].blocks

\* A sync y tells the truth about the history h up to revision n.
Honest(y, n, h) ==
    /\ y.revision <= n /\ y.base <= n
    /\ y.ids = Present(h[y.revision].blocks)
    /\ y.version.busy = h[y.revision].busy
    /\ y.kind = "snapshot" => y.version.blocks = h[y.revision].blocks
    /\ y.kind = "delta" =>
         \A i \in y.ids :
           IF y.version.blocks[i] # None
           THEN y.version.blocks[i] = h[y.revision].blocks[i]
           ELSE h[y.base].blocks[i] = h[y.revision].blocks[i]

\* A sync y answers a request that sent the revision of known, or asked for all: it
\* builds on what was known, and is no older.
Matches(known, full, y) ==
    /\ IF full \/ known = None THEN y.kind = "snapshot"
       ELSE y.kind # "snapshot" => y.base = known.revision
    /\ known # None => y.revision >= known.revision

\* A run q of the poll loop holds a faithful snapshot, and the answer it has, or is
\* reading from the downloads tr, is honest and answers its request.
PollOK(q, tr, n, h) ==
    /\ q.known # None => Faithful(q.known, n, h)
    /\ q.at = "answered" =>
         q.reply # None /\ Honest(q.reply, n, h) /\ Matches(q.known, q.full, q.reply)
    /\ q.at = "reading" =>
         \A k \in 1 .. Len(tr) : tr[k].id = q.from => Matches(q.known, q.full, tr[k].sync)

HistoryOK   == versions[row.revision] = row.version /\ StampsHonest
ViewOK      == view # None => Faithful(view, row.revision, versions)
DownloadsOK == \A k \in 1 .. Len(transfers) :
                 Honest(transfers[k].sync, row.revision, versions)
PollsOK     == \A p \in Polls : PollOK(poll[p], transfers, row.revision, versions)

Types ==
    /\ row \in Row
    /\ transfers \in Seq(Transfer)
    /\ view \in View \cup {None}
    /\ current \in Polls
    /\ poll \in [Polls -> Poll]
    /\ draft \in Mine \cup {None}
    /\ versions \in [0 .. row.revision -> Version]
    /\ taken \subseteq Mine

IInv == Types /\ HistoryOK /\ ViewOK /\ DownloadsOK /\ PollsOK

-----------------------------------------------------------------------------
(* History only grows *)

\* Saving adds a version and keeps the earlier ones and the honesty of the stamps.
LEMMA SaveStep ==
    ASSUME Types, HistoryOK, NEW version \in Version, Save(version)
    PROVE  /\ row' \in Row /\ row.revision \in Nat /\ row'.revision = row.revision + 1
           /\ versions' \in [0 .. row'.revision -> Version]
           /\ HistoryOK'
           /\ \A r \in 0 .. row.revision : versions'[r] = versions[r]
  <1> DEFINE next   == row.revision + 1
             stamps == BlockRevisions(row, version.blocks, next)
  <1>1. row.revision \in Nat /\ row.version \in Version /\ row.stamps \in [Ids -> Nat] \cup {None}
    BY DEF Types, Row
  <1>2. stamps \in [Ids -> Nat]
    BY <1>1 DEF BlockRevisions
  <1>3. row' = [revision |-> next, version |-> version, stamps |-> stamps]
    BY DEF Save
  <1>4. /\ row'.revision = next /\ row'.version = version /\ row'.stamps = stamps
        /\ row' \in Row
    BY <1>1, <1>2, <1>3 DEF Row
  <1>5. versions' = [r \in 0 .. next |-> IF r = next THEN version ELSE versions[r]]
    BY DEF Save
  <1>6. versions' \in [0 .. next -> Version]
    BY <1>1, <1>5 DEF Types
  <1>7. \A r \in 0 .. row.revision : versions'[r] = versions[r]
    BY <1>1, <1>5
  <1>8. versions'[next] = version
    BY <1>1, <1>5
  <1>9. ASSUME NEW i \in Ids, NEW r \in 0 .. next, version.blocks[i] # None, stamps[i] <= r
        PROVE  versions'[r].blocks[i] = version.blocks[i]
    <2>1. CASE r = next
      BY <2>1, <1>8
    <2>2. CASE r # next
      <3>1. r \in 0 .. row.revision
        BY <2>2, <1>1
      <3>2. stamps[i] # next
        BY <3>1, <1>9, <1>1
      <3>3. /\ row.stamps # None /\ row.version.blocks[i] = version.blocks[i]
            /\ stamps[i] = row.stamps[i]
        BY <3>2 DEF BlockRevisions
      <3>4. versions[r].blocks[i] = row.version.blocks[i]
        BY <3>1, <3>3, <1>9 DEF HistoryOK, StampsHonest
      <3> QED BY <3>1, <3>3, <3>4, <1>7
    <2> QED BY <2>1, <2>2
  <1>10. HistoryOK'
    BY <1>4, <1>8, <1>9 DEF HistoryOK, StampsHonest
  <1> QED BY <1>1, <1>4, <1>6, <1>7, <1>10

\* What was true of the history stays true when it grows.
LEMMA FaithfulStays ==
    ASSUME NEW n \in Nat, NEW m \in Nat, n <= m, NEW h, NEW g,
           \A r \in 0 .. n : g[r] = h[r],
           NEW v \in View, Faithful(v, n, h)
    PROVE  Faithful(v, m, g)
  <1>1. v.revision \in 0 .. n
    BY DEF View, Faithful
  <1> QED BY <1>1 DEF Faithful

LEMMA HonestStays ==
    ASSUME NEW n \in Nat, NEW m \in Nat, n <= m, NEW h, NEW g,
           \A r \in 0 .. n : g[r] = h[r],
           NEW y \in Sync, Honest(y, n, h)
    PROVE  Honest(y, m, g)
  <1>1. y.revision \in 0 .. n /\ y.base \in 0 .. n
    BY DEF Sync, Honest
  <1>2. g[y.revision] = h[y.revision] /\ g[y.base] = h[y.base]
    BY <1>1
  <1> QED BY <1>1, <1>2 DEF Honest

\* The types of what a run of the poll loop holds.
LEMMA PollTypes ==
    ASSUME NEW q \in Poll
    PROVE  /\ q.known \in View \cup {None} /\ q.reply \in Sync \cup {None}
           /\ q.at \in PollAt /\ q.full \in BOOLEAN
           /\ q.from \in Transfers \cup {None} /\ q.left \in 0 .. Pieces
  BY DEF Poll

\* A sync is a record, not a missing answer.
LEMMA NoSyncIsNone ==
    ASSUME NEW y \in Sync PROVE y # None
  BY RecordsAssumption

LEMMA TransferTypes ==
    ASSUME Types, NEW k \in 1 .. Len(transfers)
    PROVE  /\ transfers[k] \in Transfer
           /\ transfers[k].id \in Transfers /\ transfers[k].sync \in Sync
  <1>1. transfers[k] \in Transfer
    BY DEF Types
  <1> QED BY <1>1 DEF Transfer

\* A step of the host that only saves.
LEMMA SavingStep ==
    ASSUME IInv, NEW version \in Version, Save(version),
           UNCHANGED <<transfers, view, current, poll>>,
           draft' \in Mine \cup {None}, taken' \subseteq Mine
    PROVE  IInv'
  <1>1. /\ row' \in Row /\ row.revision \in Nat /\ row'.revision = row.revision + 1
        /\ versions' \in [0 .. row'.revision -> Version]
        /\ HistoryOK'
        /\ \A r \in 0 .. row.revision : versions'[r] = versions[r]
    BY SaveStep DEF IInv
  <1>2. row'.revision \in Nat /\ row.revision <= row'.revision
    BY <1>1
  <1>3. Types'
    BY <1>1 DEF IInv, Types
  <1>4. ASSUME NEW v \in View, Faithful(v, row.revision, versions)
        PROVE  Faithful(v, row'.revision, versions')
    BY <1>1, <1>2, <1>4, FaithfulStays
  <1>5. ASSUME NEW y \in Sync, Honest(y, row.revision, versions)
        PROVE  Honest(y, row'.revision, versions')
    BY <1>1, <1>2, <1>5, HonestStays
  <1>6. ViewOK'
    BY <1>4 DEF IInv, Types, ViewOK
  <1>7. DownloadsOK'
    BY <1>5, TransferTypes DEF IInv, DownloadsOK
  <1>8. ASSUME NEW p \in Polls PROVE PollOK(poll[p], transfers, row'.revision, versions')
    <2>1. poll[p] \in Poll /\ PollOK(poll[p], transfers, row.revision, versions)
      BY DEF IInv, Types, PollsOK
    <2> QED BY <2>1, <1>4, <1>5, PollTypes DEF PollOK
  <1> QED BY <1>3, <1>1, <1>6, <1>7, <1>8 DEF IInv, PollsOK

-----------------------------------------------------------------------------
(* Making a sync, and applying it *)

\* The request of a run that captured known, with or without its revision.
LEMMA SyncIsHonest ==
    ASSUME Types, HistoryOK, NEW known \in View \cup {None},
           known # None => Faithful(known, row.revision, versions),
           NEW full \in BOOLEAN, NEW y, y = SyncFor(IF full THEN None ELSE known)
    PROVE  /\ y \in Sync
           /\ Honest(y, row.revision, versions)
           /\ Matches(known, full, y)
  <1> DEFINE blocks == row.version.blocks
             sent   == [i \in Ids |-> IF blocks[i] # None /\ Newer(row.stamps[i], known.revision)
                                      THEN blocks[i] ELSE None]
  <1>1. row.revision \in Nat /\ row.version \in Version /\ row.stamps \in [Ids -> Nat] \cup {None}
    BY DEF Types, Row
  <1>2. row.version.busy \in BOOLEAN /\ blocks \in Blocks
    BY <1>1 DEF Version
  <1>3. Present(blocks) \subseteq Ids
    BY DEF Present
  <1>4. versions[row.revision] = row.version
    BY DEF HistoryOK
  <1>5. ASSUME NEW kind \in SyncKind, NEW base \in Nat, NEW b \in Blocks
        PROVE  /\ Answer(kind, base, b) \in Sync
               /\ Answer(kind, base, b).kind = kind
               /\ Answer(kind, base, b).base = base
               /\ Answer(kind, base, b).revision = row.revision
               /\ Answer(kind, base, b).version.busy = row.version.busy
               /\ Answer(kind, base, b).version.blocks = b
               /\ Answer(kind, base, b).ids = Present(blocks)
    <2>1. [busy |-> row.version.busy, blocks |-> b] \in Version
      BY <1>2 DEF Version
    <2> QED BY <2>1, <1>1, <1>3 DEF Answer, Sync
  <1>0. known # None => known.revision \in Nat /\ known.revision <= row.revision
    BY DEF View, Faithful
  <1>6. CASE y = Answer("snapshot", 0, blocks)
    <2>1. "snapshot" \in SyncKind /\ 0 \in Nat
      BY DEF SyncKind
    <2> QED BY <2>1, <1>0, <1>6, <1>1, <1>2, <1>4, <1>5 DEF Honest, Matches
  <1>7. CASE /\ y = Answer("unchanged", row.revision, blocks)
             /\ ~full /\ known # None /\ known.revision = row.revision
    <2>1. "unchanged" \in SyncKind
      BY DEF SyncKind
    <2> QED BY <2>1, <1>0, <1>7, <1>1, <1>2, <1>4, <1>5 DEF Honest, Matches
  <1>8. CASE /\ y = Answer("delta", known.revision, sent)
             /\ ~full /\ known # None
             /\ known.revision # row.revision /\ ~(known.revision > row.revision)
             /\ row.stamps # None
    <2>1. "delta" \in SyncKind
      BY DEF SyncKind
    <2>2. known \in View /\ known.revision \in Nat
      BY <1>8 DEF View
    <2>3. known.revision \in 0 .. row.revision
      BY <2>2, <1>1, <1>8
    <2>4. sent \in Blocks
      BY <1>2 DEF Blocks
    <2>5. ASSUME NEW i \in Present(blocks)
          PROVE  IF sent[i] # None THEN sent[i] = blocks[i]
                 ELSE versions[known.revision].blocks[i] = blocks[i]
      <3>1. i \in Ids /\ blocks[i] # None
        BY DEF Present
      <3>2. CASE row.stamps[i] > known.revision
        BY <3>1, <3>2 DEF Newer
      <3>3. CASE ~(row.stamps[i] > known.revision)
        <4>1. row.stamps[i] <= known.revision
          BY <3>3, <3>1, <2>2, <1>1, <1>8
        <4> QED BY <4>1, <3>1, <3>3, <2>3, <1>8 DEF HistoryOK, StampsHonest, Newer
      <3> QED BY <3>2, <3>3
    <2> HIDE DEF sent
    <2>6. Honest(y, row.revision, versions)
      BY <2>1, <2>2, <2>3, <2>4, <2>5, <1>1, <1>4, <1>5, <1>8 DEF Honest
    <2> QED BY <2>1, <2>2, <2>4, <2>6, <1>0, <1>1, <1>5, <1>8 DEF Matches
  <1>9. CASE full \/ known = None
    BY <1>9, <1>6 DEF SyncFor
  <1>10. CASE ~full /\ known # None
    BY <1>10, <1>6, <1>7, <1>8 DEF SyncFor
  <1> QED BY <1>9, <1>10

\* An honest sync that applies to a faithful snapshot gives a faithful one.
LEMMA AppliedIsFaithful ==
    ASSUME Types, NEW known \in View \cup {None}, NEW y \in Sync,
           known # None => Faithful(known, row.revision, versions),
           Honest(y, row.revision, versions), Applies(known, y)
    PROVE  /\ ApplySync(known, y) \in View
           /\ Faithful(ApplySync(known, y), row.revision, versions)
  <1> DEFINE n == row.revision
  <1>1. /\ y.kind \in SyncKind /\ y.base \in Nat /\ y.revision \in Nat
        /\ y.version \in Version /\ y.ids \subseteq Ids
    BY DEF Sync
  <1>2. y.version.busy \in BOOLEAN /\ y.version.blocks \in Blocks
    BY <1>1 DEF Version
  <1>3. y.revision \in 0 .. n
    BY <1>1 DEF Honest, Types, Row
  <1>4. versions[y.revision] \in Version
    BY <1>3 DEF Types
  <1>5. CASE y.kind = "unchanged"
    <2>1. known # None
      BY <1>5 DEF Applies, BaseMatches
    <2>2. ApplySync(known, y) = known
      BY <1>5 DEF ApplySync
    <2> QED BY <2>1, <2>2
  <1>6. CASE y.kind = "snapshot"
    <2>1. ApplySync(known, y) =
            [revision |-> y.revision, busy |-> y.version.busy,
             blocks |-> y.version.blocks, patched |-> FALSE]
      BY <1>6 DEF ApplySync
    <2>2. y.version.blocks \in ViewBlocks
      BY <1>2 DEF Blocks, ViewBlocks
    <2>3. ApplySync(known, y) \in View
      BY <2>1, <2>2, <1>1, <1>2 DEF View
    <2> QED BY <2>1, <2>3, <1>6 DEF Honest, Faithful
  <1>7. CASE y.kind = "delta"
    <2> DEFINE merged == [i \in Ids |->
                            IF i \notin y.ids THEN None
                            ELSE IF y.version.blocks[i] # None THEN y.version.blocks[i]
                            ELSE known.blocks[i]]
    <2>1. ApplySync(known, y) =
            [revision |-> y.revision, busy |-> y.version.busy,
             blocks |-> merged, patched |-> known.patched]
      BY <1>7 DEF ApplySync
    <2>2. known \in View /\ known # None /\ known.revision = y.base
      BY <1>7 DEF Applies, BaseMatches
    <2>3. known.blocks \in ViewBlocks /\ known.patched \in BOOLEAN
      BY <2>2 DEF View
    <2>4. merged \in ViewBlocks
      BY <2>3, <1>2 DEF Blocks, ViewBlocks
    <2>5. ApplySync(known, y) \in View
      BY <2>1, <2>3, <2>4, <1>1, <1>2 DEF View
    <2>6. ASSUME ~known.patched PROVE merged = versions[y.revision].blocks
      <3>1. versions[y.revision].blocks \in Blocks
        BY <1>4 DEF Version
      <3>2. known.blocks = versions[y.base].blocks
        BY <2>2, <2>6 DEF Faithful
      <3>3. ASSUME NEW i \in Ids PROVE merged[i] = versions[y.revision].blocks[i]
        <4>1. CASE i \notin y.ids
          BY <4>1 DEF Honest, Present
        <4>2. CASE i \in y.ids
          BY <4>2, <3>2, <1>7 DEF Honest
        <4> QED BY <4>1, <4>2
      <3> HIDE DEF merged
      <3> QED BY <3>1, <3>3, <2>4 DEF Blocks, ViewBlocks
    <2>7. Faithful(ApplySync(known, y), n, versions)
      <3> HIDE DEF merged
      <3> QED BY <2>1, <2>6, <1>3 DEF Honest, Faithful
    <2> QED BY <2>5, <2>7
  <1> QED BY <1>1, <1>5, <1>6, <1>7 DEF SyncKind

\* An honest answer to the request of an unedited snapshot applies to it.
LEMMA HonestApplies ==
    ASSUME Types, NEW known \in View \cup {None}, NEW full \in BOOLEAN, NEW y \in Sync,
           Honest(y, row.revision, versions), Matches(known, full, y),
           full \/ known = None \/ (~known.patched /\ Faithful(known, row.revision, versions))
    PROVE  Applies(known, y)
  <1>1. BaseMatches(known, y)
    BY DEF Matches, BaseMatches
  <1>2. CASE y.kind # "delta"
    BY <1>1, <1>2 DEF Applies, Complete
  <1>3. CASE y.kind = "delta"
    <2>1. ~full /\ known # None /\ known.revision = y.base
      BY <1>3 DEF Matches
    <2>2. known.blocks = versions[y.base].blocks
      BY <2>1 DEF Faithful
    <2>3. ASSUME NEW i \in y.ids PROVE y.version.blocks[i] # None \/ known.blocks[i] # None
      BY <2>2, <1>3 DEF Honest, Present
    <2> QED BY <1>1, <2>3 DEF Applies, Complete
  <1> QED BY <1>2, <1>3

-----------------------------------------------------------------------------
(* Downloads and runs of the poll loop *)

\* Every download in q is one of those in r.
Among(q, r) == \A k \in 1 .. Len(q) : \E j \in 1 .. Len(r) : q[k] = r[j]

LEMMA DroppedTransfers ==
    ASSUME Types, NEW id, Held(id)
    PROVE  Dropped(id) \in Seq(Transfer) /\ Among(Dropped(id), transfers)
  <1> DEFINE i == Index(id)
             n == Len(transfers)
  <1>1. i \in 1 .. n /\ transfers[i].id = id
    BY DEF Held, Index
  <1>2. n \in Nat /\ n > 0 /\ \A k \in 1 .. n : transfers[k] \in Transfer
    BY <1>1 DEF Types
  <1>3. \A k \in 1 .. n - 1 : (IF k < i THEN k ELSE k + 1) \in 1 .. n
    BY <1>1, <1>2
  <1>4. Dropped(id) = [k \in 1 .. n - 1 |-> transfers[IF k < i THEN k ELSE k + 1]]
    BY DEF Dropped
  <1> HIDE DEF i, n
  <1>5. Dropped(id) \in Seq(Transfer) /\ Len(Dropped(id)) = n - 1
    <2>1. n - 1 \in Nat
      BY <1>2
    <2>2. \A k \in 1 .. n - 1 : transfers[IF k < i THEN k ELSE k + 1] \in Transfer
      BY <1>2, <1>3
    <2> QED BY <2>1, <2>2, <1>4
  <1>6. Among(Dropped(id), transfers)
    BY <1>3, <1>4, <1>5 DEF Among, n
  <1> QED BY <1>5, <1>6

LEMMA PrunedTransfers ==
    ASSUME Types
    PROVE  Pruned(transfers) \in Seq(Transfer) /\ Among(Pruned(transfers), transfers)
  <1>1. transfers \in Seq(Transfer) /\ Len(transfers) \in Nat
    BY DEF Types
  <1>2. CASE Len(transfers) < MaxTransfers
    BY <1>1, <1>2 DEF Pruned, Among
  <1>3. CASE ~(Len(transfers) < MaxTransfers)
    <2>1. Pruned(transfers) = Tail(transfers)
      BY <1>3 DEF Pruned
    <2>2. transfers # <<>> /\ Len(transfers) > 0
      BY <1>1, <1>3, SyncAssumption
    <2>3. Tail(transfers) \in Seq(Transfer) /\ Len(Tail(transfers)) = Len(transfers) - 1
      BY <1>1, <2>2
    <2>4. \A k \in 1 .. Len(Tail(transfers)) : Tail(transfers)[k] = transfers[k + 1]
      BY <1>1, <2>2, <2>3
    <2>5. \A k \in 1 .. Len(Tail(transfers)) : k + 1 \in 1 .. Len(transfers)
      BY <1>1, <2>3
    <2> QED BY <2>1, <2>3, <2>4, <2>5 DEF Among
  <1> QED BY <1>2, <1>3

\* A new download at the end of what prune() left.
LEMMA OpenedTransfers ==
    ASSUME Types, NEW d \in Transfer
    PROVE  /\ Append(Pruned(transfers), d) \in Seq(Transfer)
           /\ \A k \in 1 .. Len(Append(Pruned(transfers), d)) :
                \/ \E j \in 1 .. Len(transfers) : Append(Pruned(transfers), d)[k] = transfers[j]
                \/ Append(Pruned(transfers), d)[k] = d
  <1> DEFINE r == Pruned(transfers)
  <1>1. r \in Seq(Transfer) /\ Among(r, transfers)
    BY PrunedTransfers
  <1> HIDE DEF r
  <1>2. /\ Append(r, d) \in Seq(Transfer) /\ Len(Append(r, d)) = Len(r) + 1
        /\ \A k \in 1 .. Len(r) : Append(r, d)[k] = r[k]
        /\ Append(r, d)[Len(r) + 1] = d
    BY <1>1, AppendProperties
  <1>3. \A k \in 1 .. Len(Append(r, d)) : k \in 1 .. Len(r) \/ k = Len(r) + 1
    BY <1>1, <1>2
  <1>4. \A k \in 1 .. Len(Append(r, d)) :
          \/ \E j \in 1 .. Len(transfers) : Append(r, d)[k] = transfers[j]
          \/ Append(r, d)[k] = d
    BY <1>1, <1>2, <1>3 DEF Among
  <1> QED BY <1>2, <1>4 DEF r

\* The records a run goes through.
LEMMA PollRecords ==
    ASSUME NEW q \in Poll, NEW y \in Sync, NEW id \in Transfers,
           NEW known \in View \cup {None}, NEW full \in BOOLEAN
    PROVE  /\ PollOff \in Poll /\ Waiting \in Poll /\ Asking(known, full) \in Poll
           /\ [q EXCEPT !.at = "answered", !.reply = y] \in Poll
           /\ [q EXCEPT !.at = "reading", !.from = id, !.left = Pieces] \in Poll
           /\ [q EXCEPT !.at = "answered", !.from = None, !.left = 0, !.reply = y] \in Poll
  <1>1. 0 \in 0 .. Pieces /\ Pieces \in 0 .. Pieces
    BY SyncAssumption
  <1>2. {"off", "waiting", "asking", "answered", "reading"} = PollAt
    BY DEF PollAt
  <1>3. PollOff \in Poll /\ Waiting \in Poll /\ Asking(known, full) \in Poll
    BY <1>1, <1>2 DEF PollOff, Waiting, Resting, Asking, Poll
  <1>4. "answered" \in PollAt /\ "reading" \in PollAt
    BY DEF PollAt
  <1>5. [q EXCEPT !.at = "answered", !.reply = y] \in Poll
    BY <1>1, <1>4 DEF Poll
  <1>6. [q EXCEPT !.at = "reading", !.from = id, !.left = Pieces] \in Poll
    BY <1>1, <1>4 DEF Poll
  <1>7. [q EXCEPT !.at = "answered", !.from = None, !.left = 0, !.reply = y] \in Poll
    BY <1>1, <1>4 DEF Poll
  <1> QED BY <1>3, <1>5, <1>6, <1>7

\* A run that rests or has just asked holds nothing but the snapshot it captured.
LEMMA RestingOK ==
    ASSUME NEW tr, NEW n, NEW h, NEW known, NEW full,
           known # None => Faithful(known, n, h)
    PROVE  /\ PollOK(PollOff, tr, n, h) /\ PollOK(Waiting, tr, n, h)
           /\ PollOK(Asking(known, full), tr, n, h)
  BY DEF PollOK, PollOff, Waiting, Resting, Asking

\* One run p moves to q; downloads go, or one opens that no other run reads from.
LEMMA MovingStep ==
    ASSUME IInv, NEW p \in Polls, NEW q \in Poll,
           poll' = [poll EXCEPT ![p] = q],
           UNCHANGED <<row, versions, view, current, draft, taken>>,
           transfers' \in Seq(Transfer),
           \A k \in 1 .. Len(transfers') :
             \/ \E j \in 1 .. Len(transfers) : transfers'[k] = transfers[j]
             \/ /\ Honest(transfers'[k].sync, row.revision, versions)
                /\ \A o \in Polls : o # p => poll[o].from # transfers'[k].id,
           PollOK(q, transfers', row.revision, versions)
    PROVE  IInv'
  <1>1. Types'
    BY DEF IInv, Types
  <1>2. HistoryOK' /\ ViewOK'
    BY DEF IInv, HistoryOK, StampsHonest, ViewOK
  <1>3. DownloadsOK'
    BY DEF IInv, DownloadsOK
  <1>4. ASSUME NEW o \in Polls, o # p
        PROVE  PollOK(poll[o], transfers', row.revision, versions)
    <2>1. PollOK(poll[o], transfers, row.revision, versions)
      BY DEF IInv, PollsOK
    <2> QED BY <2>1, <1>4 DEF PollOK
  <1>5. ASSUME NEW o \in Polls PROVE PollOK(poll'[o], transfers', row.revision, versions)
    BY <1>4 DEF IInv, Types
  <1>6. PollsOK'
    BY <1>5 DEF PollsOK
  <1> QED BY <1>1, <1>2, <1>3, <1>6 DEF IInv

\* Runs go to rest; the tab may show another faithful snapshot.
LEMMA RestingStep ==
    ASSUME IInv, poll' \in [Polls -> Poll],
           \A p \in Polls : poll'[p] \in {poll[p], PollOff, Waiting},
           UNCHANGED <<row, versions, transfers>>,
           view' \in View \cup {None},
           view' # None => Faithful(view', row.revision, versions),
           current' \in Polls, draft' \in Mine \cup {None}, taken' \subseteq Mine
    PROVE  IInv'
  <1>1. Types'
    BY DEF IInv, Types
  <1>2. HistoryOK' /\ ViewOK' /\ DownloadsOK'
    BY DEF IInv, HistoryOK, StampsHonest, ViewOK, DownloadsOK
  <1>3. ASSUME NEW p \in Polls PROVE PollOK(poll'[p], transfers, row.revision, versions)
    <2>1. PollOK(poll[p], transfers, row.revision, versions)
      BY DEF IInv, PollsOK
    <2>2. PollOK(PollOff, transfers, row.revision, versions)
          /\ PollOK(Waiting, transfers, row.revision, versions)
      BY RestingOK
    <2> QED BY <2>1, <2>2
  <1>4. PollsOK'
    BY <1>3 DEF PollsOK
  <1> QED BY <1>1, <1>2, <1>4 DEF IInv

\* Downloads only go.
LEMMA DroppingStep ==
    ASSUME IInv, transfers' \in Seq(Transfer), Among(transfers', transfers),
           UNCHANGED <<row, versions, view, current, poll, draft, taken>>
    PROVE  IInv'
  <1>1. Types'
    BY DEF IInv, Types
  <1>2. HistoryOK' /\ ViewOK' /\ DownloadsOK'
    BY DEF IInv, HistoryOK, StampsHonest, ViewOK, DownloadsOK, Among
  <1>3. PollsOK'
    BY DEF IInv, PollsOK, PollOK, Among
  <1> QED BY <1>1, <1>2, <1>3 DEF IInv

-----------------------------------------------------------------------------
(* The host's steps *)

LEMMA HostSteps ==
    ASSUME IInv, HostStep
    PROVE  IInv'
  <1>1. row.version \in Version /\ row.version.busy \in BOOLEAN
        /\ row.version.blocks \in Blocks
    BY DEF IInv, Types, Row, Version
  <1>2. view' = view /\ current' = current /\ poll' = poll
    BY DEF HostStep, HostSaves, OtherDownload, Expire, HostRestarts, HostTakesDraft, tab
  <1>3. ASSUME NEW i \in Ids, NEW content \in Contents \cup {None},
               NEW busy \in BOOLEAN, NEW drop \in BOOLEAN, HostSaves(i, content, busy, drop)
        PROVE  IInv'
    <2> DEFINE old    == row.version.blocks
               blocks == [j \in Ids |-> IF j = i THEN content
                                        ELSE IF drop /\ old[j] = "draft" THEN None ELSE old[j]]
    <2>1. blocks \in Blocks
      BY <1>1, <1>3, SyncAssumption DEF Blocks, Content
    <2>2. Save([busy |-> busy, blocks |-> blocks])
      BY <1>3 DEF HostSaves
    <2>3. [busy |-> busy, blocks |-> blocks] \in Version
      BY <2>1 DEF Version
    <2>4. UNCHANGED <<transfers, draft, taken>>
      BY <1>3 DEF HostSaves, outbox
    <2>5. draft' \in Mine \cup {None} /\ taken' \subseteq Mine
      BY <2>4 DEF IInv, Types
    <2> HIDE DEF blocks
    <2> QED BY <1>2, <2>2, <2>3, <2>4, <2>5, SavingStep
  <1>4. ASSUME NEW id \in Transfers, OtherDownload(id)
        PROVE  IInv'
    <2> DEFINE y == SyncFor(None)
    <2>1. y \in Sync /\ Honest(y, row.revision, versions)
      BY SyncIsHonest DEF IInv
    <2>2. /\ transfers' \in Seq(Transfer)
          /\ \A k \in 1 .. Len(transfers') :
               \/ \E j \in 1 .. Len(transfers) : transfers'[k] = transfers[j]
               \/ transfers'[k].id = id /\ transfers'[k].sync = y
      <3> DEFINE d == [id |-> id, sync |-> y]
      <3>1. transfers' = Append(Pruned(transfers), d)
        BY <1>4 DEF OtherDownload
      <3> HIDE DEF y
      <3>2. d \in Transfer /\ d.id = id /\ d.sync = y
        BY <2>1 DEF Transfer
      <3> HIDE DEF d
      <3> QED BY <3>1, <3>2, OpenedTransfers DEF IInv
    <2>3. \A p \in Polls : poll[p].from # id
      BY <1>4 DEF OtherDownload, FreshTransfer
    <2>4. UNCHANGED <<row, versions, draft, taken>>
      BY <1>4 DEF OtherDownload, outbox
    <2> HIDE DEF y
    <2>5. PICK p \in Polls : TRUE
      BY SyncAssumption
    <2>6. poll[p] \in Poll /\ poll' = [poll EXCEPT ![p] = poll[p]]
      BY <1>2 DEF IInv, Types
    <2>7. PollOK(poll[p], transfers', row.revision, versions)
      <3>1. PollOK(poll[p], transfers, row.revision, versions)
        BY DEF IInv, PollsOK
      <3> QED BY <3>1, <2>2, <2>3 DEF PollOK
    <2> QED BY <1>2, <2>1, <2>2, <2>3, <2>4, <2>6, <2>7, MovingStep
  <1>5. ASSUME NEW id \in Transfers, Expire(id)
        PROVE  IInv'
    <2>1. Held(id) /\ transfers' = Dropped(id) /\ UNCHANGED <<row, versions, draft, taken>>
      BY <1>5 DEF Expire, outbox
    <2>2. transfers' \in Seq(Transfer) /\ Among(transfers', transfers)
      BY <2>1, DroppedTransfers DEF IInv
    <2> QED BY <1>2, <2>1, <2>2, DroppingStep
  <1>6. ASSUME HostRestarts
        PROVE  IInv'
    <2>1. transfers' = <<>> /\ UNCHANGED <<row, versions, draft, taken>>
      BY <1>6 DEF HostRestarts, outbox
    <2>2. transfers' \in Seq(Transfer) /\ Among(transfers', transfers)
      BY <2>1 DEF Among
    <2> QED BY <1>2, <2>1, <2>2, DroppingStep
  <1>7. ASSUME HostTakesDraft
        PROVE  IInv'
    <2>1. draft \in Mine /\ draft \in Ids /\ transfers' = transfers
      BY <1>7, SyncAssumption DEF HostTakesDraft, IInv, Types
    <2>2. CASE ~row.version.busy /\ DraftsIn(row.version.blocks) = {}
      <3> DEFINE blocks == [row.version.blocks EXCEPT ![draft] = "draft"]
      <3>1. blocks \in Blocks
        BY <1>1 DEF Blocks, Content
      <3>2. [busy |-> FALSE, blocks |-> blocks] \in Version
        BY <3>1 DEF Version
      <3>3. Save([busy |-> FALSE, blocks |-> blocks])
            /\ taken' = taken \cup {draft} /\ draft' = draft
        BY <1>7, <2>2 DEF HostTakesDraft
      <3>4. draft' \in Mine \cup {None} /\ taken' \subseteq Mine
        BY <2>1, <3>3 DEF IInv, Types
      <3> HIDE DEF blocks
      <3> QED BY <1>2, <2>1, <3>2, <3>3, <3>4, SavingStep
    <2>3. CASE ~(~row.version.busy /\ DraftsIn(row.version.blocks) = {})
      <3>1. draft' = None /\ UNCHANGED <<row, versions, taken>>
        BY <1>7, <2>3 DEF HostTakesDraft
      <3> QED BY <1>2, <2>1, <3>1, RestingStep DEF IInv, Types, ViewOK
    <2> QED BY <2>2, <2>3
  <1> QED BY <1>3, <1>4, <1>5, <1>6, <1>7 DEF HostStep

-----------------------------------------------------------------------------
(* The tab's steps *)

\* What a run's record says at the start of a step.
LEMMA PollFacts ==
    ASSUME IInv, NEW p \in Polls
    PROVE  /\ poll[p] \in Poll
           /\ PollOK(poll[p], transfers, row.revision, versions)
           /\ poll[p].known \in View \cup {None} /\ poll[p].full \in BOOLEAN
           /\ poll[p].known # None => Faithful(poll[p].known, row.revision, versions)
           /\ Again(p) \in [Polls -> Poll]
           /\ \A o \in Polls : Again(p)[o] \in {poll[o], PollOff, Waiting}
  <1>1. poll[p] \in Poll /\ PollOK(poll[p], transfers, row.revision, versions)
    BY DEF IInv, Types, PollsOK
  <1>2. poll[p].known \in View \cup {None} /\ poll[p].full \in BOOLEAN
    BY <1>1, PollTypes
  <1>3. PollOff \in Poll /\ Waiting \in Poll
    BY SyncAssumption DEF PollOff, Waiting, Resting, Poll, PollAt
  <1>4. poll \in [Polls -> Poll]
    BY DEF IInv, Types
  <1>5. /\ Again(p) \in [Polls -> Poll]
        /\ \A o \in Polls : Again(p)[o] \in {poll[o], PollOff, Waiting}
    BY <1>3, <1>4 DEF Again
  <1> QED BY <1>1, <1>2, <1>5 DEF PollOK

\* A run that moves without touching a download.
LEMMA QuietMove ==
    ASSUME IInv, NEW p \in Polls, NEW q \in Poll, poll' = [poll EXCEPT ![p] = q],
           UNCHANGED <<row, versions, view, current, draft, taken, transfers>>,
           PollOK(q, transfers, row.revision, versions)
    PROVE  IInv'
  <1>1. transfers' \in Seq(Transfer)
    BY DEF IInv, Types
  <1> QED BY <1>1, MovingStep

LEMMA PollSteps ==
    ASSUME IInv, NEW p \in Polls, PollStep(p)
    PROVE  IInv'
  <1>1. /\ poll[p] \in Poll
        /\ PollOK(poll[p], transfers, row.revision, versions)
        /\ poll[p].known \in View \cup {None} /\ poll[p].full \in BOOLEAN
        /\ poll[p].known # None => Faithful(poll[p].known, row.revision, versions)
        /\ Again(p) \in [Polls -> Poll]
        /\ \A o \in Polls : Again(p)[o] \in {poll[o], PollOff, Waiting}
    BY PollFacts
  <1>2. view \in View \cup {None} /\ (view # None => Faithful(view, row.revision, versions))
    BY DEF IInv, Types, ViewOK
  <1>3. UNCHANGED <<row, versions, current, draft, taken>>
    BY DEF PollStep, PollStarts, HostAnswers, ReadPiece, DownloadIsGone, RequestLost,
           Deliver, AskForAll, host, outbox
  <1>4. CASE PollStarts(p) \/ AskForAll(p)
    <2>1. PICK known \in View \cup {None}, full \in BOOLEAN :
            /\ known # None => Faithful(known, row.revision, versions)
            /\ poll' = [poll EXCEPT ![p] = Asking(known, full)]
      BY <1>1, <1>2, <1>4 DEF PollStarts, AskForAll, FallBack
    <2>2. Asking(known, full) \in Poll
      BY SyncAssumption DEF Asking, Poll, PollAt
    <2>3. PollOK(Asking(known, full), transfers, row.revision, versions)
      BY <2>1, RestingOK
    <2>4. view' = view /\ transfers' = transfers
      BY <1>4 DEF PollStarts, AskForAll, host
    <2> QED BY <1>3, <2>1, <2>2, <2>3, <2>4, QuietMove
  <1>5. CASE HostAnswers(p)
    <2> DEFINE y == SyncFor(AskedFor(p))
    <2>1. /\ y \in Sync /\ Honest(y, row.revision, versions)
          /\ Matches(poll[p].known, poll[p].full, y)
      BY <1>1, SyncIsHonest DEF AskedFor, IInv
    <2> HIDE DEF y
    <2>2. CASE poll' = [poll EXCEPT ![p].at = "answered", ![p].reply = y] /\ transfers' = transfers
      <3> DEFINE q == [poll[p] EXCEPT !.at = "answered", !.reply = y]
      <3>1. q \in Poll
        BY <1>1, <2>1 DEF Poll, PollAt
      <3>2. /\ q.at = "answered" /\ q.reply = y
            /\ q.known = poll[p].known /\ q.full = poll[p].full
        BY <1>1 DEF Poll
      <3>3. poll' = [poll EXCEPT ![p] = q]
        BY <2>2
      <3>4. y # None
        BY <2>1, NoSyncIsNone
      <3> HIDE DEF q
      <3>5. PollOK(q, transfers, row.revision, versions)
        BY <1>1, <2>1, <3>2, <3>4 DEF PollOK
      <3>6. view' = view
        BY <1>5 DEF HostAnswers
      <3> QED BY <1>3, <2>2, <3>1, <3>3, <3>5, <3>6, QuietMove
    <2>3. ASSUME NEW id \in Transfers, FreshTransfer(id),
                 transfers' = Append(Pruned(transfers), [id |-> id, sync |-> y]),
                 poll' = [poll EXCEPT ![p].at = "reading", ![p].from = id, ![p].left = Pieces]
          PROVE  IInv'
      <3> DEFINE q == [poll[p] EXCEPT !.at = "reading", !.from = id, !.left = Pieces]
      <3>1. q \in Poll
        BY <1>1, <2>1, PollRecords
      <3>2. /\ q.at = "reading" /\ q.from = id
            /\ q.known = poll[p].known /\ q.full = poll[p].full
        BY <1>1 DEF Poll
      <3>3. poll' = [poll EXCEPT ![p] = q]
        BY <2>3
      <3> HIDE DEF q
      <3>4. /\ transfers' \in Seq(Transfer)
            /\ \A k \in 1 .. Len(transfers') :
                 \/ \E j \in 1 .. Len(transfers) : transfers'[k] = transfers[j]
                 \/ transfers'[k].id = id /\ transfers'[k].sync = y
        <4> DEFINE d == [id |-> id, sync |-> y]
        <4>1. d \in Transfer /\ d.id = id /\ d.sync = y
          BY <2>1 DEF Transfer
        <4>2. transfers' = Append(Pruned(transfers), d)
          BY <2>3
        <4> HIDE DEF d
        <4> QED BY <4>1, <4>2, OpenedTransfers DEF IInv
      <3>5. /\ \A j \in 1 .. Len(transfers) : transfers[j].id # id
            /\ \A o \in Polls : poll[o].from # id
        BY <2>3 DEF FreshTransfer, Held
      <3>6. PollOK(q, transfers', row.revision, versions)
        BY <1>1, <2>1, <3>2, <3>4, <3>5 DEF PollOK
      <3>7. view' = view
        BY <1>5 DEF HostAnswers
      <3> QED BY <1>3, <2>1, <3>1, <3>3, <3>4, <3>5, <3>6, <3>7, MovingStep
    <2> QED BY <1>5, <2>2, <2>3 DEF HostAnswers, y
  <1>6. CASE ReadPiece(p)
    <2>1. poll[p].at = "reading" /\ Held(poll[p].from) /\ view' = view
      BY <1>6 DEF ReadPiece
    <2>2. CASE poll[p].left > 1
      <3> DEFINE q == [poll[p] EXCEPT !.left = @ - 1]
      <3>1. poll[p].left \in 0 .. Pieces
        BY <1>1, PollTypes
      <3>2. q \in Poll
        BY <1>1, <2>2, <3>1, SyncAssumption DEF Poll
      <3>3. q.at = poll[p].at /\ q.known = poll[p].known /\ q.full = poll[p].full
            /\ q.reply = poll[p].reply /\ q.from = poll[p].from
        BY <1>1 DEF Poll
      <3>4. poll' = [poll EXCEPT ![p] = q] /\ transfers' = transfers
        BY <1>6, <2>2 DEF ReadPiece
      <3> HIDE DEF q
      <3>5. PollOK(q, transfers, row.revision, versions)
        BY <1>1, <3>3 DEF PollOK
      <3> QED BY <1>3, <2>1, <3>2, <3>4, <3>5, QuietMove
    <2>3. CASE ~(poll[p].left > 1)
      <3> DEFINE i == Index(poll[p].from)
                 y == transfers[i].sync
                 q == [poll[p] EXCEPT !.at = "answered", !.from = None, !.left = 0, !.reply = y]
      <3>1. i \in 1 .. Len(transfers) /\ transfers[i].id = poll[p].from
        BY <2>1 DEF Held, Index
      <3>2. y \in Sync /\ Honest(y, row.revision, versions)
        BY <3>1, TransferTypes DEF IInv, DownloadsOK
      <3>3. Matches(poll[p].known, poll[p].full, y)
        BY <1>1, <2>1, <3>1 DEF PollOK
      <3>4. /\ poll' = [poll EXCEPT ![p] = q]
            /\ transfers' = Dropped(poll[p].from)
        BY <1>6, <2>3 DEF ReadPiece, TransferOf
      <3> HIDE DEF y
      <3>5. q \in Poll
        <4>1. poll[p].from \in Transfers
          BY <3>1, TransferTypes DEF IInv
        <4> QED BY <1>1, <3>2, <4>1, PollRecords
      <3>6. /\ q.at = "answered" /\ q.reply = y
            /\ q.known = poll[p].known /\ q.full = poll[p].full
        BY <1>1 DEF Poll
      <3> HIDE DEF q
      <3>7. transfers' \in Seq(Transfer) /\ Among(transfers', transfers)
        BY <2>1, <3>4, DroppedTransfers DEF IInv
      <3>8. y # None
        BY <3>2, NoSyncIsNone
      <3>9. PollOK(q, transfers', row.revision, versions)
        BY <1>1, <3>2, <3>3, <3>6, <3>8 DEF PollOK
      <3> QED BY <1>3, <2>1, <3>4, <3>5, <3>7, <3>9, MovingStep DEF Among
    <2> QED BY <2>2, <2>3
  <1>7. CASE DownloadIsGone(p) \/ RequestLost(p)
    <2>1. poll' = Again(p) /\ UNCHANGED <<view, transfers>>
      BY <1>7 DEF DownloadIsGone, RequestLost, host
    <2> QED BY <1>1, <1>2, <1>3, <2>1, RestingStep DEF IInv, Types
  <1>8. CASE Deliver(p)
    <2>1. /\ poll[p].at = "answered" /\ Applies(poll[p].known, poll[p].reply)
          /\ poll' = Again(p) /\ transfers' = transfers
          /\ view' = view \/ view' = ApplySync(poll[p].known, poll[p].reply)
      BY <1>8 DEF Deliver, host
    <2>2. poll[p].reply \in Sync /\ Honest(poll[p].reply, row.revision, versions)
      BY <1>1, <2>1, PollTypes DEF PollOK
    <2>3. /\ ApplySync(poll[p].known, poll[p].reply) \in View
          /\ Faithful(ApplySync(poll[p].known, poll[p].reply), row.revision, versions)
      BY <1>1, <2>1, <2>2, AppliedIsFaithful DEF IInv
    <2> QED BY <1>1, <1>2, <1>3, <2>1, <2>3, RestingStep DEF IInv, Types
  <1> QED BY <1>4, <1>5, <1>6, <1>7, <1>8 DEF PollStep

LEMMA TabSteps ==
    ASSUME IInv, TabStep
    PROVE  IInv'
  <1>1. /\ view \in View \cup {None} /\ (view # None => Faithful(view, row.revision, versions))
        /\ draft \in Mine \cup {None} /\ taken \subseteq Mine
        /\ current \in Polls /\ poll \in [Polls -> Poll]
    BY DEF IInv, Types, ViewOK
  <1>2. PollOff \in Poll /\ Waiting \in Poll
    BY SyncAssumption DEF PollOff, Waiting, Resting, Poll, PollAt
  <1>3. ASSUME NEW q \in Polls, Rerun(q)
        PROVE  /\ current' \in Polls /\ poll' \in [Polls -> Poll]
               /\ \A p \in Polls : poll'[p] \in {poll[p], PollOff, Waiting}
    BY <1>1, <1>2, <1>3 DEF Rerun, Disposed
  <1>4. ASSUME NEW q \in Polls, Refresh(q)
        PROVE  IInv'
    <2>1. Rerun(q) /\ UNCHANGED <<row, versions, transfers, view, draft, taken>>
      BY <1>4 DEF Refresh, host, outbox
    <2> QED BY <1>1, <1>3, <2>1, RestingStep
  <1>5. ASSUME NEW q \in Polls, AppRestarts(q)
        PROVE  IInv'
    <2>1. /\ view' = None /\ current' = q
          /\ poll' = [p \in Polls |-> IF p = q THEN Waiting ELSE PollOff]
          /\ UNCHANGED <<row, versions, transfers, draft, taken>>
      BY <1>5 DEF AppRestarts, host, outbox
    <2>2. /\ poll' \in [Polls -> Poll]
          /\ \A p \in Polls : poll'[p] \in {poll[p], PollOff, Waiting}
      BY <1>2, <2>1
    <2> QED BY <1>1, <2>1, <2>2, RestingStep
  <1>6. ASSUME NEW q \in Polls, DraftReceipt(q)
        PROVE  IInv'
    <2>1. /\ view' = Patched(view, draft) /\ draft' = None /\ Rerun(q)
          /\ UNCHANGED <<row, versions, transfers, taken>>
      BY <1>6 DEF DraftReceipt, host
    <2>2. row.revision \in Nat
      BY DEF IInv, Types, Row
    <2> DEFINE revision == IF view = None THEN 0 ELSE view.revision
               blocks   == [i \in Ids |-> IF i = draft THEN "mine"
                              ELSE IF view = None \/ view.blocks[i] \in {"draft", "mine"} THEN None
                              ELSE view.blocks[i]]
    <2>3. revision \in Nat /\ revision <= row.revision
      <3>1. CASE view = None
        BY <3>1, <2>2
      <3>2. CASE view # None
        BY <3>2, <1>1 DEF View, Faithful
      <3> QED BY <3>1, <3>2
    <2>4. blocks \in ViewBlocks
      <3>1. CASE view = None
        BY <3>1 DEF ViewBlocks
      <3>2. CASE view # None
        <4>1. view.blocks \in ViewBlocks
          BY <3>2, <1>1 DEF View
        <4> QED BY <3>2, <4>1 DEF ViewBlocks
      <3> QED BY <3>1, <3>2
    <2>5. Patched(view, draft) =
            [revision |-> revision, busy |-> FALSE, blocks |-> blocks, patched |-> TRUE]
      BY DEF Patched
    <2> HIDE DEF revision, blocks
    <2>6. Patched(view, draft) \in View
      BY <2>3, <2>4, <2>5 DEF View
    <2>7. Faithful(Patched(view, draft), row.revision, versions)
      BY <2>3, <2>5 DEF Faithful
    <2> QED BY <1>1, <1>3, <2>1, <2>6, <2>7, RestingStep
  <1>7. ASSUME NEW id \in Mine, SaveDraft(id)
        PROVE  IInv'
    <2>1. /\ draft' = id
          /\ UNCHANGED <<row, versions, transfers, view, current, poll, taken>>
      BY <1>7 DEF SaveDraft, host, tab
    <2> QED BY <1>1, <2>1, RestingStep
  <1> QED BY <1>4, <1>5, <1>6, <1>7 DEF TabStep

-----------------------------------------------------------------------------
(* The theorems *)

LEMMA InitInv == Init => IInv
  <1> SUFFICES ASSUME Init PROVE IInv
    OBVIOUS
  <1>1. row.revision = 1 /\ row.version \in Version /\ row \in Row
    <2>1. NoBlocks \in Blocks
      BY DEF NoBlocks, Blocks
    <2>2. [busy |-> FALSE, blocks |-> NoBlocks] \in Version
      BY <2>1 DEF Version
    <2>3. CASE row = [revision |-> 1, version |-> [busy |-> FALSE, blocks |-> NoBlocks],
                      stamps |-> [i \in Ids |-> 1]]
      BY <2>2, <2>3 DEF Row
    <2>4. CASE row \in [revision : {1}, version : Version, stamps : {None}]
      BY <2>4 DEF Row
    <2> QED BY <2>3, <2>4 DEF Init
  <1>2. [busy |-> FALSE, blocks |-> NoBlocks] \in Version
    BY DEF NoBlocks, Blocks, Version
  <1>3. versions \in [0 .. 1 -> Version] /\ versions[1] = row.version
        /\ versions[0] = [busy |-> FALSE, blocks |-> NoBlocks]
    BY <1>1, <1>2 DEF Init
  <1>4. /\ transfers = <<>> /\ view = None /\ current \in Polls
        /\ poll = [p \in Polls |-> IF p = current THEN Waiting ELSE PollOff]
        /\ draft = None /\ taken = {}
    BY DEF Init
  <1>5. PollOff \in Poll /\ Waiting \in Poll
    BY SyncAssumption DEF PollOff, Waiting, Resting, Poll, PollAt
  <1>6. Types
    BY <1>1, <1>3, <1>4, <1>5 DEF Types
  <1>7. StampsHonest
    <2>1. CASE row.stamps = None
      BY <2>1 DEF StampsHonest
    <2>2. CASE row = [revision |-> 1, version |-> [busy |-> FALSE, blocks |-> NoBlocks],
                      stamps |-> [i \in Ids |-> 1]]
      BY <2>2 DEF StampsHonest, NoBlocks
    <2> QED BY <2>1, <2>2 DEF Init
  <1>8. HistoryOK /\ ViewOK /\ DownloadsOK
    BY <1>1, <1>3, <1>4, <1>7 DEF HistoryOK, ViewOK, DownloadsOK
  <1>9. PollsOK
    <2>1. ASSUME NEW p \in Polls PROVE PollOK(poll[p], transfers, row.revision, versions)
      <3>1. poll[p] = Waiting \/ poll[p] = PollOff
        BY <1>4
      <3>2. /\ PollOK(Waiting, transfers, row.revision, versions)
            /\ PollOK(PollOff, transfers, row.revision, versions)
        BY RestingOK
      <3> QED BY <3>1, <3>2
    <2> QED BY <2>1 DEF PollsOK
  <1> QED BY <1>6, <1>8, <1>9 DEF IInv

LEMMA NextInv == IInv /\ [Next]_vars => IInv'
  <1> SUFFICES ASSUME IInv, [Next]_vars PROVE IInv'
    OBVIOUS
  <1>1. CASE UNCHANGED vars
    BY <1>1 DEF vars, host, tab, outbox, bounds, IInv, Types, HistoryOK, StampsHonest,
                ViewOK, DownloadsOK, PollsOK, PollOK
  <1>2. CASE Next
    BY <1>2, HostSteps, TabSteps, PollSteps DEF Next
  <1> QED BY <1>1, <1>2

\* The inductive invariant holds.
THEOREM Invariance == Spec => []IInv
  BY InitInv, NextInv, PTL DEF Spec

\* What a tab shows without having edited it is what the host held at the revision
\* it names (store.sync(), applySessionSync()).
THEOREM ShowsWhatWasThere == Spec => []ViewIsAVersion
  <1>1. IInv => ViewIsAVersion
    BY DEF IInv, ViewOK, Faithful, ViewIsAVersion, IsVersion
  <1> QED BY <1>1, Invariance, PTL

\* A tab that did not edit its snapshot never has to download it again
\* (loadRemoteSession()).
THEOREM NoNeedlessDownload == Spec => []DeltasApply
  <1>1. ASSUME IInv, NEW p \in Polls, poll[p].at = "answered",
               poll[p].known = None \/ ~poll[p].known.patched
        PROVE  Applies(poll[p].known, poll[p].reply)
    <2>1. /\ poll[p].known \in View \cup {None} /\ poll[p].full \in BOOLEAN
          /\ poll[p].reply \in Sync \cup {None}
          /\ PollOK(poll[p], transfers, row.revision, versions)
      BY <1>1, PollTypes DEF IInv, Types, PollsOK
    <2>2. /\ poll[p].known # None => Faithful(poll[p].known, row.revision, versions)
          /\ poll[p].reply \in Sync /\ Honest(poll[p].reply, row.revision, versions)
          /\ Matches(poll[p].known, poll[p].full, poll[p].reply)
      BY <1>1, <2>1 DEF PollOK
    <2> QED BY <1>1, <2>1, <2>2, HonestApplies DEF IInv
  <1>2. IInv => DeltasApply
    BY <1>1 DEF DeltasApply
  <1> QED BY <1>2, Invariance, PTL

\* The second try always applies, edited or not (loadRemoteSession()).
THEOREM SecondTryApplies == Spec => []FullSyncApplies
  <1>1. ASSUME IInv, NEW p \in Polls, poll[p].at = "answered", poll[p].full
        PROVE  Applies(poll[p].known, poll[p].reply)
    <2>1. PollOK(poll[p], transfers, row.revision, versions)
      BY <1>1 DEF IInv, PollsOK
    <2>2. poll[p].reply.kind = "snapshot"
      BY <1>1, <2>1 DEF PollOK, Matches
    <2> QED BY <2>2 DEF Applies, BaseMatches, Complete
  <1>2. IInv => FullSyncApplies
    BY <1>1 DEF FullSyncApplies
  <1> QED BY <1>2, Invariance, PTL

-----------------------------------------------------------------------------
(* The limits, and the order in which a tab shows revisions *)

\* The run in force captured what the tab still shows: whatever else sets the view
\* disposes of that run.
KnownIsShown ==
    \A p \in Polls :
      p = current /\ poll[p].at \in {"asking", "answered", "reading"} => poll[p].known = view

Limits == Len(transfers) <= MaxTransfers /\ polled \in BOOLEAN /\ faults \in Nat /\ refreshes \in Nat

\* Downloads never exceed their limit (SyncTransfers.prune()).
LEMMA DownloadsStayFew ==
    ASSUME IInv, Len(transfers) <= MaxTransfers, [Next]_vars
    PROVE  Len(transfers') <= MaxTransfers
  <1>1. transfers \in Seq(Transfer) /\ Len(transfers) \in Nat /\ MaxTransfers \in Nat \ {0}
    BY SyncAssumption DEF IInv, Types
  <1>2. ASSUME NEW d \in Transfer, transfers' = Append(Pruned(transfers), d)
        PROVE  Len(transfers') <= MaxTransfers
    <2>1. Pruned(transfers) \in Seq(Transfer) /\ Len(Pruned(transfers)) < MaxTransfers
      <3>1. CASE Len(transfers) < MaxTransfers
        BY <3>1, <1>1 DEF Pruned
      <3>2. CASE ~(Len(transfers) < MaxTransfers)
        <4>1. transfers # <<>> /\ Pruned(transfers) = Tail(transfers)
          BY <3>2, <1>1 DEF Pruned
        <4> QED BY <4>1, <1>1
      <3> QED BY <3>1, <3>2
    <2>2. Len(transfers') = Len(Pruned(transfers)) + 1
      BY <1>2, <2>1, AppendProperties
    <2> QED BY <2>1, <2>2, <1>1
  <1>3. ASSUME NEW id, Held(id), transfers' = Dropped(id)
        PROVE  Len(transfers') <= MaxTransfers
    <2>1. Len(transfers) > 0
      BY <1>1, <1>3 DEF Held
    <2>2. Len(Dropped(id)) = Len(transfers) - 1
      BY <1>1, <2>1 DEF Dropped
    <2> QED BY <1>1, <1>3, <2>2
  <1>4. ASSUME NEW id \in Transfers, NEW known \in View \cup {None}, NEW full \in BOOLEAN,
               known # None => Faithful(known, row.revision, versions),
               transfers' = Append(Pruned(transfers),
                              [id |-> id, sync |-> SyncFor(IF full THEN None ELSE known)])
        PROVE  Len(transfers') <= MaxTransfers
    <2>1. SyncFor(IF full THEN None ELSE known) \in Sync
      BY <1>4, SyncIsHonest DEF IInv
    <2>2. [id |-> id, sync |-> SyncFor(IF full THEN None ELSE known)] \in Transfer
      BY <2>1 DEF Transfer
    <2> QED BY <1>2, <1>4, <2>2
  <1>5. CASE UNCHANGED transfers
    BY <1>5
  <1>6. ASSUME NEW id \in Transfers, OtherDownload(id)
        PROVE  Len(transfers') <= MaxTransfers
    <2>1. transfers' = Append(Pruned(transfers), [id |-> id, sync |-> SyncFor(None)])
      BY <1>6 DEF OtherDownload
    <2>2. None \in View \cup {None} /\ TRUE \in BOOLEAN /\ (IF TRUE THEN None ELSE None) = None
      OBVIOUS
    <2>3. SyncFor(None) \in Sync
      BY SyncIsHonest DEF IInv
    <2>4. [id |-> id, sync |-> SyncFor(None)] \in Transfer
      BY <2>3 DEF Transfer
    <2> QED BY <1>2, <2>1, <2>4
  <1>7. ASSUME NEW p \in Polls, HostAnswers(p)
        PROVE  Len(transfers') <= MaxTransfers
    <2>1. poll[p].known \in View \cup {None} /\ poll[p].full \in BOOLEAN
          /\ (poll[p].known # None => Faithful(poll[p].known, row.revision, versions))
      BY PollFacts
    <2>2. CASE \E id \in Transfers :
                 transfers' = Append(Pruned(transfers), [id |-> id, sync |-> SyncFor(AskedFor(p))])
      BY <2>1, <2>2, <1>4 DEF AskedFor
    <2> QED BY <1>5, <1>7, <2>2 DEF HostAnswers
  <1>8. ASSUME NEW p \in Polls, ReadPiece(p)
        PROVE  Len(transfers') <= MaxTransfers
    BY <1>8, <1>3, <1>5 DEF ReadPiece
  <1>9. ASSUME NEW id \in Transfers, Expire(id)
        PROVE  Len(transfers') <= MaxTransfers
    BY <1>9, <1>3 DEF Expire
  <1>10. ASSUME HostRestarts
         PROVE  Len(transfers') <= MaxTransfers
    BY <1>10, <1>1 DEF HostRestarts
  <1>11. CASE HostStep
    BY <1>5, <1>6, <1>9, <1>10, <1>11 DEF HostStep, HostSaves, HostTakesDraft
  <1>12. CASE TabStep
    BY <1>5, <1>12 DEF TabStep, Refresh, AppRestarts, DraftReceipt, SaveDraft, host
  <1>13. ASSUME NEW p \in Polls, PollStep(p)
         PROVE  Len(transfers') <= MaxTransfers
    BY <1>5, <1>7, <1>8, <1>13
       DEF PollStep, PollStarts, DownloadIsGone, RequestLost, Deliver, AskForAll, host
  <1>14. CASE UNCHANGED vars
    BY <1>5, <1>14 DEF vars, host
  <1> QED BY <1>11, <1>12, <1>13, <1>14 DEF Next

LEMMA LimitsHold ==
    ASSUME IInv, Limits, [Next]_vars
    PROVE  Limits'
  <1>1. Len(transfers') <= MaxTransfers
    BY DownloadsStayFew DEF Limits
  <1>2. polled' \in BOOLEAN
    <2>1. CASE UNCHANGED polled
      BY <2>1 DEF Limits
    <2>2. CASE HostStep
      BY <2>1, <2>2 DEF HostStep, HostSaves, OtherDownload, Expire, HostRestarts, HostTakesDraft, tab
    <2>3. CASE TabStep
      BY <2>1, <2>3 DEF TabStep, Refresh, AppRestarts, DraftReceipt, SaveDraft, tab
    <2>4. ASSUME NEW p \in Polls, PollStep(p)
          PROVE  polled' \in BOOLEAN
      BY <2>1, <2>4 DEF PollStep, PollStarts, HostAnswers, ReadPiece, DownloadIsGone, RequestLost,
                        Deliver, AskForAll
    <2> QED BY <2>1, <2>2, <2>3, <2>4 DEF Next, vars, tab
  <1>3. faults' \in {faults, faults + 1} /\ refreshes' \in {refreshes, refreshes + 1}
    <2>1. CASE HostStep
      BY <2>1 DEF HostStep, HostSaves, OtherDownload, Expire, HostRestarts, HostTakesDraft, bounds
    <2>2. CASE TabStep
      BY <2>2 DEF TabStep, Refresh, AppRestarts, DraftReceipt, SaveDraft, bounds
    <2>3. ASSUME NEW p \in Polls, PollStep(p)
          PROVE  faults' \in {faults, faults + 1} /\ refreshes' \in {refreshes, refreshes + 1}
      BY <2>3 DEF PollStep, PollStarts, HostAnswers, ReadPiece, DownloadIsGone, RequestLost,
                  Deliver, AskForAll, bounds
    <2> QED BY <2>1, <2>2, <2>3 DEF Next, vars, bounds
  <1>4. faults' \in Nat /\ refreshes' \in Nat
    BY <1>3 DEF Limits
  <1> QED BY <1>1, <1>2, <1>4 DEF Limits

\* A run that is waiting or off has nothing to show.
LEMMA RestingAt ==
    /\ PollOff.at = "off" /\ Waiting.at = "waiting"
    /\ \A known, full : Asking(known, full).known = known
  BY DEF PollOff, Waiting, Resting, Asking

LEMMA KnownStays ==
    ASSUME IInv, KnownIsShown, [Next]_vars
    PROVE  KnownIsShown'
  <1>1. poll \in [Polls -> Poll] /\ current \in Polls
    BY DEF IInv, Types
  <1>2. CASE UNCHANGED tab
    BY <1>2 DEF KnownIsShown, tab
  <1>3. CASE HostStep
    BY <1>2, <1>3 DEF HostStep, HostSaves, OtherDownload, Expire, HostRestarts, HostTakesDraft
  \* The run of another slot takes over, and starts by waiting.
  <1>4. ASSUME NEW q \in Polls, Rerun(q)
        PROVE  KnownIsShown'
    <2>1. current' = q /\ poll'[q] = Waiting
      BY <1>1, <1>4 DEF Rerun
    <2> QED BY <2>1, RestingAt DEF KnownIsShown
  <1>5. ASSUME NEW q \in Polls, AppRestarts(q)
        PROVE  KnownIsShown'
    <2>1. current' = q /\ poll'[q] = Waiting
      BY <1>5 DEF AppRestarts
    <2> QED BY <2>1, RestingAt DEF KnownIsShown
  <1>6. CASE TabStep
    BY <1>2, <1>4, <1>5, <1>6 DEF TabStep, Refresh, DraftReceipt, SaveDraft
  <1>7. ASSUME NEW p \in Polls, PollStep(p)
        PROVE  KnownIsShown'
    <2>1. current' = current /\ \A o \in Polls \ {p} : poll'[o] = poll[o]
      BY <1>1, <1>7 DEF PollStep, PollStarts, HostAnswers, ReadPiece, DownloadIsGone,
                        RequestLost, Deliver, AskForAll, Again, FallBack
    <2>2. view' = view \/ p = current
      BY <1>7 DEF PollStep, PollStarts, HostAnswers, ReadPiece, DownloadIsGone,
                  RequestLost, Deliver, AskForAll, Stale
    <2>3. CASE p # current
      BY <2>1, <2>2, <2>3, <1>1 DEF KnownIsShown
    <2>4. CASE PollStarts(p)
      BY <2>4, <1>1, <2>1, RestingAt DEF PollStarts, KnownIsShown
    <2>5. CASE AskForAll(p)
      <3>1. poll'[p] = Asking(poll[p].known, TRUE) /\ view' = view /\ poll[p].at = "answered"
        BY <2>5, <1>1 DEF AskForAll, FallBack
      <3>2. poll'[p].known = poll[p].known
        BY <3>1, RestingAt
      <3> QED BY <3>1, <3>2, <2>1, <1>1 DEF KnownIsShown
    <2>6. CASE HostAnswers(p) \/ ReadPiece(p)
      <3>1. poll[p].at \in {"asking", "reading"} /\ view' = view
            /\ poll'[p].known = poll[p].known
        <4>1. poll[p] \in Poll
          BY <1>1
        <4>2. CASE HostAnswers(p)
          <5>1. poll[p].at = "asking" /\ view' = view
            BY <4>2 DEF HostAnswers
          <5>2. ASSUME NEW y, poll' = [poll EXCEPT ![p].at = "answered", ![p].reply = y]
                PROVE  poll'[p].known = poll[p].known
            BY <4>1, <5>2, <1>1 DEF Poll
          <5>3. ASSUME NEW id, poll' = [poll EXCEPT ![p].at = "reading", ![p].from = id,
                                                    ![p].left = Pieces]
                PROVE  poll'[p].known = poll[p].known
            BY <4>1, <5>3, <1>1 DEF Poll
          <5> QED BY <4>2, <5>1, <5>2, <5>3 DEF HostAnswers
        <4>3. CASE ReadPiece(p)
          BY <4>1, <4>3, <1>1 DEF ReadPiece, Poll
        <4> QED BY <2>6, <4>2, <4>3
      <3> QED BY <3>1, <2>1, <1>1 DEF KnownIsShown
    <2>7. CASE p = current /\ (DownloadIsGone(p) \/ RequestLost(p) \/ Deliver(p))
      <3>1. poll'[p] = Waiting
        BY <2>7, <1>1 DEF DownloadIsGone, RequestLost, Deliver, Again
      <3> QED BY <3>1, <2>1, <2>7, RestingAt DEF KnownIsShown
    <2> QED BY <1>7, <2>3, <2>4, <2>5, <2>6, <2>7 DEF PollStep
  <1>8. CASE UNCHANGED vars
    BY <1>2, <1>8 DEF vars
  <1> QED BY <1>3, <1>6, <1>7, <1>8 DEF Next

SInv == IInv /\ Limits /\ KnownIsShown

LEMMA SInvHolds == Spec => []SInv
  <1>1. Init => SInv
    <2> SUFFICES ASSUME Init PROVE SInv
      OBVIOUS
    <2>1. IInv
      BY InitInv
    <2>2. Limits
      <3>1. polled \in BOOLEAN /\ faults \in Nat /\ refreshes \in Nat
        BY DEF Init
      <3>2. PICK n \in Nat : n = MaxTransfers
        BY SyncAssumption
      <3>3. Len(transfers) = 0
        BY DEF Init
      <3>4. Len(transfers) <= MaxTransfers
        BY <3>2, <3>3
      <3> QED BY <3>1, <3>4 DEF Limits
    <2>3. KnownIsShown
      BY RestingAt DEF Init, KnownIsShown
    <2> QED BY <2>1, <2>2, <2>3 DEF SInv
  <1>2. SInv /\ [Next]_vars => SInv'
    BY NextInv, LimitsHold, KnownStays DEF SInv
  <1> QED BY <1>1, <1>2, PTL DEF Spec

\* Every variable has its type, and the host holds no more downloads than its limit.
THEOREM TypesHold == Spec => []TypeOK
  <1>1. SInv => TypeOK
    BY DEF SInv, IInv, Types, Limits, TypeOK
  <1> QED BY <1>1, SInvHolds, PTL

\* A tab never shows an older revision than before: a late answer belongs to a run
\* that was disposed of, and the run in force asked for what is on screen.
THEOREM RevisionsOnlyGrow == Spec => NeverGoesBack
  <1>1. ASSUME SInv, [Next]_vars
        PROVE  [view # None /\ view' # None => view'.revision >= view.revision]_vars
    <2> SUFFICES ASSUME Next, view # None, view' # None
                 PROVE  view'.revision >= view.revision
      BY <1>1 DEF vars
    <2>1. view \in View /\ view.revision \in Nat
      BY <1>1 DEF SInv, IInv, Types, View
    <2>2. CASE view' = view
      BY <2>1, <2>2
    <2>3. ASSUME NEW p \in Polls, Deliver(p), view' # view
          PROVE  view'.revision >= view.revision
      <3>1. /\ p = current /\ poll[p].at = "answered"
            /\ view' = ApplySync(poll[p].known, poll[p].reply)
        BY <2>3 DEF Deliver, Stale
      <3>2. poll[p].known = view
        BY <1>1, <3>1 DEF SInv, KnownIsShown
      <3>3. poll[p].reply \in Sync /\ Matches(poll[p].known, poll[p].full, poll[p].reply)
        BY <1>1, <3>1, PollFacts, PollTypes DEF SInv, PollOK
      <3>4. poll[p].reply.revision >= view.revision
        BY <3>2, <3>3 DEF Matches
      <3>5. view'.revision = poll[p].reply.revision \/ view' = view
        BY <3>1, <3>2, <3>3 DEF ApplySync, Sync, SyncKind
      <3> QED BY <3>4, <3>5, <2>3
    <2>4. ASSUME NEW q \in Polls, DraftReceipt(q)
          PROVE  view'.revision >= view.revision
      BY <2>4, <2>1 DEF DraftReceipt, Patched
    <2>5. CASE HostStep
      BY <2>2, <2>5 DEF HostStep, HostSaves, OtherDownload, Expire, HostRestarts, HostTakesDraft, tab
    <2>6. CASE TabStep
      BY <2>2, <2>4, <2>6 DEF TabStep, Refresh, AppRestarts, SaveDraft, tab
    <2>7. ASSUME NEW p \in Polls, PollStep(p)
          PROVE  view'.revision >= view.revision
      BY <2>2, <2>3, <2>7 DEF PollStep, PollStarts, HostAnswers, ReadPiece, DownloadIsGone,
                              RequestLost, AskForAll
    <2> QED BY <2>5, <2>6, <2>7 DEF Next
  <1> QED BY <1>1, SInvHolds, PTL DEF Spec, NeverGoesBack

=============================================================================

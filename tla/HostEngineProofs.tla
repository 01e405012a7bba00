-------------------------- MODULE HostEngineProofs --------------------------
(***************************************************************************)
(* What HostEngine guarantees for any number of sessions, commands, events, *)
(* failing writes and crashes.                                              *)
(*                                                                          *)
(* Type correctness is not inductive by itself: settling a turn reads the   *)
(* row of its session, so that the row is there is part of the invariant,   *)
(* and it is there because it reads "running" and a running session cannot  *)
(* be deleted.  IInv says so: every promise chain and every live snapshot   *)
(* belongs to the turn that its session's row names.                        *)
(***************************************************************************)
EXTENDS HostEngine, TLAPS

\* The row of a session names the turn that its promise chain belongs to.
ChainOnDisk ==
    \A s \in Sessions :
      running[s] # None =>
        /\ up
        /\ disk[s] # None
        /\ disk[s].status = "running"
        /\ disk[s].runId = running[s].runId

\* A live snapshot is one of the running turn.
SnapshotOfChain ==
    \A s \in Sessions :
      live[s] # None =>
        /\ running[s] # None
        /\ live[s].value.status = "running"
        /\ live[s].value.runId = running[s].runId

\* A row that reads "running" has a promise chain while the host is up.
RowHasChain ==
    up => \A s \in Sessions :
            disk[s] # None /\ disk[s].status = "running" => running[s] # None

IInv == TypeOK /\ ChainOnDisk /\ SnapshotOfChain /\ RowHasChain

-----------------------------------------------------------------------------
(* The pure steps keep a session well typed, and what they do to its turn *)

\* Saving raises the revision and nothing else (HostEngine.save).
LEMMA SavedSession ==
    ASSUME NEW v \in HostSession
    PROVE  /\ Saved(v) \in HostSession
           /\ Saved(v).status = v.status
           /\ Saved(v).runId = v.runId
  BY DEF Saved, HostSession

\* An event changes neither the status nor the turn (applyHarnessEvent).
LEMMA AppliedSession ==
    ASSUME NEW v \in HostSession, NEW r \in Commands, NEW n \in Nat,
           NEW kind \in AllEventKinds
    PROVE  /\ Applied(v, r, n, kind) \in HostSession
           /\ Applied(v, r, n, kind).status = v.status
           /\ Applied(v, r, n, kind).runId = v.runId
  <1> DEFINE block(role, mark) ==
               [role |-> role, turn |-> v.runId, by |-> r, n |-> n, mark |-> mark]
  <1>1. /\ block("text", "-") \in Block
        /\ block("approval", "open") \in Block
        /\ block("plan", "ready") \in Block
    BY DEF HostSession, Block, Run
  <1> HIDE DEF block
  <1>2. CASE kind = "text"
    <2>1. Applied(v, r, n, kind) = [v EXCEPT !.blocks = @ \cup {block("text", "-")}]
      BY <1>2 DEF Applied, block
    <2> QED BY <1>1, <2>1 DEF HostSession, Transcript
  <1>3. CASE kind = "approval"
    <2>1. Applied(v, r, n, kind) = [v EXCEPT !.blocks = @ \cup {block("approval", "open")}]
      BY <1>3 DEF Applied, block
    <2> QED BY <1>1, <2>1 DEF HostSession, Transcript
  <1>4. CASE kind = "question"
    <2>1. Applied(v, r, n, kind) = [v EXCEPT !.question = n]
      BY <1>4 DEF Applied
    <2> QED BY <2>1 DEF HostSession
  <1>5. CASE kind = "plan"
    <2>1. Applied(v, r, n, kind) =
            [v EXCEPT !.blocks = {b \in @ : b.role # "plan" \/ b.turn # v.runId}
                                 \cup {block("plan", "ready")}]
      BY <1>5 DEF Applied, block
    <2> QED BY <1>1, <2>1 DEF HostSession, Transcript
  <1> QED BY <1>2, <1>3, <1>4, <1>5 DEF AllEventKinds

\* A decision changes marks only (approval.resolved).
LEMMA DecidedSession ==
    ASSUME NEW v \in HostSession, NEW n \in Nat, NEW decision \in {"allow", "deny"}
    PROVE  /\ Decided(v, n, decision) \in HostSession
           /\ Decided(v, n, decision).status = v.status
           /\ Decided(v, n, decision).runId = v.runId
  <1>1. ASSUME NEW b \in Block
        PROVE  [b EXCEPT !.mark = decision] \in Block
    BY DEF Block
  <1>2. {IF b.role = "approval" /\ b.n = n THEN [b EXCEPT !.mark = decision] ELSE b
           : b \in v.blocks} \in Transcript
    BY <1>1 DEF HostSession, Transcript
  <1> QED BY <1>2 DEF Decided, HostSession

\* A session is written field by field, each with a value of its type.
Written(v, status, runId, title, blocks) ==
    [v EXCEPT !.status = status, !.runId = runId, !.question = 0,
              !.title = title, !.blocks = blocks]

LEMMA WrittenSession ==
    ASSUME NEW v \in HostSession, NEW status \in Status, NEW runId \in Run,
           NEW title \in Title, NEW blocks \in Transcript
    PROVE  /\ Written(v, status, runId, title, blocks) \in HostSession
           /\ Written(v, status, runId, title, blocks).status = status
           /\ Written(v, status, runId, title, blocks).runId = runId
  BY DEF HostSession, Written

\* Settling a turn sets the status it is given and keeps the turn's name (settled()).
LEMMA SettledSession ==
    ASSUME NEW v \in HostSession, NEW status \in {"idle", "interrupted"},
           NEW message \in {"-", "stopped", "error", "storage", "closed", "restarted"}
    PROVE  /\ Settled(v, status, message) \in HostSession
           /\ Settled(v, status, message).status = status
           /\ Settled(v, status, message).runId = v.runId
  <1> DEFINE built == status = "idle" /\ message = "-"
             note  == [role |-> "note", turn |-> v.runId, by |-> v.runId, n |-> 0,
                       mark |-> message]
             blocks == {Closed(b, built) : b \in v.blocks}
                       \cup (IF message = "-" THEN {} ELSE {note})
  <1>1. ASSUME NEW b \in Block
        PROVE  Closed(b, built) \in Block
    BY DEF Closed, Block
  <1>2. note \in Block
    BY DEF HostSession, Block
  <1>3. blocks \in Transcript
    BY <1>1, <1>2 DEF HostSession, Transcript
  <1>4. Settled(v, status, message) = Written(v, status, v.runId, v.title, blocks)
    <2>1. [v EXCEPT !.status = status, !.question = 0, !.blocks = blocks] =
          Written(v, status, v.runId, v.title, blocks)
      BY DEF HostSession, Written
    <2> QED BY <2>1 DEF Settled
  <1>5. status \in Status /\ v.runId \in Run /\ v.title \in Title
    BY DEF HostSession, Status
  <1> HIDE DEF blocks
  <1> QED BY <1>3, <1>4, <1>5, WrittenSession

\* A send makes its command the running turn (the send branch of command()).
LEMMA StartedSession ==
    ASSUME NEW v \in HostSession, NEW c \in Commands, NEW type, NEW plan
    PROVE  /\ Started(v, c, type, plan) \in HostSession
           /\ Started(v, c, type, plan).status = "running"
           /\ Started(v, c, type, plan).runId = c
  <1> DEFINE message == [role |-> "user", turn |-> c, by |-> c, n |-> 0, mark |-> "-"]
             kept == {IF b = plan THEN [b EXCEPT !.mark = "building"] ELSE b :
                        b \in v.blocks \ Drafts(v)}
             title == IF type = "send" /\ FirstTurn(v) /\ v.title = "new"
                      THEN "prompt" ELSE v.title
  <1>1. message \in Block
    BY DEF Block, Run
  <1>2. ASSUME NEW b \in Block
        PROVE  [b EXCEPT !.mark = "building"] \in Block
    BY DEF Block
  <1>3. kept \subseteq Block
    BY <1>2 DEF HostSession, Transcript, Drafts
  <1>4. title \in Title
    BY DEF HostSession, Title
  <1>5. Started(v, c, type, plan) =
          Written(v, "running", c, title, kept \cup {message})
    BY DEF Started, Written
  <1>6. kept \cup {message} \in Transcript
    BY <1>1, <1>3 DEF Transcript
  <1>7. "running" \in Status /\ c \in Run
    BY DEF Status, Run
  <1> HIDE DEF kept, message, title
  <1> QED BY <1>4, <1>5, <1>6, <1>7, WrittenSession

-----------------------------------------------------------------------------
(* The pieces of the engine's memory *)

\* A promise chain that moves on stays the chain of its turn.
LEMMA MovedChain ==
    ASSUME NEW q \in Running, NEW at \in Stage, NEW error \in BOOLEAN, NEW wait \in Run
    PROVE  /\ [q EXCEPT !.at = at] \in Running
           /\ [q EXCEPT !.at = at].runId = q.runId
           /\ [q EXCEPT !.at = at, !.wait = wait] \in Running
           /\ [q EXCEPT !.at = at, !.wait = wait].runId = q.runId
           /\ [q EXCEPT !.at = at, !.error = error, !.wait = wait] \in Running
           /\ [q EXCEPT !.at = at, !.error = error, !.wait = wait].runId = q.runId
           /\ [q EXCEPT !.cancelled = TRUE] \in Running
           /\ [q EXCEPT !.cancelled = TRUE].runId = q.runId
           /\ [q EXCEPT !.persistenceFailed = TRUE] \in Running
           /\ [q EXCEPT !.persistenceFailed = TRUE].runId = q.runId
  BY DEF Running

\* An adapter whose send() was called stays with the run it was called for.
LEMMA StartedProv ==
    ASSUME NEW q \in Prov, q.phase # "none", NEW phase \in Phase, NEW error \in BOOLEAN
    PROVE  /\ q.run \in Commands /\ q.error \in BOOLEAN
           /\ [q EXCEPT !.phase = phase] \in Prov
           /\ [q EXCEPT !.phase = phase, !.error = error] \in Prov
  <1>1. q \in [phase : Phase, run : Commands, error : BOOLEAN]
    BY DEF Prov, IdleProv
  <1> QED BY <1>1 DEF Prov

\* provider.stop() changes the adapter and the process table, within their types.
LEMMA StoppedProvider ==
    ASSUME TypeOK, NEW S \in SUBSET Sessions, StopProvider(S)
    PROVE  /\ prov' \in [Sessions -> Prov]
           /\ child' \in [Sessions -> Run]
           /\ dying' \in [Sessions -> SUBSET Commands]
           /\ marks' \subseteq Sessions
  <1>1. ASSUME NEW s \in Sessions, prov[s].phase \in {"turn", "muted"}
        PROVE  [prov[s] EXCEPT !.phase = "ended"] \in Prov
    BY <1>1, StartedProv DEF TypeOK, Phase
  <1>2. prov' \in [Sessions -> Prov]
    BY <1>1 DEF StopProvider, TypeOK
  <1>3. child' \in [Sessions -> Run]
    BY DEF StopProvider, TypeOK, Run
  <1>4. dying' \in [Sessions -> SUBSET Commands]
    BY DEF StopProvider, TypeOK, Run
  <1> QED BY <1>2, <1>3, <1>4 DEF StopProvider, TypeOK

\* What a write finds: the row a flush leaves behind is the row's own turn.
LEMMA FlushedRow ==
    ASSUME IInv, NEW s \in Sessions, disk[s] # None
    PROVE  /\ Flushed(s) \in HostSession
           /\ Flushed(s).status = disk[s].status
           /\ Flushed(s).runId = disk[s].runId
  <1>1. CASE Dirty(s)
    <2>1. live[s].value \in HostSession
      BY <1>1 DEF Dirty, IInv, TypeOK, Live
    <2>2. live[s].value.status = disk[s].status /\ live[s].value.runId = disk[s].runId
      BY <1>1 DEF Dirty, IInv, ChainOnDisk, SnapshotOfChain
    <2> QED BY <1>1, <2>1, <2>2, SavedSession DEF Flushed
  <1>2. CASE ~Dirty(s)
    BY <1>2 DEF Flushed, IInv, TypeOK
  <1> QED BY <1>1, <1>2

\* A snapshot of a session is a live entry, and so is what a flush leaves behind.
LEMMA SnapshotLive ==
    ASSUME NEW v \in HostSession
    PROVE  /\ Snapshot(v) \in Live
           /\ Snapshot(v).value = v
  BY DEF Snapshot, Live

\* A timer that fired changes nothing else of a snapshot.
LEMMA UntimedLive ==
    ASSUME NEW w \in Live
    PROVE  /\ [w EXCEPT !.timer = FALSE] \in Live
           /\ [w EXCEPT !.timer = FALSE].value = w.value
  BY DEF Live

-----------------------------------------------------------------------------
(* Steps that start and end no turn *)

\* No promise chain appears, ends or changes its turn, and the host stays as it is.
SameChains ==
    /\ up' = up
    /\ \A s \in Sessions :
         /\ running'[s] = None <=> running[s] = None
         /\ running[s] # None => running'[s].runId = running[s].runId

\* No row appears or goes, and none changes its status or its turn.
SameRows ==
    \A s \in Sessions :
      /\ disk'[s] = None <=> disk[s] = None
      /\ disk[s] # None => disk'[s].status = disk[s].status /\ disk'[s].runId = disk[s].runId

\* A snapshot that is there after the step was there before, and is of the same turn.
SameSnapshots ==
    \A s \in Sessions :
      live'[s] # None =>
        /\ live[s] # None
        /\ live'[s].value.status = live[s].value.status
        /\ live'[s].value.runId = live[s].value.runId

\* Such a step keeps chains, rows and snapshots together.
LEMMA QuietStep ==
    ASSUME IInv, SameChains, SameRows, SameSnapshots
    PROVE  ChainOnDisk' /\ SnapshotOfChain' /\ RowHasChain'
  <1>1. ChainOnDisk'
    BY DEF IInv, SameChains, SameRows, ChainOnDisk
  <1>2. SnapshotOfChain'
    BY DEF IInv, SameChains, SameSnapshots, SnapshotOfChain
  <1>3. RowHasChain'
    BY DEF IInv, SameChains, SameRows, RowHasChain
  <1> QED BY <1>1, <1>2, <1>3

\* Writing one row of an unchanged status and turn, and telling its snapshot, is
\* such a step (save() and live.value = saved).
LEMMA RowWritten ==
    ASSUME IInv, NEW s \in Sessions, disk[s] # None,
           NEW v \in HostSession, v.status = disk[s].status, v.runId = disk[s].runId,
           disk' = [disk EXCEPT ![s] = v],
           \/ live' = [live EXCEPT ![s] = Synced(s, v)]
           \/ live[s] # None /\ live' = [live EXCEPT ![s] = Snapshot(v)]
    PROVE  /\ disk' \in [Sessions -> HostSession \cup {None}]
           /\ live' \in [Sessions -> Live \cup {None}]
           /\ SameRows /\ SameSnapshots
  <1>1. disk' \in [Sessions -> HostSession \cup {None}]
    BY DEF IInv, TypeOK
  <1>2. live' \in [Sessions -> Live \cup {None}]
    BY SnapshotLive DEF IInv, TypeOK, Synced
  <1>3. SameRows
    BY NoneAssumption DEF SameRows, IInv, TypeOK
  <1>4. SameSnapshots
    <2>1. ASSUME NEW t \in Sessions, live'[t] # None, t # s
          PROVE  live'[t] = live[t]
      BY <2>1 DEF IInv, TypeOK
    <2>2. ASSUME live'[s] # None
          PROVE  live[s] # None /\ live'[s] = Snapshot(v)
      BY <2>2 DEF IInv, TypeOK, Synced
    <2>3. live[s] # None => live[s].value.status = v.status /\ live[s].value.runId = v.runId
      BY DEF IInv, SnapshotOfChain, ChainOnDisk
    <2>4. Snapshot(v).value = v
      BY SnapshotLive
    <2> QED BY <2>1, <2>2, <2>3, <2>4 DEF SameSnapshots
  <1> QED BY <1>1, <1>2, <1>3, <1>4

\* So is a flush that wrote, or that found nothing to write.
LEMMA RowFlushed ==
    ASSUME IInv, NEW s \in Sessions, disk[s] # None,
           disk' = [disk EXCEPT ![s] = Flushed(s)],
           live' \in {[live EXCEPT ![s] = AfterFlush(s)], [live EXCEPT ![s] = None]}
    PROVE  /\ disk' \in [Sessions -> HostSession \cup {None}]
           /\ live' \in [Sessions -> Live \cup {None}]
           /\ SameRows /\ SameSnapshots
  <1>1. disk' \in [Sessions -> HostSession \cup {None}] /\ SameRows
    BY FlushedRow, NoneAssumption DEF SameRows, IInv, TypeOK
  <1>2. CASE live' = [live EXCEPT ![s] = None]
    BY <1>1, <1>2 DEF SameSnapshots, IInv, TypeOK
  <1>3. CASE live' = [live EXCEPT ![s] = AfterFlush(s)]
    <2>1. CASE Dirty(s)
      <3>1. live[s] # None /\ live' = [live EXCEPT ![s] = Snapshot(Flushed(s))]
        BY <1>3, <2>1 DEF AfterFlush, Dirty
      <3> QED BY <3>1, FlushedRow, RowWritten
    <2>2. CASE ~Dirty(s) /\ live[s] # None
      <3>1. /\ [live[s] EXCEPT !.timer = FALSE] \in Live
            /\ [live[s] EXCEPT !.timer = FALSE].value = live[s].value
        BY <2>2, UntimedLive DEF IInv, TypeOK
      <3>2. live' = [live EXCEPT ![s] = [live[s] EXCEPT !.timer = FALSE]]
        <4>1. AfterFlush(s) = [live[s] EXCEPT !.timer = FALSE]
          BY <2>2 DEF AfterFlush
        <4> QED BY <1>3, <4>1
      <3>3. live' \in [Sessions -> Live \cup {None}]
        BY <3>1, <3>2 DEF IInv, TypeOK
      <3>4. /\ live'[s].value = live[s].value
            /\ \A t \in Sessions : t # s => live'[t] = live[t]
        BY <3>1, <3>2 DEF IInv, TypeOK
      <3>5. SameSnapshots
        BY <2>2, <3>4 DEF SameSnapshots
      <3> QED BY <1>1, <3>3, <3>5
    <2>3. CASE ~Dirty(s) /\ live[s] = None
      BY <1>1, <1>3, <2>3 DEF AfterFlush, SameSnapshots, IInv, TypeOK
    <2> QED BY <2>1, <2>2, <2>3
  <1> QED BY <1>2, <1>3

\* A transaction that throws leaves every snapshot with the session it held.
LEMMA ThrownFlush ==
    ASSUME IInv, NEW s \in Sessions, FlushThrows(s)
    PROVE  /\ live' \in [Sessions -> Live \cup {None}]
           /\ SameSnapshots
           /\ faults' \in Nat
  <1>1. live[s] \in Live
    BY DEF FlushThrows, Dirty, IInv, TypeOK
  <1>2. live' = [live EXCEPT ![s] = [live[s] EXCEPT !.timer = FALSE]]
    BY DEF FlushThrows
  <1>3. live' \in [Sessions -> Live \cup {None}]
    BY <1>1, <1>2, UntimedLive DEF IInv, TypeOK
  <1>4. /\ live'[s].value = live[s].value
        /\ \A t \in Sessions : t # s => live'[t] = live[t]
    BY <1>1, <1>2, UntimedLive DEF IInv, TypeOK
  <1>5. SameSnapshots
    BY <1>1, <1>4, NoneAssumption DEF SameSnapshots
  <1>6. faults' \in Nat
    BY DEF FlushThrows, Fault, IInv, TypeOK
  <1> QED BY <1>3, <1>5, <1>6

\* A promise chain that takes one step stays its session's chain.
LEMMA ChainWritten ==
    ASSUME IInv, NEW s \in Sessions, running[s] # None,
           NEW q \in Running, q.runId = running[s].runId,
           running' = [running EXCEPT ![s] = q], up' = up
    PROVE  running' \in [Sessions -> Running \cup {None}] /\ SameChains
  BY NoneAssumption DEF SameChains, IInv, TypeOK

\* The transaction of a command that starts no turn.
LEMMA AcceptedCommand ==
    ASSUME IInv, NEW c \in Commands, NEW s \in Sessions, disk[s] # None,
           NEW type \in AllCommandTypes,
           NEW v \in HostSession, v.status = disk[s].status, v.runId = disk[s].runId,
           Accept(c, s, type, v)
    PROVE  /\ receipts' \in [Commands -> Receipt \cup {None}]
           /\ disk' \in [Sessions -> HostSession \cup {None}]
           /\ live' \in [Sessions -> Live \cup {None}]
           /\ SameRows /\ SameSnapshots
  <1>1. [type |-> type, session |-> s, revision |-> Saved(v).revision] \in Receipt
    BY SavedSession DEF Receipt, HostSession
  <1>2. receipts' \in [Commands -> Receipt \cup {None}]
    BY <1>1 DEF Accept, IInv, TypeOK
  <1>3. /\ Saved(v) \in HostSession
        /\ Saved(v).status = disk[s].status /\ Saved(v).runId = disk[s].runId
    BY SavedSession
  <1>4. /\ disk' = [disk EXCEPT ![s] = Saved(v)]
        /\ live' = [live EXCEPT ![s] = Synced(s, Saved(v))]
    BY DEF Accept
  <1> QED BY <1>2, <1>3, <1>4, RowWritten

\* A session whose title, transcript or question is edited keeps status and turn.
LEMMA EditedSession ==
    ASSUME NEW v \in HostSession, NEW title \in Title, NEW blocks \in Transcript
    PROVE  /\ [v EXCEPT !.title = title] \in HostSession
           /\ [v EXCEPT !.title = title].status = v.status
           /\ [v EXCEPT !.title = title].runId = v.runId
           /\ [v EXCEPT !.question = 0] \in HostSession
           /\ [v EXCEPT !.question = 0].status = v.status
           /\ [v EXCEPT !.question = 0].runId = v.runId
           /\ [v EXCEPT !.title = title, !.blocks = blocks] \in HostSession
           /\ [v EXCEPT !.title = title, !.blocks = blocks].status = v.status
           /\ [v EXCEPT !.title = title, !.blocks = blocks].runId = v.runId
           /\ [v EXCEPT !.blocks = blocks] \in HostSession
           /\ [v EXCEPT !.blocks = blocks].status = v.status
           /\ [v EXCEPT !.blocks = blocks].runId = v.runId
  BY DEF HostSession

-----------------------------------------------------------------------------
(* The client's steps preserve IInv *)

\* Settings, drafts, decisions and answers are accepted with a session whose status and
\* turn are those of the row (command()).
LEMMA CommandAccepts ==
    ASSUME IInv, NEW c \in Commands, NEW s \in Sessions,
           \/ Configure(c, s)
           \/ Draft(c, s)
           \/ RemoveDraft(c, s)
           \/ \E r \in Commands, n \in Nat, decision \in {"allow", "deny"} :
                Approve(c, s, r, n, decision)
           \/ \E r \in Commands, n \in Nat : Answer(c, s, r, n)
    PROVE  /\ disk[s] # None
           /\ \E type \in AllCommandTypes, w \in HostSession :
                /\ w.status = disk[s].status /\ w.runId = disk[s].runId
                /\ Accept(c, s, type, w)
  <1>1. disk[s] # None
    BY DEF Configure, Draft, RemoveDraft, Approve, Answer, Names
  <1> DEFINE v == Flushed(s)
  <1>2. v \in HostSession /\ v.status = disk[s].status /\ v.runId = disk[s].runId
    BY <1>1, FlushedRow
  <1>3. \E type \in AllCommandTypes, w \in HostSession :
          /\ w.status = v.status /\ w.runId = v.runId
          /\ Accept(c, s, type, w)
    <2>1. CASE Configure(c, s)
      BY <1>2, <2>1 DEF Configure, AllCommandTypes
    <2>2. CASE Draft(c, s)
      <3> DEFINE draft == [role |-> "user", turn |-> None, by |-> c, n |-> 0, mark |-> "draft"]
                 title == IF v.blocks = {} THEN "prompt" ELSE v.title
      <3>1. v.blocks \cup {draft} \in Transcript
        BY <1>2 DEF HostSession, Transcript, Block, Run
      <3>2. title \in Title
        BY <1>2 DEF HostSession, Title
      <3>3. Accept(c, s, "draft", [v EXCEPT !.title = title, !.blocks = v.blocks \cup {draft}])
        BY <2>2 DEF Draft
      <3>4. "draft" \in AllCommandTypes
        BY DEF AllCommandTypes
      <3> HIDE DEF v, draft, title
      <3> PICK x : x = [v EXCEPT !.title = title, !.blocks = v.blocks \cup {draft}]
        OBVIOUS
      <3>5. x \in HostSession /\ x.status = v.status /\ x.runId = v.runId
        BY <1>2, <3>1, <3>2, EditedSession
      <3> QED BY <3>3, <3>4, <3>5
    <2>3. CASE RemoveDraft(c, s)
      <3>1. v.blocks \ Drafts(v) \in Transcript
        BY <1>2 DEF HostSession, Transcript
      <3>2. Accept(c, s, "removeDraft", [v EXCEPT !.blocks = v.blocks \ Drafts(v)])
        BY <2>3 DEF RemoveDraft
      <3>3. v.title \in Title /\ "removeDraft" \in AllCommandTypes
        BY <1>2 DEF HostSession, AllCommandTypes
      <3> HIDE DEF v
      <3> QED BY <1>2, <3>1, <3>2, <3>3, EditedSession
    <2>4. ASSUME NEW r \in Commands, NEW n \in Nat, NEW decision \in {"allow", "deny"},
                 Approve(c, s, r, n, decision)
          PROVE  \E type \in AllCommandTypes, w \in HostSession :
                   /\ w.status = v.status /\ w.runId = v.runId
                   /\ Accept(c, s, type, w)
      <3>1. Accept(c, s, "approve", Decided(v, n, decision)) /\ "approve" \in AllCommandTypes
        BY <2>4 DEF Approve, AllCommandTypes
      <3> HIDE DEF v
      <3> QED BY <1>2, <3>1, DecidedSession
    <2>5. ASSUME NEW r \in Commands, NEW n \in Nat, Answer(c, s, r, n)
          PROVE  \E type \in AllCommandTypes, w \in HostSession :
                   /\ w.status = v.status /\ w.runId = v.runId
                   /\ Accept(c, s, type, w)
      <3>1. Accept(c, s, "answer", [v EXCEPT !.question = 0]) /\ "answer" \in AllCommandTypes
        BY <2>5 DEF Answer, AllCommandTypes
      <3>2. v.title \in Title /\ v.blocks \in Transcript
        BY <1>2 DEF HostSession
      <3> HIDE DEF v
      <3> QED BY <1>2, <3>1, <3>2, EditedSession
    <2> QED BY <2>1, <2>2, <2>3, <2>4, <2>5
  <1> QED BY <1>1, <1>2, <1>3

\* ... so they end and start no turn.
LEMMA CommandPreserves ==
    ASSUME IInv, NEW c \in Commands, NEW s \in Sessions,
           \/ Configure(c, s)
           \/ Draft(c, s)
           \/ RemoveDraft(c, s)
           \/ \E r \in Commands, n \in Nat, decision \in {"allow", "deny"} :
                Approve(c, s, r, n, decision)
           \/ \E r \in Commands, n \in Nat : Answer(c, s, r, n)
    PROVE  IInv'
  <1>1. /\ receipts' \in [Commands -> Receipt \cup {None}]
        /\ disk' \in [Sessions -> HostSession \cup {None}]
        /\ live' \in [Sessions -> Live \cup {None}]
        /\ SameRows /\ SameSnapshots
    BY CommandAccepts, AcceptedCommand
  <1>2. /\ UNCHANGED <<retired, up, closing, running, switching, naming, provider, bounds,
                       emitted, dispatched, prompted, accepted>>
        /\ \/ UNCHANGED answered
           \/ \E r \in Commands, n \in Nat : Answered(c, s, r, n)
    BY DEF Configure, Draft, RemoveDraft, Approve, Answer, history
  <1>3. answered' \subseteq [command : Commands, run : Commands, n : Nat, to : Run]
    <2>1. prov[s].phase = "turn" => prov[s].run \in Run
      BY StartedProv DEF IInv, TypeOK, Phase, Run
    <2> QED BY <1>2, <2>1 DEF Answered, IInv, TypeOK, Run
  <1>4. SameChains
    BY <1>2 DEF SameChains
  <1>5. TypeOK'
    BY <1>1, <1>2, <1>3 DEF IInv, TypeOK, provider, bounds
  <1> QED BY <1>1, <1>4, <1>5, QuietStep DEF IInv

\* A cancel marks the chain and mutes the adapter, or leaves a mark.
LEMMA CancelPreserves ==
    ASSUME IInv, NEW c \in Commands, NEW s \in Sessions, NEW r \in Commands, Cancel(c, s, r)
    PROVE  IInv'
  <1>1. disk[s] # None /\ Accept(c, s, "cancel", Flushed(s)) /\ "cancel" \in AllCommandTypes
    BY DEF Cancel, Names, AllCommandTypes
  <1>2. /\ receipts' \in [Commands -> Receipt \cup {None}]
        /\ disk' \in [Sessions -> HostSession \cup {None}]
        /\ live' \in [Sessions -> Live \cup {None}]
        /\ SameRows /\ SameSnapshots
    BY <1>1, FlushedRow, AcceptedCommand
  <1>3. running' \in [Sessions -> Running \cup {None}] /\ SameChains
    <2>1. CASE running[s] = None
      BY <2>1 DEF Cancel, SameChains, IInv, TypeOK
    <2>2. CASE running[s] # None
      <3>1. running[s] \in Running
        BY <2>2 DEF IInv, TypeOK
      <3>2. /\ [running[s] EXCEPT !.cancelled = TRUE] \in Running
            /\ [running[s] EXCEPT !.cancelled = TRUE].runId = running[s].runId
        BY <3>1, MovedChain DEF Stage, Run
      <3>3. /\ running' = [running EXCEPT ![s] = [running[s] EXCEPT !.cancelled = TRUE]]
            /\ up' = up
        BY <2>2 DEF Cancel
      <3> QED BY <2>2, <3>2, <3>3, ChainWritten
    <2> QED BY <2>1, <2>2
  <1>4. prov' \in [Sessions -> Prov] /\ marks' \subseteq Sessions
    <2>1. prov[s].phase = "turn" => [prov[s] EXCEPT !.phase = "muted"] \in Prov
      BY StartedProv DEF IInv, TypeOK, Phase
    <2> QED BY <2>1 DEF Cancel, IInv, TypeOK
  <1>5. UNCHANGED <<retired, up, closing, switching, naming, child, dying, sinks, history, bounds>>
    BY DEF Cancel
  <1>6. TypeOK'
    BY <1>2, <1>3, <1>4, <1>5 DEF IInv, TypeOK, history, bounds
  <1> QED BY <1>2, <1>3, <1>6, QuietStep DEF IInv

\* A rejected command, a failed flush, a title edit and a generated title end and
\* start no turn.
LEMMA WritePreserves ==
    ASSUME IInv, NEW s \in Sessions,
           CommandFails(s) \/ CommandFlushThrows(s) \/ UpdateSession(s) \/ TitleGenerated(s)
    PROVE  IInv'
  <1> DEFINE Edit(title) == Saved([Flushed(s) EXCEPT !.title = title])
  <1>1. ASSUME disk[s] # None, NEW title \in {"manual", "generated"}
        PROVE  /\ Edit(title) \in HostSession
               /\ Edit(title).status = disk[s].status
               /\ Edit(title).runId = disk[s].runId
    <2>1. title \in Title
      BY DEF Title
    <2>2. Flushed(s).blocks \in Transcript
      BY <1>1, FlushedRow DEF HostSession
    <2> DEFINE w == [Flushed(s) EXCEPT !.title = title]
    <2>3. w \in HostSession /\ w.status = disk[s].status /\ w.runId = disk[s].runId
      BY <1>1, <2>1, <2>2, FlushedRow, EditedSession
    <2>4. Edit(title) = Saved(w)
      OBVIOUS
    <2> HIDE DEF w, Edit
    <2> QED BY <2>3, <2>4, SavedSession
  <1> HIDE DEF Edit
  <1>2. \/ /\ disk[s] # None /\ disk' = [disk EXCEPT ![s] = Flushed(s)]
           /\ live' = [live EXCEPT ![s] = AfterFlush(s)]
           /\ UNCHANGED faults
        \/ /\ disk[s] # None
           /\ \E title \in {"manual", "generated"} :
                /\ disk' = [disk EXCEPT ![s] = Edit(title)]
                /\ live' = [live EXCEPT ![s] = Synced(s, Edit(title))]
           /\ UNCHANGED faults
        \/ FlushThrows(s) /\ UNCHANGED disk
        \/ UNCHANGED <<disk, live, faults>>
    <2>1. CASE CommandFails(s)
      <3>1. AfterFlush(s) = Snapshot(Flushed(s))
        BY <2>1 DEF CommandFails, AfterFlush
      <3>2. disk[s] # None
        BY <2>1 DEF CommandFails, Dirty, IInv, SnapshotOfChain, ChainOnDisk
      <3> QED BY <2>1, <3>1, <3>2 DEF CommandFails, bounds
    <2>2. CASE CommandFlushThrows(s)
      BY <2>2 DEF CommandFlushThrows, database
    <2>3. CASE UpdateSession(s)
      BY <2>3 DEF UpdateSession, Edit
    <2>4. CASE TitleGenerated(s)
      BY <2>4 DEF TitleGenerated, Edit
    <2> QED BY <2>1, <2>2, <2>3, <2>4
  <1>3. /\ disk' \in [Sessions -> HostSession \cup {None}]
        /\ live' \in [Sessions -> Live \cup {None}]
        /\ faults' \in Nat
        /\ SameRows /\ SameSnapshots
    <2>1. CASE UNCHANGED disk /\ (FlushThrows(s) \/ UNCHANGED <<live, faults>>)
      <3>1. disk' \in [Sessions -> HostSession \cup {None}] /\ SameRows
        BY <2>1 DEF SameRows, IInv, TypeOK
      <3>2. CASE FlushThrows(s)
        BY <3>1, <3>2, ThrownFlush
      <3>3. CASE UNCHANGED <<live, faults>>
        BY <3>1, <3>3 DEF SameSnapshots, IInv, TypeOK
      <3> QED BY <2>1, <3>2, <3>3
    <2>2. CASE /\ disk[s] # None /\ disk' = [disk EXCEPT ![s] = Flushed(s)]
               /\ live' = [live EXCEPT ![s] = AfterFlush(s)]
               /\ UNCHANGED faults
      BY <2>2, RowFlushed DEF IInv, TypeOK
    <2>3. CASE /\ disk[s] # None
               /\ \E title \in {"manual", "generated"} :
                    /\ disk' = [disk EXCEPT ![s] = Edit(title)]
                    /\ live' = [live EXCEPT ![s] = Synced(s, Edit(title))]
               /\ UNCHANGED faults
      BY <1>1, <2>3, RowWritten DEF IInv, TypeOK
    <2> QED BY <1>2, <2>1, <2>2, <2>3
  <1>4. /\ UNCHANGED <<receipts, retired, up, closing, running, switching, provider, history,
                       crashes>>
        /\ naming' \subseteq Sessions /\ renames' \in Nat
    <2>1. UNCHANGED <<receipts, retired, up, closing, running, switching, provider, history,
                      crashes>>
      BY DEF CommandFails, CommandFlushThrows, UpdateSession, TitleGenerated, database, bounds
    <2>2. naming' \subseteq Sessions /\ renames' \in Nat
      BY DEF CommandFails, CommandFlushThrows, UpdateSession, TitleGenerated, bounds, IInv, TypeOK
    <2> QED BY <2>1, <2>2
  <1>5. SameChains
    BY <1>4 DEF SameChains
  <1>6. TypeOK'
    BY <1>3, <1>4 DEF IInv, TypeOK, provider, history
  <1> QED BY <1>3, <1>5, <1>6, QuietStep DEF IInv

\* A new session has no turn yet, so nothing of it is in the engine's memory.
LEMMA CreatePreserves ==
    ASSUME IInv, NEW c \in Commands, NEW s \in Sessions, NEW p \in Projects, Create(c, s, p)
    PROVE  IInv'
  <1> DEFINE v == Saved(NewSession(p))
  <1>1. NewSession(p) \in HostSession /\ NewSession(p).status = "idle"
    BY DEF NewSession, HostSession, Run, Status, Title, Transcript
  <1>2. v \in HostSession /\ v.status = "idle"
    BY <1>1, SavedSession
  <1>3. running[s] = None /\ live[s] = None
    BY DEF Create, IInv, ChainOnDisk, SnapshotOfChain
  <1>4. /\ disk' = [disk EXCEPT ![s] = v]
        /\ receipts' = [receipts EXCEPT ![c] =
                          [type |-> "create", session |-> s, revision |-> v.revision]]
        /\ live' = [live EXCEPT ![s] = None]
    BY <1>3 DEF Create, Accept, Synced
  <1>5. UNCHANGED <<retired, up, closing, running, switching, naming, provider, history, bounds>>
    BY DEF Create
  <1> HIDE DEF v
  <1>6. [type |-> "create", session |-> s, revision |-> v.revision] \in Receipt
    BY <1>2 DEF Receipt, AllCommandTypes, HostSession
  <1>7. TypeOK'
    BY <1>2, <1>4, <1>5, <1>6 DEF IInv, TypeOK, provider, history, bounds
  <1>8. ChainOnDisk'
    BY <1>2, <1>3, <1>4, <1>5 DEF IInv, TypeOK, ChainOnDisk
  <1>9. SnapshotOfChain'
    BY <1>4, <1>5 DEF IInv, TypeOK, SnapshotOfChain
  <1>10. RowHasChain'
    BY <1>2, <1>4, <1>5 DEF IInv, TypeOK, RowHasChain
  <1> QED BY <1>7, <1>8, <1>9, <1>10 DEF IInv

\* A send starts one turn: its row, its chain and its snapshot agree from the start.
LEMMA SendPreserves ==
    ASSUME IInv, NEW c \in Commands, NEW s \in Sessions, NEW type, NEW draft, NEW plan,
           Send(c, s, type, draft, plan)
    PROVE  IInv'
  <1> DEFINE v == Saved(Started(Flushed(s), c, type, plan))
  <1>1. v \in HostSession /\ v.status = "running" /\ v.runId = c
    <2>1. Flushed(s) \in HostSession
      BY FlushedRow DEF Send
    <2>2. /\ Started(Flushed(s), c, type, plan) \in HostSession
          /\ Started(Flushed(s), c, type, plan).status = "running"
          /\ Started(Flushed(s), c, type, plan).runId = c
      BY <2>1, StartedSession
    <2> QED BY <2>2, SavedSession
  <1>2. /\ up
        /\ disk' = [disk EXCEPT ![s] = v]
        /\ receipts' = [receipts EXCEPT ![c] =
                          [type |-> type, session |-> s, revision |-> v.revision]]
        /\ live' = [live EXCEPT ![s] = Snapshot(v)]
        /\ running' = [running EXCEPT ![s] = Queued(c)]
        /\ naming' \in {naming, naming \cup {s}}
        /\ type \in AllCommandTypes
    BY DEF Send, Fresh, EventLoop, AllCommandTypes
  <1>3. UNCHANGED <<retired, up, closing, switching, provider, history, bounds>>
    BY DEF Send
  <1> HIDE DEF v
  <1>4. [type |-> type, session |-> s, revision |-> v.revision] \in Receipt
    BY <1>1, <1>2 DEF Receipt, HostSession
  <1>5. Queued(c) \in Running /\ Queued(c).runId = c
    BY DEF Queued, Running, Stage, Run
  <1>6. Snapshot(v) \in Live /\ Snapshot(v).value = v
    BY <1>1, SnapshotLive
  <1>7. TypeOK'
    BY <1>1, <1>2, <1>3, <1>4, <1>5, <1>6 DEF IInv, TypeOK, provider, history, bounds
  <1>8. ChainOnDisk'
    BY <1>1, <1>2, <1>3, <1>5, NoneAssumption DEF IInv, TypeOK, ChainOnDisk
  <1>9. SnapshotOfChain'
    BY <1>1, <1>2, <1>3, <1>5, <1>6, NoneAssumption DEF IInv, TypeOK, SnapshotOfChain
  <1>10. RowHasChain'
    BY <1>2, <1>3, <1>5, NoneAssumption DEF IInv, TypeOK, RowHasChain
  <1> QED BY <1>7, <1>8, <1>9, <1>10 DEF IInv

\* A session that is deleted has no turn, and a switch of branches starts none.
LEMMA DeletePreserves ==
    ASSUME IInv, NEW s \in Sessions, DeleteSession(s)
    PROVE  IInv'
  <1>1. /\ disk' = [disk EXCEPT ![s] = None]
        /\ retired' = retired \cup {s}
        /\ UNCHANGED <<receipts, engine, provider, history, bounds>>
        /\ running[s] = None
    BY DEF DeleteSession, Retire, IInv, ChainOnDisk
  <1>2. TypeOK'
    BY <1>1 DEF IInv, TypeOK, engine, provider, history, bounds
  <1>3. ChainOnDisk' /\ SnapshotOfChain' /\ RowHasChain'
    BY <1>1 DEF IInv, TypeOK, engine, ChainOnDisk, SnapshotOfChain, RowHasChain
  <1> QED BY <1>2, <1>3 DEF IInv

LEMMA SwitchPreserves ==
    ASSUME IInv, NEW p \in Projects, BeginSwitch(p) \/ EndSwitch(p)
    PROVE  IInv'
  <1>1. /\ switching' \subseteq Projects
        /\ UNCHANGED <<database, up, closing, running, live, naming, provider, history, bounds>>
    BY DEF BeginSwitch, EndSwitch, IInv, TypeOK
  <1>2. TypeOK'
    BY <1>1 DEF IInv, TypeOK, database, provider, history, bounds
  <1>3. SameChains /\ SameRows /\ SameSnapshots
    BY <1>1 DEF SameChains, SameRows, SameSnapshots, database
  <1> QED BY <1>2, <1>3, QuietStep DEF IInv

-----------------------------------------------------------------------------
(* The steps of a turn preserve IInv *)

\* What leaves rows, snapshots and chains alone preserves IInv when it preserves types.
LEMMA ChainStep ==
    ASSUME IInv, TypeOK', SameChains, UNCHANGED <<disk, live>>
    PROVE  IInv'
  <1>1. SameRows /\ SameSnapshots
    BY DEF SameRows, SameSnapshots
  <1> QED BY <1>1, QuietStep DEF IInv

\* A turn that starts, and one whose adapter is done, only move along their chain.
LEMMA StartPreserves ==
    ASSUME IInv, NEW s \in Sessions, StartTurn(s) \/ SendSettles(s) \/ RetryFires(s)
    PROVE  IInv'
  <1>1. running[s] # None /\ running[s] \in Running /\ running[s].runId \in Commands
    BY DEF StartTurn, SendSettles, RetryFires, IInv, TypeOK, Running
  <1>2. /\ UNCHANGED <<database, up, closing, live, switching, naming,
                       emitted, prompted, accepted, answered, bounds>>
    BY DEF StartTurn, SendSettles, RetryFires, history
  <1>3. \E at \in Stage, error \in BOOLEAN, wait \in Run :
          running' \in {[running EXCEPT ![s] = [running[s] EXCEPT !.at = at]],
                        [running EXCEPT ![s] = [running[s] EXCEPT !.at = at, !.wait = wait]],
                        [running EXCEPT ![s] = [running[s] EXCEPT !.at = at, !.error = error,
                                                                  !.wait = wait]]}
    <2>1. child[s] \in Run /\ (SendSettles(s) => prov[s].error \in BOOLEAN)
      BY StartedProv DEF SendSettles, IInv, TypeOK, Phase
    <2>2. CASE StartTurn(s)
      <3>1. \/ running' = [running EXCEPT ![s] = [running[s] EXCEPT !.at = "sending"]]
            \/ running' = [running EXCEPT ![s] = [running[s] EXCEPT !.at = "stopping",
                                                    !.error = FALSE, !.wait = child[s]]]
        BY <2>2 DEF StartTurn, Await
      <3> QED BY <2>1, <3>1 DEF Stage
    <2>3. CASE SendSettles(s)
      <3>1. running' = [running EXCEPT ![s] = [running[s] EXCEPT !.at = "stopping",
                                                 !.error = prov[s].error, !.wait = child[s]]]
        BY <2>3 DEF SendSettles
      <3> QED BY <2>1, <2>3, <3>1 DEF Stage
    <2>4. CASE RetryFires(s)
      <3>1. running' = [running EXCEPT ![s] = [running[s] EXCEPT !.at = "retryStopping",
                                                 !.wait = child[s]]]
        BY <2>4 DEF RetryFires
      <3> QED BY <2>1, <3>1 DEF Stage
    <2> QED BY <2>2, <2>3, <2>4
  <1>4. running' \in [Sessions -> Running \cup {None}] /\ SameChains
    <2>1. \E q \in Running : /\ q.runId = running[s].runId
                              /\ running' = [running EXCEPT ![s] = q]
      <3>1. PICK at \in Stage, error \in BOOLEAN, wait \in Run :
              running' \in {[running EXCEPT ![s] = [running[s] EXCEPT !.at = at]],
                            [running EXCEPT ![s] = [running[s] EXCEPT !.at = at, !.wait = wait]],
                            [running EXCEPT ![s] = [running[s] EXCEPT !.at = at,
                                                      !.error = error, !.wait = wait]]}
        BY <1>3
      <3> DEFINE q1 == [running[s] EXCEPT !.at = at]
                 q2 == [running[s] EXCEPT !.at = at, !.wait = wait]
                 q3 == [running[s] EXCEPT !.at = at, !.error = error, !.wait = wait]
      <3>2. /\ q1 \in Running /\ q1.runId = running[s].runId
            /\ q2 \in Running /\ q2.runId = running[s].runId
            /\ q3 \in Running /\ q3.runId = running[s].runId
        BY <1>1 DEF Running
      <3>3. running' \in {[running EXCEPT ![s] = q1], [running EXCEPT ![s] = q2],
                          [running EXCEPT ![s] = q3]}
        BY <3>1
      <3> HIDE DEF q1, q2, q3
      <3> QED BY <3>2, <3>3
    <2>2. up' = up
      BY <1>2
    <2> QED BY <1>1, <2>1, <2>2, ChainWritten
  <1>5. /\ prov' \in [Sessions -> Prov] /\ child' \in [Sessions -> Run]
        /\ dying' \in [Sessions -> SUBSET Commands] /\ marks' \subseteq Sessions
    <2>1. CASE StopProvider({s})
      BY <2>1, StoppedProvider DEF IInv
    <2>2. CASE /\ prov' = [prov EXCEPT ![s] = [phase |-> "launching",
                                               run |-> running[s].runId, error |-> FALSE]]
               /\ UNCHANGED <<child, dying, marks>>
      <3>1. [phase |-> "launching", run |-> running[s].runId, error |-> FALSE] \in Prov
        BY <1>1 DEF Prov, Phase, Run
      <3> QED BY <2>2, <3>1 DEF IInv, TypeOK
    <2>3. CASE SendSettles(s)
      <3>1. IdleProv \in Prov
        BY DEF IdleProv, Prov, Phase, Run
      <3> QED BY <2>3, <3>1 DEF SendSettles, Retire, IInv, TypeOK, Run
    <2> QED BY <2>1, <2>2, <2>3 DEF StartTurn, Await, RetryFires
  <1>6. sinks' \subseteq Commands /\ dispatched' \in [Commands -> Nat]
    <2>1. CASE UNCHANGED <<sinks, dispatched>>
      BY <2>1 DEF IInv, TypeOK
    <2>2. CASE /\ sinks' = sinks \cup {running[s].runId}
               /\ dispatched' = [dispatched EXCEPT ![running[s].runId] = @ + 1]
      BY <1>1, <2>2 DEF IInv, TypeOK
    <2>3. StartTurn(s) => \/ UNCHANGED <<sinks, dispatched>>
                          \/ /\ sinks' = sinks \cup {running[s].runId}
                             /\ dispatched' = [dispatched EXCEPT ![running[s].runId] = @ + 1]
      BY DEF StartTurn
    <2>4. SendSettles(s) \/ RetryFires(s) => UNCHANGED <<sinks, dispatched>>
      BY DEF SendSettles, RetryFires, history
    <2> QED BY <2>1, <2>2, <2>3, <2>4
  <1>7. TypeOK'
    BY <1>2, <1>4, <1>5, <1>6 DEF IInv, TypeOK, database, bounds
  <1> QED BY <1>2, <1>4, <1>7, ChainStep DEF database

\* A settlement writes the row's last turn as over and forgets its chain.
LEMMA SettlePreserves ==
    ASSUME IInv, NEW s \in Sessions, FinishTurn(s) \/ RetrySettles(s)
    PROVE  IInv'
  <1>1. /\ running[s] # None /\ disk[s] # None
        /\ disk[s].status = "running" /\ disk[s].runId = running[s].runId
    BY DEF FinishTurn, RetrySettles, IInv, ChainOnDisk
  <1> DEFINE latest == Flushed(s)
  <1>2. /\ latest \in HostSession
        /\ latest.status = "running" /\ latest.runId = running[s].runId
    BY <1>1, FlushedRow
  <1>3. PICK status \in {"idle", "interrupted"},
             message \in {"-", "stopped", "error", "storage", "closed", "restarted"} :
          disk' = [disk EXCEPT ![s] = Saved(Settled(latest, status, message))]
    <2>1. CASE FinishTurn(s)
      <3>1. disk' = [disk EXCEPT ![s] = Saved(Settled(latest, Outcome(s)[1], Outcome(s)[2]))]
        BY <1>2, <2>1 DEF FinishTurn
      <3>2. Outcome(s) \in {<<"interrupted", "closed">>, <<"interrupted", "storage">>,
                            <<"idle", "stopped">>, <<"idle", "error">>, <<"idle", "-">>}
        BY DEF Outcome
      <3>3. /\ Outcome(s)[1] \in {"idle", "interrupted"}
            /\ Outcome(s)[2] \in {"-", "stopped", "error", "storage", "closed", "restarted"}
        BY <3>2
      <3> QED BY <3>1, <3>3
    <2>2. CASE RetrySettles(s)
      <3>1. disk' = [disk EXCEPT ![s] = Saved(Settled(latest, "interrupted", "storage"))]
        BY <1>2, <2>2 DEF RetrySettles
      <3> QED BY <3>1
    <2> QED BY <2>1, <2>2
  <1> DEFINE v == Saved(Settled(latest, status, message))
  <1> HIDE DEF latest
  <1>4. v \in HostSession /\ v.status = status
    BY <1>2, SettledSession, SavedSession
  <1>5. /\ live' = [live EXCEPT ![s] = None]
        /\ running' = [running EXCEPT ![s] = None]
        /\ UNCHANGED <<receipts, retired, up, closing, switching, naming, provider,
                       history, bounds>>
    BY DEF FinishTurn, RetrySettles, Retire
  <1>6. disk' = [disk EXCEPT ![s] = v]
    BY <1>3
  <1> HIDE DEF v
  <1>7. TypeOK'
    BY <1>4, <1>5, <1>6 DEF IInv, TypeOK, provider, history, bounds
  <1>8. ChainOnDisk' /\ SnapshotOfChain'
    BY <1>5, <1>6 DEF IInv, TypeOK, ChainOnDisk, SnapshotOfChain
  <1>9. RowHasChain'
    BY <1>4, <1>5, <1>6 DEF IInv, TypeOK, RowHasChain
  <1> QED BY <1>7, <1>8, <1>9 DEF IInv

\* A settlement that fails keeps its chain for the retry.
LEMMA FailurePreserves ==
    ASSUME IInv, NEW s \in Sessions, FinishTurnFails(s) \/ RetryFails(s)
    PROVE  IInv'
  <1>1. /\ running[s] # None /\ running[s] \in Running /\ disk[s] # None
    BY DEF FinishTurnFails, RetryFails, IInv, TypeOK, ChainOnDisk
  <1>2. /\ disk' \in [Sessions -> HostSession \cup {None}]
        /\ live' \in [Sessions -> Live \cup {None}]
        /\ faults' \in Nat
        /\ SameRows /\ SameSnapshots
    <2>1. CASE FlushThrows(s) /\ UNCHANGED disk
      BY <2>1, ThrownFlush DEF SameRows, IInv, TypeOK
    <2>2. CASE /\ Fault
               /\ disk' = [disk EXCEPT ![s] = Flushed(s)]
               /\ live' \in {[live EXCEPT ![s] = AfterFlush(s)], [live EXCEPT ![s] = None]}
      <3>1. faults' \in Nat
        BY <2>2 DEF Fault, IInv, TypeOK
      <3> QED BY <1>1, <2>2, <3>1, RowFlushed
    <2> QED BY <2>1, <2>2 DEF FinishTurnFails, RetryFails, Retire
  <1>3. running' \in [Sessions -> Running \cup {None}] /\ SameChains
    <2>1. PICK at \in Stage : running' = [running EXCEPT ![s] = [running[s] EXCEPT !.at = at]]
      BY DEF FinishTurnFails, RetryFails, Retrying, Stage
    <2>2. /\ [running[s] EXCEPT !.at = at] \in Running
          /\ [running[s] EXCEPT !.at = at].runId = running[s].runId
      BY <1>1, MovedChain DEF Run
    <2>3. up' = up
      BY DEF FinishTurnFails, RetryFails
    <2> QED BY <1>1, <2>1, <2>2, <2>3, ChainWritten
  <1>4. /\ prov' \in [Sessions -> Prov] /\ child' \in [Sessions -> Run]
        /\ dying' \in [Sessions -> SUBSET Commands] /\ marks' \subseteq Sessions
    <2>1. CASE StopProvider({s})
      BY <2>1, StoppedProvider DEF IInv
    <2>2. CASE UNCHANGED provider
      BY <2>2 DEF provider, IInv, TypeOK
    <2> QED BY <2>1, <2>2 DEF FinishTurnFails, RetryFails
  <1>5. UNCHANGED <<receipts, retired, up, closing, switching, naming, sinks, history,
                    crashes, renames>>
    BY DEF FinishTurnFails, RetryFails, provider
  <1>6. TypeOK'
    BY <1>2, <1>3, <1>4, <1>5 DEF IInv, TypeOK, history
  <1> QED BY <1>2, <1>3, <1>6, QuietStep DEF IInv

\* A batch of output is written, or its write throws and the provider is stopped.
LEMMA TimerPreserves ==
    ASSUME IInv, NEW s \in Sessions, TimerFlush(s) \/ TimerFlushThrows(s)
    PROVE  IInv'
  <1>1. CASE TimerFlush(s)
    <2>1. disk[s] # None
      BY <1>1 DEF TimerFlush, IInv, SnapshotOfChain, ChainOnDisk
    <2>2. /\ disk' \in [Sessions -> HostSession \cup {None}]
          /\ live' \in [Sessions -> Live \cup {None}]
          /\ SameRows /\ SameSnapshots
      BY <1>1, <2>1, RowFlushed DEF TimerFlush
    <2>3. UNCHANGED <<receipts, retired, up, closing, running, switching, naming,
                      provider, history, bounds>>
      BY <1>1 DEF TimerFlush
    <2>4. TypeOK' /\ SameChains
      BY <2>2, <2>3 DEF IInv, TypeOK, provider, history, bounds, SameChains
    <2> QED BY <2>2, <2>4, QuietStep DEF IInv
  <1>2. CASE TimerFlushThrows(s)
    <2>1. /\ live' \in [Sessions -> Live \cup {None}]
          /\ SameSnapshots
          /\ faults' \in Nat
      BY <1>2, ThrownFlush DEF TimerFlushThrows
    <2>2. running' \in [Sessions -> Running \cup {None}] /\ SameChains
      <3>1. CASE running[s] = None
        BY <1>2, <3>1 DEF TimerFlushThrows, SameChains, IInv, TypeOK
      <3>2. CASE running[s] # None
        <4>1. running[s] \in Running
          BY <3>2 DEF IInv, TypeOK
        <4>2. /\ [running[s] EXCEPT !.persistenceFailed = TRUE] \in Running
              /\ [running[s] EXCEPT !.persistenceFailed = TRUE].runId = running[s].runId
          BY <4>1, MovedChain DEF Stage, Run
        <4>3. /\ running' = [running EXCEPT ![s] =
                               [running[s] EXCEPT !.persistenceFailed = TRUE]]
              /\ up' = up
          BY <1>2, <3>2 DEF TimerFlushThrows
        <4> QED BY <3>2, <4>2, <4>3, ChainWritten
      <3> QED BY <3>1, <3>2
    <2>3. /\ prov' \in [Sessions -> Prov] /\ child' \in [Sessions -> Run]
          /\ dying' \in [Sessions -> SUBSET Commands] /\ marks' \subseteq Sessions
      BY <1>2, StoppedProvider DEF TimerFlushThrows, IInv
    <2>4. UNCHANGED <<database, up, closing, switching, naming, sinks, history,
                      crashes, renames>>
      BY <1>2 DEF TimerFlushThrows
    <2>5. TypeOK' /\ SameRows
      BY <2>1, <2>2, <2>3, <2>4 DEF IInv, TypeOK, database, history, SameRows
    <2> QED BY <2>1, <2>2, <2>5, QuietStep DEF IInv
  <1> QED BY <1>1, <1>2

-----------------------------------------------------------------------------
(* Output, the provider and the host preserve IInv *)

\* An event changes the transcript of a snapshot; an urgent one also its row.
LEMMA EventPreserves ==
    ASSUME IInv, NEW s \in Sessions, NEW r \in Commands, NEW kind \in AllEventKinds,
           ProviderEvent(s, r, kind)
    PROVE  IInv'
  <1> DEFINE n == emitted[r] + 1
             v == Applied(live[s].value, r, n, kind)
  <1>1. /\ live[s] # None /\ live[s].value \in HostSession
        /\ disk[s] # None /\ running[s] # None
        /\ live[s].value.status = disk[s].status /\ live[s].value.runId = disk[s].runId
        /\ n \in Nat
    BY DEF ProviderEvent, Listens, IInv, TypeOK, Live, ChainOnDisk, SnapshotOfChain
  <1>2. v \in HostSession /\ v.status = disk[s].status /\ v.runId = disk[s].runId
    BY <1>1, AppliedSession
  <1>3. /\ emitted' = [emitted EXCEPT ![r] = n]
        /\ accepted' = accepted \cup {<<s, r, n, kind>>}
        /\ UNCHANGED <<receipts, retired, up, closing, switching, naming, sinks,
                       dispatched, prompted, answered, crashes, renames>>
    BY DEF ProviderEvent
  <1>4. \/ /\ live' = [live EXCEPT ![s] = [value |-> v, dirty |-> TRUE, timer |-> TRUE]]
           /\ UNCHANGED <<disk, running, prov, child, dying, marks, faults>>
        \/ /\ disk' = [disk EXCEPT ![s] = Saved(v)]
           /\ live' = [live EXCEPT ![s] = Snapshot(Saved(v))]
           /\ UNCHANGED <<running, prov, child, dying, marks, faults>>
        \/ /\ Fault
           /\ live' = [live EXCEPT ![s] = [value |-> v, dirty |-> TRUE, timer |-> FALSE]]
           /\ running' = [running EXCEPT ![s].persistenceFailed = TRUE]
           /\ StopProvider({s})
           /\ UNCHANGED disk
    BY <1>1 DEF ProviderEvent
  <1> HIDE DEF n, v
  <1>5. /\ emitted' \in [Commands -> Nat]
        /\ accepted' \subseteq Sessions \X Commands \X Nat \X AllEventKinds
    BY <1>1, <1>3 DEF IInv, TypeOK
  <1>6. ASSUME NEW timer \in BOOLEAN, UNCHANGED disk,
               live' = [live EXCEPT ![s] = [value |-> v, dirty |-> TRUE, timer |-> timer]]
        PROVE  /\ disk' \in [Sessions -> HostSession \cup {None}]
               /\ live' \in [Sessions -> Live \cup {None}]
               /\ SameRows /\ SameSnapshots
    <2> DEFINE w == [value |-> v, dirty |-> TRUE, timer |-> timer]
    <2>1. w \in Live /\ w.value = v
      BY <1>2 DEF Live
    <2>2. live' = [live EXCEPT ![s] = w]
      BY <1>6
    <2> HIDE DEF w
    <2>3. live' \in [Sessions -> Live \cup {None}]
      BY <2>1, <2>2 DEF IInv, TypeOK
    <2>4. live'[s].value = v /\ \A t \in Sessions : t # s => live'[t] = live[t]
      BY <2>1, <2>2 DEF IInv, TypeOK
    <2>5. SameSnapshots
      BY <1>1, <1>2, <2>4 DEF SameSnapshots
    <2> QED BY <1>6, <2>3, <2>5 DEF SameRows, IInv, TypeOK
  <1>7. CASE /\ live' = [live EXCEPT ![s] = [value |-> v, dirty |-> TRUE, timer |-> TRUE]]
             /\ UNCHANGED <<disk, running, prov, child, dying, marks, faults>>
    <2>1. SameChains
      BY <1>3, <1>7 DEF SameChains
    <2>2. TypeOK'
      BY <1>3, <1>5, <1>6, <1>7 DEF IInv, TypeOK
    <2> QED BY <1>6, <1>7, <2>1, <2>2, QuietStep DEF IInv
  <1>8. CASE /\ disk' = [disk EXCEPT ![s] = Saved(v)]
             /\ live' = [live EXCEPT ![s] = Snapshot(Saved(v))]
             /\ UNCHANGED <<running, prov, child, dying, marks, faults>>
    <2>1. /\ disk' \in [Sessions -> HostSession \cup {None}]
          /\ live' \in [Sessions -> Live \cup {None}]
          /\ SameRows /\ SameSnapshots
      <3>1. /\ Saved(v) \in HostSession
            /\ Saved(v).status = disk[s].status /\ Saved(v).runId = disk[s].runId
        BY <1>2, SavedSession
      <3> QED BY <1>1, <1>8, <3>1, RowWritten
    <2>2. SameChains
      BY <1>3, <1>8 DEF SameChains
    <2>3. TypeOK'
      BY <1>3, <1>5, <1>8, <2>1 DEF IInv, TypeOK
    <2> QED BY <2>1, <2>2, <2>3, QuietStep DEF IInv
  <1>9. CASE /\ Fault
             /\ live' = [live EXCEPT ![s] = [value |-> v, dirty |-> TRUE, timer |-> FALSE]]
             /\ running' = [running EXCEPT ![s].persistenceFailed = TRUE]
             /\ StopProvider({s})
             /\ UNCHANGED disk
    <2>1. running' \in [Sessions -> Running \cup {None}] /\ SameChains
      <3>1. running[s] \in Running
        BY <1>1 DEF IInv, TypeOK
      <3>2. /\ [running[s] EXCEPT !.persistenceFailed = TRUE] \in Running
            /\ [running[s] EXCEPT !.persistenceFailed = TRUE].runId = running[s].runId
        BY <3>1, MovedChain DEF Stage, Run
      <3>3. /\ running' = [running EXCEPT ![s] =
                             [running[s] EXCEPT !.persistenceFailed = TRUE]]
            /\ up' = up
        BY <1>3, <1>9
      <3> QED BY <1>1, <3>2, <3>3, ChainWritten
    <2>2. /\ prov' \in [Sessions -> Prov] /\ child' \in [Sessions -> Run]
          /\ dying' \in [Sessions -> SUBSET Commands] /\ marks' \subseteq Sessions
          /\ faults' \in Nat
      BY <1>9, StoppedProvider DEF Fault, IInv, TypeOK
    <2>3. TypeOK'
      BY <1>3, <1>5, <1>6, <1>9, <2>1, <2>2 DEF IInv, TypeOK
    <2> QED BY <1>6, <1>9, <2>1, <2>3, QuietStep DEF IInv
  <1> QED BY <1>4, <1>7, <1>8, <1>9

\* The adapter and its process touch neither rows nor chains.
LEMMA AdapterPreserves ==
    ASSUME IInv, NEW s \in Sessions,
           \/ Spawn(s) \/ OpeningFails(s) \/ ProviderReady(s) \/ TurnEnds(s) \/ ChildExits(s)
           \/ \E r \in Commands : ProcessGone(s, r)
    PROVE  IInv'
  <1>1. UNCHANGED <<database, engine, sinks, emitted, dispatched, accepted, answered, bounds>>
    BY DEF Spawn, OpeningFails, ProviderReady, TurnEnds, ChildExits, ProcessGone, history
  <1>2. child' \in [Sessions -> Run]
    <2>1. Spawn(s) => prov[s].run \in Run
      BY StartedProv DEF Spawn, IInv, TypeOK, Phase, Run
    <2> QED BY <2>1 DEF Spawn, OpeningFails, ProviderReady, TurnEnds, ChildExits, ProcessGone,
                        Retire, IInv, TypeOK, Run
  <1>3. dying' \in [Sessions -> SUBSET Commands]
    <2>1. CASE Spawn(s)
      BY <2>1 DEF Spawn, IInv, TypeOK, Run
    <2>2. ASSUME NEW r \in Commands, ProcessGone(s, r)
          PROVE  dying' \in [Sessions -> SUBSET Commands]
      BY <2>2 DEF ProcessGone, IInv, TypeOK
    <2> QED BY <2>1, <2>2 DEF OpeningFails, ProviderReady, TurnEnds, ChildExits, IInv, TypeOK
  <1>4. marks' \subseteq Sessions
    BY DEF Spawn, OpeningFails, ProviderReady, TurnEnds, ChildExits, ProcessGone, IInv, TypeOK
  <1>5. prov' \in [Sessions -> Prov]
    <2>1. prov[s] \in Prov
      BY DEF IInv, TypeOK
    <2>2. prov' # prov => prov[s].phase # "none"
      BY DEF Spawn, OpeningFails, ProviderReady, TurnEnds, ChildExits, ProcessGone
    <2>3. \E phase \in Phase, error \in BOOLEAN :
            prov' \in {prov, [prov EXCEPT ![s] = [prov[s] EXCEPT !.phase = phase]],
                       [prov EXCEPT ![s] = [prov[s] EXCEPT !.phase = phase, !.error = error]]}
      <3>1. CASE Spawn(s)
        BY <3>1 DEF Spawn, Phase
      <3>2. CASE OpeningFails(s)
        BY <3>2 DEF OpeningFails, Phase
      <3>3. CASE ProviderReady(s)
        BY <3>3 DEF ProviderReady, Phase
      <3>4. CASE TurnEnds(s)
        BY <3>4 DEF TurnEnds, Phase
      <3>5. CASE ChildExits(s)
        BY <3>5 DEF ChildExits, Phase
      <3>6. CASE \E r \in Commands : ProcessGone(s, r)
        BY <3>6 DEF ProcessGone, Phase
      <3> QED BY <3>1, <3>2, <3>3, <3>4, <3>5, <3>6
    <2>4. PICK phase \in Phase, error \in BOOLEAN :
            prov' \in {prov, [prov EXCEPT ![s] = [prov[s] EXCEPT !.phase = phase]],
                       [prov EXCEPT ![s] = [prov[s] EXCEPT !.phase = phase, !.error = error]]}
      BY <2>3
    <2> DEFINE q1 == [prov[s] EXCEPT !.phase = phase]
               q2 == [prov[s] EXCEPT !.phase = phase, !.error = error]
    <2>5. prov' # prov => q1 \in Prov /\ q2 \in Prov
      BY <2>1, <2>2, StartedProv
    <2>6. prov' \in {prov, [prov EXCEPT ![s] = q1], [prov EXCEPT ![s] = q2]}
      BY <2>4
    <2> HIDE DEF q1, q2
    <2> QED BY <2>5, <2>6 DEF IInv, TypeOK
  <1>6. prompted' \subseteq Commands
    <2>1. ProviderReady(s) => prov[s].run \in Commands
      BY StartedProv DEF ProviderReady, IInv, TypeOK, Phase
    <2> QED BY <2>1 DEF Spawn, OpeningFails, ProviderReady, TurnEnds, ChildExits, ProcessGone,
                        history, IInv, TypeOK
  <1>7. TypeOK' /\ SameChains
    BY <1>1, <1>2, <1>3, <1>4, <1>5, <1>6
       DEF IInv, TypeOK, database, engine, bounds, SameChains
  <1> QED BY <1>1, <1>7, ChainStep DEF database, engine

\* Closing moves the chains that wait for a retry; it ends none.
LEMMA ClosePreserves ==
    ASSUME IInv, Close
    PROVE  IInv'
  <1>1. running' \in [Sessions -> Running \cup {None}] /\ SameChains
    <2>1. ASSUME NEW s \in Sessions, running[s] # None
          PROVE  /\ [running[s] EXCEPT !.at = "abandoned"] \in Running
                 /\ [running[s] EXCEPT !.at = "abandoned"].runId = running[s].runId
      <3>1. running[s] \in Running
        BY <2>1 DEF IInv, TypeOK
      <3>2. "abandoned" \in Stage
        BY DEF Stage
      <3> QED BY <3>1, <3>2 DEF Running
    <2>2. up' = up /\ running' = [s \in Sessions |->
                       IF running[s] # None /\ running[s].at = "retryWait"
                       THEN [running[s] EXCEPT !.at = "abandoned"] ELSE running[s]]
      BY DEF Close
    <2> QED BY <2>1, <2>2, NoneAssumption DEF SameChains, IInv, TypeOK
  <1>2. /\ prov' \in [Sessions -> Prov] /\ child' \in [Sessions -> Run]
        /\ dying' \in [Sessions -> SUBSET Commands] /\ marks' \subseteq Sessions
    BY StoppedProvider DEF Close, IInv
  <1>3. /\ closing' = TRUE
        /\ UNCHANGED <<database, up, live, switching, naming, sinks, history, bounds>>
    BY DEF Close
  <1>4. TypeOK'
    BY <1>1, <1>2, <1>3 DEF IInv, TypeOK, database, history, bounds
  <1> QED BY <1>1, <1>3, <1>4, ChainStep DEF database

\* When the process is gone, so are all chains and snapshots; the rows stay.
LEMMA DownPreserves ==
    ASSUME IInv, Exit \/ Crash
    PROVE  IInv'
  <1>1. Down
    BY DEF Exit, Crash
  <1>2. dying' \in [Sessions -> SUBSET Commands]
    BY <1>1 DEF Down, IInv, TypeOK, Run
  <1>3. IdleProv \in Prov
    BY DEF Prov
  <1>4. TypeOK'
    <2>1. /\ UNCHANGED <<database, history, faults, renames>>
          /\ up' = FALSE /\ closing' = FALSE
      BY <1>1 DEF Down
    <2>2. /\ running' \in [Sessions -> Running \cup {None}]
          /\ live' \in [Sessions -> Live \cup {None}]
          /\ prov' \in [Sessions -> Prov] /\ child' \in [Sessions -> Run]
      BY <1>1, <1>3 DEF Down, Run
    <2>3. /\ switching' \subseteq Projects /\ naming' \subseteq Sessions
          /\ marks' \subseteq Sessions /\ sinks' \subseteq Commands
      BY <1>1 DEF Down
    <2>4. crashes' \in Nat
      BY <1>1 DEF Down, IInv, TypeOK
    <2> QED BY <1>2, <2>1, <2>2, <2>3, <2>4 DEF IInv, TypeOK, database, history
  <1>5. ChainOnDisk' /\ SnapshotOfChain' /\ RowHasChain'
    BY <1>1 DEF Down, ChainOnDisk, SnapshotOfChain, RowHasChain
  <1> QED BY <1>4, <1>5 DEF IInv

\* The constructor settles every row that reads "running" before the host is up.
LEMMA RestartPreserves ==
    ASSUME IInv, Restart
    PROVE  IInv'
  <1> DEFINE w(s) == Saved(Settled(disk[s], "interrupted", "restarted"))
             settle(S) == [s \in Sessions |-> IF s \in S THEN w(s) ELSE disk[s]]
  <1>1. ASSUME NEW s \in Interrupted
        PROVE  w(s) \in HostSession /\ w(s).status = "interrupted"
    <2>1. disk[s] \in HostSession
      BY DEF Interrupted, IInv, TypeOK
    <2>2. /\ Settled(disk[s], "interrupted", "restarted") \in HostSession
          /\ Settled(disk[s], "interrupted", "restarted").status = "interrupted"
      BY <2>1, SettledSession
    <2> QED BY <2>2, SavedSession
  <1> HIDE DEF w
  <1>2. ASSUME NEW S \in SUBSET Interrupted
        PROVE  settle(S) \in [Sessions -> HostSession \cup {None}]
    BY <1>1 DEF IInv, TypeOK
  <1>3. \/ disk' = settle(Interrupted) /\ up' = TRUE /\ UNCHANGED faults
        \/ \E S \in SUBSET Interrupted : disk' = settle(S) /\ Fault /\ UNCHANGED up
    BY DEF Restart, w
  <1>4. /\ ~up
        /\ UNCHANGED <<receipts, retired, closing, running, live, switching, naming,
                       provider, history, crashes, renames>>
    BY DEF Restart
  <1>5. TypeOK'
    <2>1. disk' \in [Sessions -> HostSession \cup {None}]
      BY <1>2, <1>3
    <2>2. up' \in BOOLEAN /\ faults' \in Nat
      <3>1. CASE up' = TRUE /\ UNCHANGED faults
        BY <3>1 DEF IInv, TypeOK
      <3>2. CASE UNCHANGED up /\ Fault
        BY <3>2 DEF Fault, IInv, TypeOK
      <3> QED BY <1>3, <3>1, <3>2
    <2> QED BY <1>4, <2>1, <2>2 DEF IInv, TypeOK, provider, history
  <1>6. \A s \in Sessions : running'[s] = None /\ live'[s] = None
    BY <1>4 DEF IInv, ChainOnDisk, SnapshotOfChain
  <1>7. RowHasChain'
    <2>1. CASE disk' = settle(Interrupted)
      <3>1. ASSUME NEW s \in Sessions, disk'[s] # None
            PROVE  disk'[s].status # "running"
        BY <1>1, <2>1, <3>1 DEF Interrupted
      <3> QED BY <3>1 DEF RowHasChain
    <2>2. CASE UNCHANGED up
      BY <1>4, <2>2 DEF RowHasChain
    <2> QED BY <1>3, <2>1, <2>2
  <1> QED BY <1>5, <1>6, <1>7 DEF IInv, ChainOnDisk, SnapshotOfChain

-----------------------------------------------------------------------------
(* The theorems *)

\* The database a host starts from holds idle sessions only.
LEMMA InitHolds == Init => IInv
  <1> SUFFICES ASSUME Init PROVE IInv
    OBVIOUS
  <1>1. \A p \in Projects : NewSession(p) \in HostSession /\ NewSession(p).status = "idle"
    BY DEF NewSession, HostSession, Run, Status, Title, Transcript
  <1>2. \A s \in Sessions : disk[s] # None => disk[s] \in HostSession /\ disk[s].status = "idle"
    BY <1>1 DEF Init
  <1>3. disk \in [Sessions -> HostSession \cup {None}]
    BY <1>1 DEF Init
  <1>4. IdleProv \in Prov
    BY DEF Prov
  <1>5. TypeOK
    BY <1>3, <1>4 DEF Init, TypeOK, Run
  <1>6. ChainOnDisk /\ SnapshotOfChain /\ RowHasChain
    BY <1>2 DEF Init, ChainOnDisk, SnapshotOfChain, RowHasChain
  <1> QED BY <1>5, <1>6 DEF IInv

\* Every step of the engine, of its clients, its providers and its host keeps rows,
\* chains and snapshots together.
LEMMA NextPreserves == IInv /\ [Next]_vars => IInv'
  <1> SUFFICES ASSUME IInv, [Next]_vars PROVE IInv'
    OBVIOUS
  <1>1. CASE ClientStep
    <2>1. PICK s \in Sessions :
            \/ \E c \in Commands :
                 \/ \E p \in Projects : Create(c, s, p)
                 \/ Configure(c, s) \/ Draft(c, s) \/ RemoveDraft(c, s)
                 \/ \E type, draft, plan : Send(c, s, type, draft, plan)
                 \/ \E r \in Commands :
                      \/ Cancel(c, s, r)
                      \/ \E n \in Nat : \/ \E decision \in {"allow", "deny"} :
                                             Approve(c, s, r, n, decision)
                                        \/ Answer(c, s, r, n)
            \/ CommandFails(s) \/ CommandFlushThrows(s) \/ UpdateSession(s)
            \/ DeleteSession(s)
      BY <1>1, ConstantsAssumption DEF ClientStep
    <2> QED BY <2>1, CreatePreserves, CommandPreserves, SendPreserves, CancelPreserves,
               WritePreserves, DeletePreserves
  <1>2. CASE SwitchStep
    BY <1>2, SwitchPreserves DEF SwitchStep
  <1>3. ASSUME NEW s \in Sessions, TurnStep(s)
        PROVE  IInv'
    BY <1>3, StartPreserves, SettlePreserves, FailurePreserves, TimerPreserves, WritePreserves
       DEF TurnStep
  <1>4. ASSUME NEW s \in Sessions, ProviderStep(s)
        PROVE  IInv'
    BY <1>4, AdapterPreserves, EventPreserves DEF ProviderStep
  <1>5. CASE HostStep
    BY <1>5, ClosePreserves, DownPreserves, RestartPreserves DEF HostStep
  <1>6. CASE UNCHANGED vars
    BY <1>6 DEF vars, database, engine, provider, history, bounds, IInv, TypeOK,
               ChainOnDisk, SnapshotOfChain, RowHasChain
  <1> QED BY <1>1, <1>2, <1>3, <1>4, <1>5, <1>6 DEF Next

\* Rows, chains and snapshots belong together in every reachable state (engine.ts).
THEOREM Invariance == Spec => []IInv
  <1> QED BY InitHolds, NextPreserves, PTL DEF Spec

\* Type correctness: in particular, a settlement and a flush always find the row of
\* the session they write (engine.ts:778-862, 337-354).
THEOREM TypeCorrect == Spec => []TypeOK
  <1>1. IInv => TypeOK
    BY DEF IInv
  <1> QED BY <1>1, Invariance, PTL

\* No turn is orphaned: while the host is up, a session reads "running" exactly while
\* one promise chain owns that very turn, through failing writes, retried
\* settlements, crashes and restarts (engine.ts:778-862, 370-412, 264-289).
THEOREM NoOrphan == Spec => []RunningHasOwner
  <1>1. IInv => RunningHasOwner
    BY DEF IInv, ChainOnDisk, RowHasChain, RunningHasOwner
  <1> QED BY <1>1, Invariance, PTL

-----------------------------------------------------------------------------
(***************************************************************************)
(* What a client of the remote host may rely on about the transcripts: a    *)
(* message that has a receipt stays, output that was taken in is kept, each *)
(* turn's output stays in its own part, a request is decided once, a        *)
(* settled turn asks nothing and stays settled.                             *)
(*                                                                          *)
(* The engine keeps two versions of a running session, the row and the live *)
(* snapshot, and either may be the next one written.  So what is inductive  *)
(* is said of both: SessionOK holds of every version, SnapshotAhead says    *)
(* that the snapshot is the row plus events not yet written, and the output *)
(* that was taken in is in the later of the two.  The proof names what a    *)
(* step can do to a session (Flushes, Retitles, Settles, ...), shows that   *)
(* every step of the engine is one of these, and then never looks at the    *)
(* engine's actions again.                                                  *)
(***************************************************************************)

(* What holds of every version of a session *)

\* A turn's blocks are its own; only a running turn asks or builds anything.
BlocksOK(v) ==
    /\ v.question # 0 => v.status = "running"
    /\ \A b \in v.blocks :
         /\ b.mark = "draft" => b.role = "user"
         /\ b.mark # "draft" => b.by = b.turn
         /\ b.mark = "open" => b.role = "approval" /\ v.status = "running" /\ b.turn = v.runId
         /\ b.mark = "building" => b.role = "plan" /\ v.status = "running"

\* What version v asks its user for: events of the running turn, by their numbers.
Open(v) == {b \in v.blocks : b.mark = "open"}
Asked(v) == {b.n : b \in Open(v)} \cup ({v.question} \ {0})

\* A request is one event of the running turn, so an approval is no question, and
\* nobody has decided it yet.  (e numbers the events, A are the decisions.)
AsksOK(v, e, A) ==
    /\ \A n \in Asked(v) : /\ n # 0 /\ n <= e[v.runId]
                           /\ \A a \in A : a.run = v.runId => a.n # n
    /\ \A b \in Open(v) : b.n # v.question

\* The turn a version names has its receipt, for this session (R).
TurnOK(s, v, R) ==
    /\ v.status = "running" => v.runId # None
    /\ v.runId # None => /\ R[v.runId] # None
                         /\ R[v.runId].session = s
                         /\ R[v.runId].type \in {"send", "compact"}

\* Every message with a receipt for this session is in the transcript.
Message(c) == [role |-> "user", turn |-> c, by |-> c, n |-> 0, mark |-> "-"]
MessagesIn(s, v, R) ==
    \A c \in Commands :
      R[c] # None /\ R[c].type \in {"send", "compact"} /\ R[c].session = s =>
        Message(c) \in v.blocks

SessionOK(s, v, R, e, A) ==
    BlocksOK(v) /\ AsksOK(v, e, A) /\ TurnOK(s, v, R) /\ MessagesIn(s, v, R)

-----------------------------------------------------------------------------
(* The inductive invariant *)

\* The live snapshot is the row, or the row and events that are not written yet.
SnapshotAhead ==
    \A s \in Sessions :
      live[s] # None =>
        /\ disk[s] # None
        /\ live[s].value.revision = disk[s].revision
        /\ live[s].value.title = disk[s].title
        /\ live[s].value.runId = disk[s].runId
        /\ live[s].value.project = disk[s].project
        /\ ~live[s].dirty => live[s].value = disk[s]

\* Both versions of every session are in order.
VersionsOK ==
    \A s \in Sessions :
      /\ disk[s] # None => SessionOK(s, disk[s], receipts, emitted, answered)
      /\ live[s] # None => SessionOK(s, live[s].value, receipts, emitted, answered)

\* The session of an accepted message is there, or was deleted.
ReceiptHasSession ==
    \A c \in Commands :
      receipts[c] # None /\ receipts[c].type \in {"send", "compact"} =>
        receipts[c].session \in retired \/ disk[receipts[c].session] # None

\* The later version of a session: what the next write starts from.
Latest(s) == IF live[s] = None THEN disk[s] ELSE live[s].value

\* Output that was taken in is in the later version.
HasBlock(v, role, by, n) == \E b \in v.blocks : b.role = role /\ b.by = by /\ b.n = n
OutputIn(v, e) == HasBlock(v, e[4], e[2], e[3])
OutputInLatest ==
    crashes = 0 =>
      \A e \in accepted :
        e[4] \in {"text", "approval"} =>
          \/ e[1] \in retired
          \/ disk[e[1]] # None /\ OutputIn(Latest(e[1]), e)

\* A decision is about an event that was emitted by an accepted turn.
DecisionsOK ==
    /\ \A a \in answered : receipts[a.run] # None /\ a.n <= emitted[a.run]
    /\ AnsweredOnce

\* The adapter works for the chain that is sending, on that chain's turn.
AdapterOfChain ==
    \A s \in Sessions :
      prov[s].phase # "none" =>
        /\ running[s] # None
        /\ running[s].at = "sending"
        /\ prov[s].run = running[s].runId

VInv == SnapshotAhead /\ VersionsOK /\ ReceiptHasSession /\ OutputInLatest /\ DecisionsOK
TInv == VInv /\ AdapterOfChain

-----------------------------------------------------------------------------
(* What the pure steps do to a version *)

\* What a write may not lose of a version: every block but a draft and a plan, and
\* the mark of all but an approval.
Keeps(v, w) ==
    \A b \in v.blocks :
      b.mark # "draft" /\ b.role # "plan" =>
        \E d \in w.blocks : /\ d.role = b.role /\ d.turn = b.turn /\ d.by = b.by /\ d.n = b.n
                            /\ b.role # "approval" => d.mark = b.mark

\* The same part of the transcript and the same request, in the same turn.
SameTurn(v, w) ==
    w.status = v.status /\ w.runId = v.runId /\ w.question = v.question /\ w.blocks = v.blocks

LEMMA SameTurnOK ==
    ASSUME NEW s, NEW v, NEW w, NEW R, NEW e, NEW A,
           SessionOK(s, v, R, e, A), SameTurn(v, w)
    PROVE  SessionOK(s, w, R, e, A) /\ Keeps(v, w)
  BY DEF SessionOK, BlocksOK, AsksOK, Asked, Open, TurnOK, MessagesIn, SameTurn, Keeps

\* Saving and retitling change neither.
LEMMA SavedIsSameTurn ==
    ASSUME NEW v \in HostSession, NEW title
    PROVE  /\ Saved(v) \in HostSession
           /\ SameTurn(v, Saved(v))
           /\ SameTurn(v, Saved([v EXCEPT !.title = title]))
           /\ Saved(v).title = v.title /\ Saved(v).project = v.project
           /\ Saved([v EXCEPT !.title = title]).title = title
           /\ Saved([v EXCEPT !.title = title]).project = v.project
  BY DEF Saved, HostSession, SameTurn

\* What a message's block is, seen from the transcript: a message that stays, stays
\* as it is.
LEMMA MessagesStay ==
    ASSUME NEW s, NEW R, NEW v \in HostSession, NEW w \in HostSession,
           MessagesIn(s, v, R), Keeps(v, w)
    PROVE  MessagesIn(s, w, R)
  <1> SUFFICES ASSUME NEW c \in Commands,
                      R[c] # None, R[c].type \in {"send", "compact"}, R[c].session = s
               PROVE  Message(c) \in w.blocks
    BY DEF MessagesIn
  <1>1. Message(c) \in v.blocks
    BY DEF MessagesIn
  <1>2. PICK d \in w.blocks :
          d.role = "user" /\ d.turn = c /\ d.by = c /\ d.n = 0 /\ d.mark = "-"
    <2>1. /\ Message(c).mark = "-" /\ Message(c).role = "user" /\ Message(c).turn = c
          /\ Message(c).by = c /\ Message(c).n = 0
      BY DEF Message
    <2>2. Message(c).mark # "draft" /\ Message(c).role # "plan" /\ Message(c).role # "approval"
      BY <2>1
    <2> QED BY <1>1, <2>1, <2>2 DEF Keeps
  <1>3. d \in Block
    BY <1>2 DEF HostSession, Transcript
  <1>4. d = Message(c)
    BY <1>2, <1>3 DEF Block, Message
  <1> QED BY <1>2, <1>4

\* The ledger of receipts, events and decisions may grow around a version, as long as
\* what is new is about other turns and other sessions.
LEMMA GrownLedger ==
    ASSUME NEW s, NEW v, NEW R, NEW e, NEW A, NEW R2, NEW e2, NEW A2,
           SessionOK(s, v, R, e, A),
           v.runId \in Run,
           v.blocks \in Transcript, v.question \in Nat,
           \A c \in Commands : R[c] # None => R2[c] = R[c],
           \A c \in Commands : R2[c] # None /\ R2[c].type \in {"send", "compact"}
                               /\ R2[c].session = s => R2[c] = R[c],
           \A c \in Commands : e[c] \in Nat /\ e2[c] \in Nat /\ e[c] <= e2[c],
           \A a \in A2 : a \in A \/ a.run # v.runId
    PROVE  SessionOK(s, v, R2, e2, A2)
  <1>1. BlocksOK(v)
    BY DEF SessionOK
  <1>2. TurnOK(s, v, R2)
    BY DEF SessionOK, TurnOK, Run
  <1>3. MessagesIn(s, v, R2)
    BY DEF SessionOK, MessagesIn
  <1>4. AsksOK(v, e2, A2)
    <2>1. ASSUME NEW n \in Asked(v)
          PROVE  /\ n # 0 /\ n <= e2[v.runId]
                 /\ \A a \in A2 : a.run = v.runId => a.n # n
      <3>1. n # 0 /\ n <= e[v.runId] /\ \A a \in A : a.run = v.runId => a.n # n
        BY DEF SessionOK, AsksOK
      <3>2. v.status = "running"
        BY <1>1 DEF BlocksOK, Asked, Open
      <3>3. v.runId \in Commands
        BY <3>2 DEF SessionOK, TurnOK, Run
      <3>4. n \in Nat
        BY DEF Asked, Open, Transcript, Block
      <3> QED BY <3>1, <3>3, <3>4
    <2> QED BY <2>1 DEF SessionOK, AsksOK
  <1> QED BY <1>1, <1>2, <1>3, <1>4 DEF SessionOK

\* A draft that is saved or removed asks for nothing and is nobody's output.
LEMMA DraftedOK ==
    ASSUME NEW s, NEW R, NEW e, NEW A, NEW v \in HostSession, NEW w \in HostSession,
           SessionOK(s, v, R, e, A),
           w.status = v.status, w.runId = v.runId, w.question = v.question,
           NEW c, w.blocks \in {v.blocks \ Drafts(v),
                                v.blocks \cup {[role |-> "user", turn |-> None, by |-> c,
                                                n |-> 0, mark |-> "draft"]}}
    PROVE  SessionOK(s, w, R, e, A) /\ Keeps(v, w)
  <1> DEFINE draft == [role |-> "user", turn |-> None, by |-> c, n |-> 0, mark |-> "draft"]
  <1>1. draft.mark = "draft" /\ draft.role = "user"
    OBVIOUS
  <1>2. w.blocks \in {v.blocks \ Drafts(v), v.blocks \cup {draft}}
    OBVIOUS
  <1> HIDE DEF draft
  <1>3. \A b \in w.blocks : b \in v.blocks \/ b = draft
    BY <1>2
  <1>4. \A b \in v.blocks : b.mark # "draft" => b \in w.blocks
    BY <1>2 DEF Drafts
  <1>5. BlocksOK(w)
    BY <1>1, <1>3 DEF SessionOK, BlocksOK
  <1>6. Open(w) \subseteq Open(v)
    BY <1>1, <1>3 DEF Open
  <1>7. AsksOK(w, e, A)
    BY <1>6 DEF SessionOK, AsksOK, Asked
  <1>8. TurnOK(s, w, R)
    BY DEF SessionOK, TurnOK
  <1>9. Keeps(v, w)
    BY <1>4 DEF Keeps
  <1>10. MessagesIn(s, w, R)
    BY <1>9, MessagesStay DEF SessionOK
  <1> QED BY <1>5, <1>7, <1>8, <1>9, <1>10 DEF SessionOK

\* A decision closes the request it names, which nobody decided before.
LEMMA DecidedOK ==
    ASSUME NEW s, NEW R, NEW e, NEW A, NEW v \in HostSession, NEW n \in Nat,
           NEW decision \in {"allow", "deny"}, NEW a,
           SessionOK(s, v, R, e, A), Pending(v, n) # {}, a.n = n
    PROVE  /\ SessionOK(s, Decided(v, n, decision), R, e, A \cup {a})
           /\ Keeps(v, Decided(v, n, decision))
           /\ n <= e[v.runId]
           /\ \A b \in A : b.run = v.runId => b.n # n
  <1> DEFINE of(b) == IF b.role = "approval" /\ b.n = n THEN [b EXCEPT !.mark = decision] ELSE b
  <1>1. PICK w \in HostSession : w = Decided(v, n, decision)
    BY DecidedSession
  <1>2. /\ w.status = v.status /\ w.runId = v.runId /\ w.question = v.question
        /\ w.blocks = {of(b) : b \in v.blocks}
    BY <1>1 DEF Decided, HostSession
  <1>3. ASSUME NEW b \in v.blocks
        PROVE  /\ of(b) \in Block
               /\ of(b).role = b.role /\ of(b).turn = b.turn /\ of(b).by = b.by /\ of(b).n = b.n
               /\ b.role = "approval" /\ b.n = n => of(b).mark = decision
               /\ ~(b.role = "approval" /\ b.n = n) => of(b) = b
    BY DEF HostSession, Transcript, Block
  <1> HIDE DEF of
  <1>4. Open(w) \subseteq Open(v)
    BY <1>2, <1>3 DEF Open
  <1>5. \A b \in Open(w) : b.n # n
    BY <1>2, <1>3, <1>4 DEF Open, SessionOK, BlocksOK
  <1>6. PICK p \in Open(v) : p.n = n
    BY DEF Pending, Open
  <1>7. n # v.question /\ n \in Asked(v)
    BY <1>6 DEF SessionOK, AsksOK, Asked
  <1>8. Asked(w) \subseteq Asked(v) \ {n}
    BY <1>2, <1>4, <1>5, <1>7 DEF Asked
  <1>9. AsksOK(w, e, A \cup {a})
    BY <1>2, <1>4, <1>8 DEF SessionOK, AsksOK
  <1>10. BlocksOK(w)
    BY <1>2, <1>3 DEF SessionOK, BlocksOK
  <1>11. TurnOK(s, w, R)
    BY <1>2 DEF SessionOK, TurnOK
  <1>12. Keeps(v, w)
    BY <1>2, <1>3 DEF Keeps
  <1>13. MessagesIn(s, w, R)
    BY <1>12, MessagesStay DEF SessionOK
  <1>14. n <= e[v.runId] /\ \A b \in A : b.run = v.runId => b.n # n
    BY <1>7 DEF SessionOK, AsksOK
  <1> QED BY <1>1, <1>9, <1>10, <1>11, <1>12, <1>13, <1>14 DEF SessionOK

\* So does an answer.
LEMMA AnsweredOK ==
    ASSUME NEW s, NEW R, NEW e, NEW A, NEW v \in HostSession, NEW n, NEW a,
           SessionOK(s, v, R, e, A), n # 0, v.question = n, a.n = n
    PROVE  /\ SessionOK(s, [v EXCEPT !.question = 0], R, e, A \cup {a})
           /\ Keeps(v, [v EXCEPT !.question = 0])
           /\ n <= e[v.runId]
           /\ \A b \in A : b.run = v.runId => b.n # n
  <1>1. PICK w \in HostSession : w = [v EXCEPT !.question = 0]
    BY DEF HostSession
  <1>2. w.status = v.status /\ w.runId = v.runId /\ w.question = 0 /\ w.blocks = v.blocks
    BY <1>1 DEF HostSession
  <1>3. n \in Asked(v) /\ \A b \in Open(v) : b.n # n
    BY DEF SessionOK, AsksOK, Asked
  <1>4. Open(w) = Open(v) /\ Asked(w) \subseteq Asked(v) \ {n}
    BY <1>2, <1>3 DEF Asked, Open
  <1>5. \A b \in Open(v) : b.n # 0
    BY DEF SessionOK, AsksOK, Asked
  <1>6. AsksOK(w, e, A \cup {a})
    BY <1>2, <1>4, <1>5 DEF SessionOK, AsksOK
  <1>7. BlocksOK(w) /\ TurnOK(s, w, R) /\ MessagesIn(s, w, R) /\ Keeps(v, w)
    BY <1>2 DEF SessionOK, BlocksOK, TurnOK, MessagesIn, Keeps
  <1>8. n <= e[v.runId] /\ \A b \in A : b.run = v.runId => b.n # n
    BY <1>3 DEF SessionOK, AsksOK
  <1> QED BY <1>1, <1>6, <1>7, <1>8 DEF SessionOK

\* The decisions about turn r are about its first m events.
NumbersUpTo(A, r, m) == \A a \in A : a.run = r => a.n \in Nat /\ a.n <= m

\* An event of the running turn is a new one: it reopens no request (applyHarnessEvent).
LEMMA AppliedOK ==
    ASSUME NEW s, NEW R, NEW e \in [Commands -> Nat], NEW A, NEW v \in HostSession,
           NEW r \in Commands, NEW kind \in AllEventKinds, NEW n \in Nat,
           SessionOK(s, v, R, e, A), v.status = "running", v.runId = r,
           NumbersUpTo(A, r, e[r]), n = e[r] + 1
    PROVE  /\ SessionOK(s, Applied(v, r, n, kind), R, [e EXCEPT ![r] = n], A)
           /\ Keeps(v, Applied(v, r, n, kind))
           /\ kind \in {"text", "approval"} => HasBlock(Applied(v, r, n, kind), kind, r, n)
  <1> DEFINE block(role, mark) ==
               [role |-> role, turn |-> v.runId, by |-> r, n |-> n, mark |-> mark]
  <1>2. PICK w \in HostSession : w = Applied(v, r, n, kind)
    BY AppliedSession
  <1>3. PICK e2 \in [Commands -> Nat] : e2 = [e EXCEPT ![r] = n]
    OBVIOUS
  <1>19. e2[r] = n /\ e[r] < n /\ n # 0 /\ \A a \in A : a.run = r => a.n \in Nat /\ a.n <= e[r]
    BY <1>3 DEF NumbersUpTo
  <1>4. \E role \in {"text", "approval", "plan"}, mark \in {"-", "open", "ready"},
           old \in SUBSET v.blocks :
          /\ mark = "open" => role = "approval"
          /\ \A b \in v.blocks : b.role # "plan" => b \in old
          /\ kind \in {"text", "approval"} => role = kind
          /\ \/ w.question = v.question /\ w.blocks = old \cup {block(role, mark)}
             \/ w.question = n /\ w.blocks = v.blocks /\ mark # "open" /\ kind = "question"
          /\ w.status = v.status /\ w.runId = v.runId
    <2>1. w.status = v.status /\ w.runId = v.runId
      BY <1>2, AppliedSession
    <2> HIDE DEF block
    <2>2. CASE kind = "text"
      <3>1. Applied(v, r, n, kind) = [v EXCEPT !.blocks = @ \cup {block("text", "-")}]
        BY <2>2 DEF Applied, block
      <3>2. w.question = v.question /\ w.blocks = v.blocks \cup {block("text", "-")}
        BY <1>2, <3>1 DEF HostSession
      <3> QED BY <2>1, <2>2, <3>2
    <2>3. CASE kind = "approval"
      <3>1. Applied(v, r, n, kind) = [v EXCEPT !.blocks = @ \cup {block("approval", "open")}]
        BY <2>3 DEF Applied, block
      <3>2. w.question = v.question /\ w.blocks = v.blocks \cup {block("approval", "open")}
        BY <1>2, <3>1 DEF HostSession
      <3> QED BY <2>1, <2>3, <3>2
    <2>4. CASE kind = "question"
      <3>1. Applied(v, r, n, kind) = [v EXCEPT !.question = n]
        BY <2>4 DEF Applied
      <3>2. w.question = n /\ w.blocks = v.blocks
        BY <1>2, <3>1 DEF HostSession
      <3> QED BY <2>1, <2>4, <3>2
    <2>5. CASE kind = "plan"
      <3> DEFINE old == {b \in v.blocks : b.role # "plan" \/ b.turn # v.runId}
      <3>1. Applied(v, r, n, kind) = [v EXCEPT !.blocks = old \cup {block("plan", "ready")}]
        BY <2>5 DEF Applied, block
      <3>2. w.question = v.question /\ w.blocks = old \cup {block("plan", "ready")}
        BY <1>2, <3>1 DEF HostSession
      <3>3. old \in SUBSET v.blocks /\ \A b \in v.blocks : b.role # "plan" => b \in old
        OBVIOUS
      <3> HIDE DEF old
      <3> QED BY <2>1, <2>5, <3>2, <3>3
    <2> QED BY <2>2, <2>3, <2>4, <2>5 DEF AllEventKinds
  <1>5. PICK role \in {"text", "approval", "plan"}, mark \in {"-", "open", "ready"},
             old \in SUBSET v.blocks :
          /\ mark = "open" => role = "approval"
          /\ \A b \in v.blocks : b.role # "plan" => b \in old
          /\ kind \in {"text", "approval"} => role = kind
          /\ \/ w.question = v.question /\ w.blocks = old \cup {block(role, mark)}
             \/ w.question = n /\ w.blocks = v.blocks /\ mark # "open" /\ kind = "question"
          /\ w.status = v.status /\ w.runId = v.runId
    BY <1>4
  <1>6. PICK new : new = block(role, mark)
    OBVIOUS
  <1>7. new.role = role /\ new.turn = v.runId /\ new.by = r /\ new.n = n /\ new.mark = mark
    BY <1>6
  <1>8. \/ w.question = v.question /\ w.blocks = old \cup {new}
        \/ w.question = n /\ w.blocks = v.blocks /\ mark # "open" /\ kind = "question"
    BY <1>5, <1>6
  <1> HIDE DEF block
  <1>9. \A b \in w.blocks : b \in v.blocks \/ b = new
    BY <1>8
  <1>10. BlocksOK(w)
    <2>1. w.question # 0 => w.status = "running"
      BY <1>5
    <2>2. ASSUME NEW b \in w.blocks
          PROVE  /\ b.mark = "draft" => b.role = "user"
                 /\ b.mark # "draft" => b.by = b.turn
                 /\ b.mark = "open" => b.role = "approval" /\ w.status = "running"
                                       /\ b.turn = w.runId
                 /\ b.mark = "building" => b.role = "plan" /\ w.status = "running"
      BY <1>5, <1>7, <1>9 DEF SessionOK, BlocksOK
    <2> QED BY <2>1, <2>2 DEF BlocksOK
  <1>11. \A b \in Open(w) : b \in Open(v) \/ (b = new /\ b.n = n /\ w.question = v.question)
    BY <1>5, <1>7, <1>8 DEF Open
  <1>12. \A m \in Asked(v) : m <= e[r] /\ m # 0 /\ m \in Nat /\ \A a \in A : a.run = r => a.n # m
    BY DEF SessionOK, AsksOK, Asked, Open, HostSession, Transcript, Block
  <1>13. \A m \in Asked(w) : m \in Asked(v) \/ m = n
    BY <1>8, <1>11 DEF Asked
  <1>14. AsksOK(w, e2, A)
    <2>1. ASSUME NEW m \in Asked(w)
          PROVE  m # 0 /\ m <= e2[w.runId] /\ \A a \in A : a.run = w.runId => a.n # m
      <3>1. CASE m \in Asked(v)
        BY <1>5, <1>12, <1>19, <3>1
      <3>2. CASE m = n
        BY <1>5, <1>19, <3>2
      <3> QED BY <1>13, <3>1, <3>2
    <2>2. ASSUME NEW b \in Open(w)
          PROVE  b.n # w.question
      <3>1. b \in Open(v) => b.n # v.question /\ b.n \in Asked(v)
        BY DEF SessionOK, AsksOK, Asked
      <3>2. w.question \in {v.question, n}
        BY <1>8
      <3>3. v.question \in Nat /\ (v.question # 0 => v.question \in Asked(v))
        BY DEF HostSession, Asked
      <3> QED BY <1>11, <1>12, <1>19, <3>1, <3>2, <3>3
    <2> QED BY <2>1, <2>2 DEF AsksOK
  <1>15. TurnOK(s, w, R)
    BY <1>5 DEF SessionOK, TurnOK
  <1>16. Keeps(v, w)
    <2>1. \A b \in v.blocks : b.role # "plan" => b \in w.blocks
      BY <1>5, <1>8
    <2> QED BY <2>1 DEF Keeps
  <1>17. MessagesIn(s, w, R)
    BY <1>16, MessagesStay DEF SessionOK
  <1>18. kind \in {"text", "approval"} => HasBlock(w, kind, r, n)
    BY <1>5, <1>7, <1>8 DEF HasBlock
  <1> QED BY <1>2, <1>3, <1>10, <1>14, <1>15, <1>16, <1>17, <1>18 DEF SessionOK

\* A send starts its turn on a transcript that asks for nothing, and adds its message.
LEMMA StartedOK ==
    ASSUME NEW s \in Sessions, NEW R \in [Commands -> Receipt \cup {None}], NEW e, NEW A,
           NEW v \in HostSession, NEW c \in Commands, NEW type \in {"send", "compact"},
           NEW plan, NEW q \in Receipt,
           SessionOK(s, v, R, e, A), v.status # "running",
           plan # None => plan.role = "plan",
           q.type = type, q.session = s
    PROVE  /\ SessionOK(s, Started(v, c, type, plan), [R EXCEPT ![c] = q], e, A)
           /\ Keeps(v, Started(v, c, type, plan))
  <1> DEFINE of(b) == IF b = plan THEN [b EXCEPT !.mark = "building"] ELSE b
  <1>1. PICK w \in HostSession : w = Started(v, c, type, plan)
    BY StartedSession
  <1>2. /\ w.status = "running" /\ w.runId = c /\ w.question = 0
        /\ w.blocks = {of(b) : b \in v.blocks \ Drafts(v)} \cup {Message(c)}
    BY <1>1 DEF Started, HostSession, Message
  <1>3. ASSUME NEW b \in v.blocks
        PROVE  /\ of(b).role = b.role /\ of(b).turn = b.turn /\ of(b).by = b.by /\ of(b).n = b.n
               /\ of(b).mark \in {b.mark, "building"}
               /\ b.role # "plan" => of(b) = b
               /\ of(b) # b => b.role = "plan"
    BY NoneAssumption DEF HostSession, Transcript, Block
  <1> HIDE DEF of
  <1>4. \A b \in v.blocks : b.mark # "open" /\ b.mark # "building"
    BY DEF SessionOK, BlocksOK
  <1>5. /\ Message(c).mark = "-" /\ Message(c).role = "user" /\ Message(c).turn = c
        /\ Message(c).by = c
    BY DEF Message
  <1>6. ASSUME NEW b \in w.blocks
        PROVE  /\ b.mark = "draft" => b.role = "user"
               /\ b.mark # "draft" => b.by = b.turn
               /\ b.mark # "open"
               /\ b.mark = "building" => b.role = "plan"
    <2>1. CASE b = Message(c)
      BY <1>5, <2>1
    <2>2. ASSUME NEW d \in v.blocks \ Drafts(v), b = of(d)
          PROVE  /\ b.mark = "draft" => b.role = "user"
                 /\ b.mark # "draft" => b.by = b.turn
                 /\ b.mark # "open"
                 /\ b.mark = "building" => b.role = "plan"
      <3>1. d.mark # "draft" /\ d.by = d.turn
        BY DEF Drafts, SessionOK, BlocksOK
      <3> QED BY <1>3, <1>4, <2>2, <3>1
    <2> QED BY <1>2, <2>1, <2>2
  <1>7. BlocksOK(w)
    BY <1>2, <1>6 DEF BlocksOK
  <1>8. Open(w) = {} /\ Asked(w) = {}
    BY <1>2, <1>6 DEF Open, Asked
  <1>9. AsksOK(w, e, A)
    BY <1>8 DEF AsksOK
  <1>10. Keeps(v, w)
    <2>1. ASSUME NEW b \in v.blocks, b.mark # "draft", b.role # "plan"
          PROVE  b \in w.blocks
      BY <1>2, <1>3, <2>1 DEF Drafts
    <2> QED BY <2>1 DEF Keeps
  <1>11. PICK R2 \in [Commands -> Receipt \cup {None}] : R2 = [R EXCEPT ![c] = q]
    OBVIOUS
  <1>12. R2[c] = q /\ q # None /\ \A d \in Commands : d # c => R2[d] = R[d]
    BY <1>11, NoneAssumption
  <1>13. TurnOK(s, w, R2)
    BY <1>2, <1>12, ConstantsAssumption DEF TurnOK
  <1>14. MessagesIn(s, w, R2)
    <2>1. MessagesIn(s, w, R)
      BY <1>10, MessagesStay DEF SessionOK
    <2>2. Message(c) \in w.blocks
      BY <1>2
    <2> QED BY <1>12, <2>1, <2>2 DEF MessagesIn
  <1> QED BY <1>1, <1>7, <1>9, <1>10, <1>11, <1>13, <1>14 DEF SessionOK

\* A settled turn asks for nothing and builds nothing; its blocks stay.
LEMMA SettledOK ==
    ASSUME NEW s, NEW R, NEW e, NEW A, NEW v \in HostSession,
           NEW status \in {"idle", "interrupted"},
           NEW message \in {"-", "stopped", "error", "storage", "closed", "restarted"},
           SessionOK(s, v, R, e, A)
    PROVE  /\ SessionOK(s, Settled(v, status, message), R, e, A)
           /\ Keeps(v, Settled(v, status, message))
           /\ Settled(v, status, message).title = v.title
           /\ Settled(v, status, message).project = v.project
  <1> DEFINE built == status = "idle" /\ message = "-"
             note == [role |-> "note", turn |-> v.runId, by |-> v.runId, n |-> 0,
                      mark |-> message]
  <1>1. PICK w \in HostSession : w = Settled(v, status, message)
    BY SettledSession
  <1>2. /\ w.status = status /\ w.runId = v.runId /\ w.question = 0
        /\ w.title = v.title /\ w.project = v.project
        /\ w.blocks = {Closed(b, built) : b \in v.blocks}
                      \cup (IF message = "-" THEN {} ELSE {note})
    BY <1>1 DEF Settled, HostSession
  <1>3. note.role = "note" /\ note.turn = note.by /\ note.mark = message
    OBVIOUS
  <1>4. PICK done \in BOOLEAN : done = built
    OBVIOUS
  <1>5. PICK word : word = note
    OBVIOUS
  <1>6. /\ w.blocks = {Closed(b, done) : b \in v.blocks}
                      \cup (IF message = "-" THEN {} ELSE {word})
        /\ word.role = "note" /\ word.turn = word.by /\ word.mark = message
    BY <1>2, <1>3, <1>4, <1>5
  <1> HIDE DEF built, note
  <1>7. ASSUME NEW b \in v.blocks
        PROVE  /\ Closed(b, done).role = b.role /\ Closed(b, done).turn = b.turn
               /\ Closed(b, done).by = b.by /\ Closed(b, done).n = b.n
               /\ Closed(b, done).mark \notin {"open", "building"}
               /\ Closed(b, done).mark = "draft" <=> b.mark = "draft"
               /\ b.role \notin {"approval", "plan"} => Closed(b, done) = b
    <2>1. b \in Block
      BY DEF HostSession, Transcript
    <2>2. /\ b.mark = "open" => b.role = "approval"
          /\ b.mark = "building" => b.role = "plan"
          /\ b.mark = "draft" => b.role = "user"
      BY DEF SessionOK, BlocksOK
    <2> QED BY <2>1, <2>2 DEF Closed, Block
  <1>8. ASSUME NEW b \in w.blocks
        PROVE  /\ b.mark = "draft" => b.role = "user"
               /\ b.mark # "draft" => b.by = b.turn
               /\ b.mark \notin {"open", "building"}
    <2>1. CASE b = word
      BY <1>6, <2>1
    <2>2. ASSUME NEW d \in v.blocks, b = Closed(d, done)
          PROVE  /\ b.mark = "draft" => b.role = "user"
                 /\ b.mark # "draft" => b.by = b.turn
                 /\ b.mark \notin {"open", "building"}
      <3>1. /\ d.mark # "draft" => d.by = d.turn
            /\ d.mark = "draft" => d.role = "user"
        BY DEF SessionOK, BlocksOK
      <3> QED BY <1>7, <2>2, <3>1
    <2> QED BY <1>6, <2>1, <2>2
  <1>9. BlocksOK(w)
    BY <1>2, <1>8 DEF BlocksOK
  <1>10. Open(w) = {} /\ Asked(w) = {}
    BY <1>2, <1>8 DEF Open, Asked
  <1>11. AsksOK(w, e, A)
    BY <1>10 DEF AsksOK
  <1>12. TurnOK(s, w, R)
    BY <1>2 DEF SessionOK, TurnOK
  <1>13. Keeps(v, w)
    <2>1. ASSUME NEW b \in v.blocks, b.mark # "draft", b.role # "plan"
          PROVE  \E d \in w.blocks :
                   /\ d.role = b.role /\ d.turn = b.turn /\ d.by = b.by /\ d.n = b.n
                   /\ b.role # "approval" => d.mark = b.mark
      <3>1. Closed(b, done) \in w.blocks
        BY <1>6
      <3> QED BY <1>7, <2>1, <3>1
    <2> QED BY <2>1 DEF Keeps
  <1>14. MessagesIn(s, w, R)
    BY <1>13, MessagesStay DEF SessionOK
  <1> QED BY <1>1, <1>2, <1>9, <1>11, <1>12, <1>13, <1>14 DEF SessionOK

\* A new session asks for nothing; no message was accepted for it yet.
LEMMA NewSessionOK ==
    ASSUME NEW s, NEW R, NEW e, NEW A, NEW p \in Projects,
           \A c \in Commands :
             ~(R[c] # None /\ R[c].type \in {"send", "compact"} /\ R[c].session = s)
    PROVE  /\ NewSession(p) \in HostSession
           /\ SessionOK(s, NewSession(p), R, e, A)
  <1>1. NewSession(p) \in HostSession
    BY DEF NewSession, HostSession, Run, Status, Title, Transcript
  <1>2. PICK v \in HostSession : v = NewSession(p)
    BY <1>1
  <1>3. v.status = "idle" /\ v.runId = None /\ v.question = 0 /\ v.blocks = {}
    BY <1>2 DEF NewSession
  <1>4. Open(v) = {} /\ Asked(v) = {}
    BY <1>3 DEF Open, Asked
  <1> QED BY <1>2, <1>3, <1>4 DEF SessionOK, BlocksOK, AsksOK, TurnOK, MessagesIn

-----------------------------------------------------------------------------
(* What a step can do to the sessions *)

Ledger == <<receipts, retired, emitted, accepted, answered, crashes>>

\* Neither version of a session changes.
Unmoved(s) ==
    /\ disk'[s] = disk[s]
    /\ live'[s] = None <=> live[s] = None
    /\ live[s] # None => live'[s].value = live[s].value /\ live'[s].dirty = live[s].dirty

\* One row is written, and its snapshot holds what was written or is gone.
Wrote(s, w) ==
    /\ disk'[s] = w
    /\ live'[s] \in {None, Snapshot(w)}
    /\ \A u \in Sessions \ {s} : Unmoved(u)

Idles == UNCHANGED Ledger /\ \A s \in Sessions : Unmoved(s)

Flushes(s) == UNCHANGED Ledger /\ disk[s] # None /\ Wrote(s, Flushed(s))

Retitles(s) ==
    /\ UNCHANGED Ledger
    /\ disk[s] # None
    /\ \E title \in {"manual", "generated"} :
         /\ title = "generated" => TitleAwaited(Flushed(s))
         /\ Wrote(s, Saved([Flushed(s) EXCEPT !.title = title]))

Settles(s) ==
    /\ UNCHANGED Ledger
    /\ disk[s] # None /\ disk[s].status = "running"
    /\ \E status \in {"idle", "interrupted"},
          message \in {"-", "stopped", "error", "storage", "closed", "restarted"} :
         Wrote(s, Saved(Settled(Flushed(s), status, message)))

\* A command's receipt comes with the row it wrote.
Accepts(c, s, type, w) ==
    /\ receipts[c] = None
    /\ receipts' = [receipts EXCEPT ![c] =
                      [type |-> type, session |-> s, revision |-> Saved(w).revision]]
    /\ Wrote(s, Saved(w))
    /\ UNCHANGED <<retired, emitted, accepted, crashes>>

\* What the commands that start no turn do to the version v.
Edits(c, s, v, w) ==
    \/ w = v /\ UNCHANGED answered
    \/ /\ v.status # "running" /\ UNCHANGED answered
       /\ w = [v EXCEPT !.title = IF v.blocks = {} THEN "prompt" ELSE @,
                        !.blocks = @ \cup {[role |-> "user", turn |-> None, by |-> c,
                                            n |-> 0, mark |-> "draft"]}]
    \/ w = [v EXCEPT !.blocks = @ \ Drafts(v)] /\ UNCHANGED answered
    \/ /\ v.status = "running"
       /\ \E n \in Nat, decision \in {"allow", "deny"} :
            /\ Pending(v, n) # {}
            /\ w = Decided(v, n, decision)
            /\ Answered(c, s, v.runId, n)
    \/ /\ v.status = "running" /\ v.question # 0
       /\ w = [v EXCEPT !.question = 0]
       /\ Answered(c, s, v.runId, v.question)

Edited(c, s) ==
    /\ disk[s] # None
    /\ \E type \in AllCommandTypes \ {"send", "compact"} : \E w :
         Accepts(c, s, type, w) /\ Edits(c, s, Flushed(s), w)

Sends(c, s) ==
    LET v == Flushed(s) IN
    /\ disk[s] # None
    /\ MayStart(v)
    /\ UNCHANGED answered
    /\ \E type \in {"send", "compact"} : \E plan :
         /\ plan # None => plan.role = "plan"
         /\ Accepts(c, s, type, Started(v, c, type, plan))

Creates(c, s) ==
    /\ disk[s] = None /\ live[s] = None /\ s \notin retired
    /\ UNCHANGED answered
    /\ \E p \in Projects : Accepts(c, s, "create", NewSession(p))

Deletes(s) ==
    /\ disk[s] # None /\ disk[s].status # "running"
    /\ disk'[s] = None /\ live'[s] = None
    /\ \A u \in Sessions \ {s} : Unmoved(u)
    /\ retired' = retired \cup {s}
    /\ UNCHANGED <<receipts, emitted, accepted, answered, crashes>>

\* An event is taken in: its snapshot is written at once, or waits for a write.
TakesIn(s, r, kind) ==
    LET value == Applied(live[s].value, r, emitted[r] + 1, kind) IN
    /\ live[s] # None /\ live[s].value.runId = r /\ live[s].value.status = "running"
    /\ emitted' = [emitted EXCEPT ![r] = emitted[r] + 1]
    /\ accepted' = accepted \cup {<<s, r, emitted[r] + 1, kind>>}
    /\ \/ Wrote(s, Saved(value)) /\ live'[s] # None
       \/ /\ disk'[s] = disk[s]
          /\ live'[s] # None /\ live'[s].value = value /\ live'[s].dirty
          /\ \A u \in Sessions \ {s} : Unmoved(u)
    /\ UNCHANGED <<receipts, retired, answered, crashes>>

\* The host goes down: the rows are what is left.
Falls ==
    /\ \A s \in Sessions : disk'[s] = disk[s] /\ live'[s] = None
    /\ crashes' = crashes + 1
    /\ UNCHANGED <<receipts, retired, emitted, accepted, answered>>

\* A restart settles some of the rows that read "running", or all of them.
Restarts ==
    /\ UNCHANGED Ledger
    /\ \A s \in Sessions :
         /\ live[s] = None /\ live'[s] = None
         /\ \/ disk'[s] = disk[s]
            \/ /\ disk[s] # None /\ disk[s].status = "running"
               /\ disk'[s] = Saved(Settled(disk[s], "interrupted", "restarted"))

SessionStep ==
    \/ Idles \/ Falls \/ Restarts
    \/ \E s \in Sessions :
         \/ Flushes(s) \/ Retitles(s) \/ Settles(s) \/ Deletes(s)
         \/ \E c \in Commands : Edited(c, s) \/ Sends(c, s) \/ Creates(c, s)
         \/ \E r \in Commands, kind \in AllEventKinds : TakesIn(s, r, kind)

-----------------------------------------------------------------------------
(* Every step is one of these *)

\* A write as the actions state it.
LEMMA WroteRow ==
    ASSUME IInv, NEW s \in Sessions, NEW w,
           disk' = [disk EXCEPT ![s] = w],
           \/ live' = [live EXCEPT ![s] = Synced(s, w)]
           \/ live' = [live EXCEPT ![s] = Snapshot(w)]
           \/ live' = [live EXCEPT ![s] = None]
    PROVE  Wrote(s, w)
  BY DEF Wrote, Unmoved, Synced, IInv, TypeOK

\* A flush that finds nothing to write changes nothing a step is judged by.
LEMMA FlushIsStep ==
    ASSUME IInv, SnapshotAhead, NEW s \in Sessions, disk[s] # None, UNCHANGED Ledger,
           disk' = [disk EXCEPT ![s] = Flushed(s)],
           live' \in {[live EXCEPT ![s] = AfterFlush(s)], [live EXCEPT ![s] = None]}
    PROVE  SessionStep
  <1>1. CASE live' = [live EXCEPT ![s] = None]
    BY <1>1, WroteRow DEF SessionStep, Flushes
  <1>2. CASE live' = [live EXCEPT ![s] = AfterFlush(s)] /\ Dirty(s)
    <2>1. live' = [live EXCEPT ![s] = Snapshot(Flushed(s))]
      BY <1>2 DEF AfterFlush
    <2> QED BY <2>1, WroteRow DEF SessionStep, Flushes
  <1>3. CASE live' = [live EXCEPT ![s] = AfterFlush(s)] /\ ~Dirty(s)
    <2>1. disk' = disk
      BY <1>3 DEF Flushed, IInv, TypeOK
    <2>2. CASE live[s] = None
      BY <1>3, <2>1, <2>2 DEF AfterFlush, SessionStep, Idles, Unmoved, IInv, TypeOK
    <2>3. CASE live[s] # None
      <3>1. live[s] \in Live
        BY <2>3 DEF IInv, TypeOK
      <3>2. PICK q : q = [live[s] EXCEPT !.timer = FALSE]
        OBVIOUS
      <3>3. q \in Live /\ q.value = live[s].value /\ q.dirty = live[s].dirty
        BY <3>1, <3>2 DEF Live
      <3>4. q # None
        BY <3>3, NoneAssumption
      <3>5. AfterFlush(s) = q
        BY <1>3, <2>3, <3>2 DEF AfterFlush
      <3>6. live' = [live EXCEPT ![s] = q]
        BY <1>3, <3>5
      <3> QED BY <2>1, <2>3, <3>3, <3>4, <3>6 DEF SessionStep, Idles, Unmoved, IInv, TypeOK
    <2> QED BY <2>2, <2>3
  <1> QED BY <1>1, <1>2, <1>3

\* A write that throws leaves both versions as they were.
LEMMA ThrowIsStep ==
    ASSUME IInv, NEW s \in Sessions, FlushThrows(s), UNCHANGED <<disk, Ledger>>
    PROVE  SessionStep
  <1>1. live[s] # None /\ live[s] \in Live
    BY DEF FlushThrows, Dirty, IInv, TypeOK
  <1>2. PICK q : q = [live[s] EXCEPT !.timer = FALSE]
    OBVIOUS
  <1>3. q \in Live /\ q.value = live[s].value /\ q.dirty = live[s].dirty
    BY <1>1, <1>2 DEF Live
  <1>4. q # None
    BY <1>3, NoneAssumption
  <1>5. live' = [live EXCEPT ![s] = q]
    BY <1>2 DEF FlushThrows
  <1> QED BY <1>1, <1>3, <1>4, <1>5 DEF SessionStep, Idles, Unmoved, IInv, TypeOK

\* A transaction of command(), as the actions state it.
LEMMA AcceptIsAccepts ==
    ASSUME IInv, NEW c \in Commands, NEW s \in Sessions, NEW type, NEW w,
           receipts[c] = None, Accept(c, s, type, w),
           UNCHANGED <<retired, emitted, accepted, crashes>>
    PROVE  Accepts(c, s, type, w)
  <1>1. Wrote(s, Saved(w))
    BY WroteRow DEF Accept
  <1> QED BY <1>1 DEF Accept, Accepts

\* Commands that start no turn edit their session (command()).
LEMMA CommandIsStep ==
    ASSUME IInv, NEW c \in Commands, NEW s \in Sessions,
           \/ Configure(c, s) \/ Draft(c, s) \/ RemoveDraft(c, s)
           \/ \E r \in Commands : Cancel(c, s, r)
           \/ \E r \in Commands, n \in Nat, decision \in {"allow", "deny"} :
                Approve(c, s, r, n, decision)
           \/ \E r \in Commands, n \in Nat : Answer(c, s, r, n)
    PROVE  SessionStep
  <1> DEFINE v == Flushed(s)
  <1>1. /\ receipts[c] = None /\ disk[s] # None
        /\ UNCHANGED <<retired, emitted, accepted, crashes>>
    BY DEF Configure, Draft, RemoveDraft, Cancel, Approve, Answer, Names, Fresh, history, bounds
  <1>2. v.status = disk[s].status /\ v.runId = disk[s].runId
    BY <1>1, FlushedRow
  <1>3. \E type \in AllCommandTypes \ {"send", "compact"} : \E w :
          Accept(c, s, type, w) /\ Edits(c, s, v, w)
    <2>1. CASE Configure(c, s)
      BY <2>1 DEF Configure, Edits, AllCommandTypes, history
    <2>2. CASE Draft(c, s)
      BY <2>2 DEF Draft, Edits, AllCommandTypes, history
    <2>3. CASE RemoveDraft(c, s)
      BY <2>3 DEF RemoveDraft, Edits, AllCommandTypes, history
    <2>4. CASE \E r \in Commands : Cancel(c, s, r)
      BY <2>4 DEF Cancel, Edits, AllCommandTypes, history
    <2>5. ASSUME NEW r \in Commands, NEW n \in Nat, NEW decision \in {"allow", "deny"},
                 Approve(c, s, r, n, decision)
          PROVE  \E type \in AllCommandTypes \ {"send", "compact"} : \E w :
                   Accept(c, s, type, w) /\ Edits(c, s, v, w)
      <3>1. /\ Accept(c, s, "approve", Decided(v, n, decision))
            /\ Pending(v, n) # {} /\ Answered(c, s, v.runId, n) /\ v.status = "running"
        BY <1>2, <2>5 DEF Approve, Names
      <3>2. Edits(c, s, v, Decided(v, n, decision))
        BY <3>1 DEF Edits
      <3> QED BY <3>1, <3>2 DEF AllCommandTypes
    <2>6. ASSUME NEW r \in Commands, NEW n \in Nat, Answer(c, s, r, n)
          PROVE  \E type \in AllCommandTypes \ {"send", "compact"} : \E w :
                   Accept(c, s, type, w) /\ Edits(c, s, v, w)
      <3>1. /\ Accept(c, s, "answer", [v EXCEPT !.question = 0])
            /\ v.question # 0 /\ Answered(c, s, v.runId, v.question) /\ v.status = "running"
        BY <1>2, <2>6 DEF Answer, Names
      <3>2. Edits(c, s, v, [v EXCEPT !.question = 0])
        BY <3>1 DEF Edits
      <3> QED BY <3>1, <3>2 DEF AllCommandTypes
    <2> QED BY <2>1, <2>2, <2>3, <2>4, <2>5, <2>6
  <1> HIDE DEF v
  <1>4. \E type \in AllCommandTypes \ {"send", "compact"} : \E w :
          Accepts(c, s, type, w) /\ Edits(c, s, v, w)
    BY <1>1, <1>3, AcceptIsAccepts
  <1>5. Edited(c, s)
    BY <1>1, <1>4 DEF Edited, v
  <1> QED BY <1>5 DEF SessionStep

\* A session is created, a turn started, a session deleted.
LEMMA SendIsStep ==
    ASSUME IInv, NEW c \in Commands, NEW s \in Sessions,
           NEW type, NEW draft, NEW plan, Send(c, s, type, draft, plan)
    PROVE  SessionStep
  <1>1. /\ receipts[c] = None /\ disk[s] # None /\ MayStart(Flushed(s))
        /\ UNCHANGED <<retired, emitted, accepted, answered, crashes>>
        /\ type \in {"send", "compact"}
        /\ plan # None => plan.role = "plan"
    BY DEF Send, Fresh, history, bounds
  <1> DEFINE w == Started(Flushed(s), c, type, plan)
  <1>2. /\ disk' = [disk EXCEPT ![s] = Saved(w)]
        /\ receipts' = [receipts EXCEPT ![c] =
                          [type |-> type, session |-> s, revision |-> Saved(w).revision]]
        /\ live' = [live EXCEPT ![s] = Snapshot(Saved(w))]
    BY DEF Send
  <1> HIDE DEF w
  <1>3. Accepts(c, s, type, w)
    BY <1>1, <1>2, WroteRow DEF Accepts
  <1>4. Sends(c, s)
    BY <1>1, <1>3 DEF Sends, w
  <1> QED BY <1>4 DEF SessionStep

LEMMA CreateIsStep ==
    ASSUME IInv, NEW c \in Commands, NEW s \in Sessions, NEW p \in Projects, Create(c, s, p)
    PROVE  SessionStep
  <1>1. /\ receipts[c] = None /\ disk[s] = None /\ live[s] = None /\ s \notin retired
        /\ UNCHANGED <<retired, emitted, accepted, answered, crashes>>
        /\ Accept(c, s, "create", NewSession(p))
    BY DEF Create, Fresh, history, bounds, IInv, SnapshotOfChain, ChainOnDisk
  <1>2. Accepts(c, s, "create", NewSession(p))
    BY <1>1, AcceptIsAccepts
  <1> QED BY <1>1, <1>2 DEF SessionStep, Creates

LEMMA DeleteIsStep ==
    ASSUME IInv, NEW s \in Sessions, DeleteSession(s)
    PROVE  SessionStep
  <1>1. live[s] = None /\ disk[s] # None /\ disk[s].status # "running"
    BY DEF DeleteSession, IInv, SnapshotOfChain, ChainOnDisk
  <1>2. /\ disk' = [disk EXCEPT ![s] = None] /\ UNCHANGED live
        /\ retired' = retired \cup {s}
        /\ UNCHANGED <<receipts, emitted, accepted, answered, crashes>>
    BY DEF DeleteSession, Retire, engine, history, bounds
  <1>3. disk'[s] = None /\ \A u \in Sessions \ {s} : disk'[u] = disk[u]
    BY <1>2 DEF IInv, TypeOK
  <1> QED BY <1>1, <1>2, <1>3 DEF SessionStep, Deletes, Unmoved

\* A rejected command flushes; a title edit and a generated title retitle.
LEMMA WriteIsStep ==
    ASSUME IInv, SnapshotAhead, NEW s \in Sessions,
           CommandFails(s) \/ CommandFlushThrows(s) \/ UpdateSession(s) \/ TitleGenerated(s)
    PROVE  SessionStep
  <1>1. UNCHANGED Ledger
    BY DEF CommandFails, CommandFlushThrows, UpdateSession, TitleGenerated, Ledger, history,
           bounds, database
  <1>2. CASE CommandFails(s)
    <2>1. disk[s] # None /\ AfterFlush(s) = Snapshot(Flushed(s))
      BY <1>2 DEF CommandFails, Dirty, AfterFlush, IInv, SnapshotOfChain, ChainOnDisk
    <2> QED BY <1>1, <1>2, <2>1, FlushIsStep DEF CommandFails
  <1>3. CASE CommandFlushThrows(s)
    BY <1>1, <1>3, ThrowIsStep DEF CommandFlushThrows, database
  <1>4. ASSUME NEW title \in {"manual", "generated"},
               title = "generated" => TitleAwaited(Flushed(s)), disk[s] # None,
               disk' = [disk EXCEPT ![s] = Saved([Flushed(s) EXCEPT !.title = title])],
               live' = [live EXCEPT ![s] =
                          Synced(s, Saved([Flushed(s) EXCEPT !.title = title]))]
        PROVE  SessionStep
    <2>1. Wrote(s, Saved([Flushed(s) EXCEPT !.title = title]))
      BY <1>4, WroteRow
    <2> QED BY <1>1, <1>4, <2>1 DEF SessionStep, Retitles
  <1>5. CASE UpdateSession(s)
    BY <1>4, <1>5 DEF UpdateSession
  <1>6. CASE TitleGenerated(s)
    <2>1. CASE FlushThrows(s) /\ UNCHANGED disk
      BY <1>1, <2>1, ThrowIsStep
    <2>2. CASE UNCHANGED <<disk, live, faults>>
      BY <1>1, <2>2 DEF SessionStep, Idles, Unmoved
    <2>3. CASE /\ disk[s] # None
               /\ TitleAwaited(Flushed(s))
               /\ disk' = [disk EXCEPT ![s] = Saved([Flushed(s) EXCEPT !.title = "generated"])]
               /\ live' = [live EXCEPT ![s] =
                             Synced(s, Saved([Flushed(s) EXCEPT !.title = "generated"]))]
      BY <1>4, <2>3
    <2>4. CASE /\ disk[s] # None
               /\ disk' = [disk EXCEPT ![s] = Flushed(s)]
               /\ live' = [live EXCEPT ![s] = AfterFlush(s)]
      BY <1>1, <2>4, FlushIsStep
    <2>5. \/ FlushThrows(s) /\ UNCHANGED disk
          \/ UNCHANGED <<disk, live, faults>>
          \/ /\ disk[s] # None
             /\ TitleAwaited(Flushed(s))
             /\ disk' = [disk EXCEPT ![s] = Saved([Flushed(s) EXCEPT !.title = "generated"])]
             /\ live' = [live EXCEPT ![s] =
                           Synced(s, Saved([Flushed(s) EXCEPT !.title = "generated"]))]
          \/ /\ disk[s] # None
             /\ disk' = [disk EXCEPT ![s] = Flushed(s)]
             /\ live' = [live EXCEPT ![s] = AfterFlush(s)]
      BY <1>6 DEF TitleGenerated
    <2> QED BY <2>1, <2>2, <2>3, <2>4, <2>5
  <1> QED BY <1>2, <1>3, <1>5, <1>6

\* A turn is settled by its chain, or its last events are written.
LEMMA SettleIsStep ==
    ASSUME IInv, NEW s \in Sessions, FinishTurn(s) \/ RetrySettles(s)
    PROVE  SessionStep
  <1>1. /\ running[s] # None /\ disk[s] # None
        /\ disk[s].status = "running" /\ disk[s].runId = running[s].runId
    BY DEF FinishTurn, RetrySettles, IInv, ChainOnDisk
  <1>2. Flushed(s).status = "running" /\ Flushed(s).runId = running[s].runId
    BY <1>1, FlushedRow
  <1>3. \E status \in {"idle", "interrupted"},
           message \in {"-", "stopped", "error", "storage", "closed", "restarted"} :
          disk' = [disk EXCEPT ![s] = Saved(Settled(Flushed(s), status, message))]
    <2>1. CASE FinishTurn(s)
      <3>1. disk' = [disk EXCEPT ![s] =
                       Saved(Settled(Flushed(s), Outcome(s)[1], Outcome(s)[2]))]
        BY <1>2, <2>1 DEF FinishTurn
      <3>2. Outcome(s) \in {<<"interrupted", "closed">>, <<"interrupted", "storage">>,
                            <<"idle", "stopped">>, <<"idle", "error">>, <<"idle", "-">>}
        BY DEF Outcome
      <3>3. /\ Outcome(s)[1] \in {"idle", "interrupted"}
            /\ Outcome(s)[2] \in {"-", "stopped", "error", "storage", "closed", "restarted"}
        BY <3>2
      <3> QED BY <3>1, <3>3
    <2>2. CASE RetrySettles(s)
      <3>1. disk' = [disk EXCEPT ![s] =
                       Saved(Settled(Flushed(s), "interrupted", "storage"))]
        BY <1>2, <2>2 DEF RetrySettles
      <3> QED BY <3>1
    <2> QED BY <2>1, <2>2
  <1>4. live' = [live EXCEPT ![s] = None] /\ UNCHANGED Ledger
    BY DEF FinishTurn, RetrySettles, Retire, Ledger, history, bounds
  <1>5. PICK status \in {"idle", "interrupted"},
             message \in {"-", "stopped", "error", "storage", "closed", "restarted"} :
          disk' = [disk EXCEPT ![s] = Saved(Settled(Flushed(s), status, message))]
    BY <1>3
  <1>6. Wrote(s, Saved(Settled(Flushed(s), status, message)))
    BY <1>4, <1>5, WroteRow
  <1> QED BY <1>1, <1>4, <1>6 DEF SessionStep, Settles

LEMMA FailureIsStep ==
    ASSUME IInv, SnapshotAhead, NEW s \in Sessions,
           \/ FinishTurnFails(s) \/ RetryFails(s) \/ TimerFlush(s) \/ TimerFlushThrows(s)
    PROVE  SessionStep
  <1>1. UNCHANGED Ledger
    BY DEF FinishTurnFails, RetryFails, TimerFlush, TimerFlushThrows, Ledger, history, bounds,
           database
  <1>2. disk[s] # None
    BY DEF FinishTurnFails, RetryFails, TimerFlush, TimerFlushThrows, FlushThrows, Dirty,
           IInv, SnapshotOfChain, ChainOnDisk
  <1>3. \/ FlushThrows(s) /\ UNCHANGED disk
        \/ /\ disk' = [disk EXCEPT ![s] = Flushed(s)]
           /\ live' \in {[live EXCEPT ![s] = AfterFlush(s)], [live EXCEPT ![s] = None]}
    BY DEF FinishTurnFails, RetryFails, TimerFlush, TimerFlushThrows, Retire, database
  <1> QED BY <1>1, <1>2, <1>3, ThrowIsStep, FlushIsStep

\* An event is taken in by the turn it belongs to (event()).
LEMMA EventIsStep ==
    ASSUME IInv, NEW s \in Sessions, NEW r \in Commands, NEW kind \in AllEventKinds,
           ProviderEvent(s, r, kind)
    PROVE  SessionStep
  <1> DEFINE n == emitted[r] + 1
             value == Applied(live[s].value, r, n, kind)
  <1>1. live[s] # None /\ live[s].value.runId = r /\ live[s].value.status = "running"
    BY DEF ProviderEvent, Listens
  <1>2. /\ emitted' = [emitted EXCEPT ![r] = n]
        /\ accepted' = accepted \cup {<<s, r, n, kind>>}
        /\ UNCHANGED <<receipts, retired, answered, crashes>>
    BY DEF ProviderEvent
  <1>3. PICK w : w = value
    OBVIOUS
  <1>4. \/ \E timer \in BOOLEAN :
             /\ live' = [live EXCEPT ![s] = [value |-> w, dirty |-> TRUE, timer |-> timer]]
             /\ UNCHANGED disk
        \/ /\ disk' = [disk EXCEPT ![s] = Saved(w)]
           /\ live' = [live EXCEPT ![s] = Snapshot(Saved(w))]
    BY <1>3 DEF ProviderEvent
  <1>5. w \in HostSession
    <2>1. live[s].value \in HostSession /\ n \in Nat
      BY <1>1 DEF IInv, TypeOK, Live
    <2> QED BY <1>3, <2>1, AppliedSession
  <1> HIDE DEF value
  <1>6. ASSUME NEW timer \in BOOLEAN, UNCHANGED disk,
               live' = [live EXCEPT ![s] = [value |-> w, dirty |-> TRUE, timer |-> timer]]
        PROVE  /\ disk'[s] = disk[s]
               /\ live'[s] # None /\ live'[s].value = w /\ live'[s].dirty
               /\ \A u \in Sessions \ {s} : Unmoved(u)
    <2>1. PICK q \in Live : q = [value |-> w, dirty |-> TRUE, timer |-> timer]
      BY <1>5 DEF Live
    <2>2. q # None /\ q.value = w /\ q.dirty
      BY <2>1, NoneAssumption
    <2>3. live' = [live EXCEPT ![s] = q]
      BY <1>6, <2>1
    <2> QED BY <1>6, <2>2, <2>3 DEF Unmoved, IInv, TypeOK
  <1>7. ASSUME disk' = [disk EXCEPT ![s] = Saved(w)],
               live' = [live EXCEPT ![s] = Snapshot(Saved(w))]
        PROVE  Wrote(s, Saved(w)) /\ live'[s] # None
    <2>1. Snapshot(Saved(w)) \in Live
      BY <1>5, SavedSession, SnapshotLive
    <2>2. live'[s] = Snapshot(Saved(w))
      BY <1>7 DEF IInv, TypeOK
    <2> QED BY <1>7, <2>1, <2>2, NoneAssumption, WroteRow
  <1>8. \/ Wrote(s, Saved(w)) /\ live'[s] # None
        \/ /\ disk'[s] = disk[s]
           /\ live'[s] # None /\ live'[s].value = w /\ live'[s].dirty
           /\ \A u \in Sessions \ {s} : Unmoved(u)
    BY <1>4, <1>6, <1>7
  <1>9. TakesIn(s, r, kind)
    BY <1>1, <1>2, <1>3, <1>8 DEF TakesIn, value
  <1> QED BY <1>9 DEF SessionStep

\* Chains that move on, adapters, their processes, switches and close() leave all
\* versions as they are.
LEMMA QuietIsStep ==
    ASSUME \/ SwitchStep \/ Close
           \/ \E s \in Sessions :
                \/ StartTurn(s) \/ SendSettles(s) \/ RetryFires(s)
                \/ Spawn(s) \/ OpeningFails(s) \/ ProviderReady(s) \/ TurnEnds(s)
                \/ ChildExits(s) \/ \E r \in Commands : ProcessGone(s, r)
           \/ UNCHANGED vars
    PROVE  SessionStep
  <1>1. UNCHANGED <<disk, live, Ledger>>
    BY DEF SwitchStep, BeginSwitch, EndSwitch, Close, StartTurn, SendSettles, RetryFires, Spawn,
           OpeningFails, ProviderReady, TurnEnds, ChildExits, ProcessGone, vars, database, engine,
           history, bounds, Ledger
  <1> QED BY <1>1 DEF SessionStep, Idles, Unmoved

\* The host goes down and starts again.
LEMMA HostIsStep ==
    ASSUME IInv, Exit \/ Crash \/ Restart
    PROVE  SessionStep
  <1>1. CASE Exit \/ Crash
    <2>1. Falls
      BY <1>1 DEF Exit, Crash, Down, Falls, database, history
    <2> QED BY <2>1 DEF SessionStep
  <1>2. CASE Restart
    <2>1. UNCHANGED <<live, Ledger>>
      BY <1>2 DEF Restart, Ledger, history
    <2>2. \A s \in Sessions : live[s] = None
      BY <1>2 DEF Restart, IInv, SnapshotOfChain, ChainOnDisk
    <2>3. ASSUME NEW s \in Sessions
          PROVE  \/ disk'[s] = disk[s]
                 \/ /\ disk[s] # None /\ disk[s].status = "running"
                    /\ disk'[s] = Saved(Settled(disk[s], "interrupted", "restarted"))
      <3>1. PICK S \in SUBSET Interrupted :
              disk' = [u \in Sessions |->
                         IF u \in S THEN Saved(Settled(disk[u], "interrupted", "restarted"))
                         ELSE disk[u]]
        BY <1>2 DEF Restart
      <3> QED BY <3>1 DEF Interrupted
    <2> QED BY <2>1, <2>2, <2>3 DEF SessionStep, Restarts
  <1> QED BY <1>1, <1>2

LEMMA NextIsStep ==
    ASSUME IInv, SnapshotAhead, [Next]_vars
    PROVE  SessionStep
  <1>1. CASE ClientStep
    <2>1. PICK s \in Sessions :
            \/ \E c \in Commands :
                 \/ \E p \in Projects : Create(c, s, p)
                 \/ Configure(c, s) \/ Draft(c, s) \/ RemoveDraft(c, s)
                 \/ \E type, draft, plan : Send(c, s, type, draft, plan)
                 \/ \E r \in Commands : Cancel(c, s, r)
                 \/ \E r \in Commands, n \in Nat, decision \in {"allow", "deny"} :
                      Approve(c, s, r, n, decision)
                 \/ \E r \in Commands, n \in Nat : Answer(c, s, r, n)
            \/ CommandFails(s) \/ CommandFlushThrows(s) \/ UpdateSession(s)
            \/ DeleteSession(s)
      BY <1>1, ConstantsAssumption DEF ClientStep
    <2> QED BY <2>1, CreateIsStep, CommandIsStep, SendIsStep, WriteIsStep, DeleteIsStep
  <1>2. CASE SwitchStep \/ Close \/ UNCHANGED vars
    BY <1>2, QuietIsStep
  <1>3. ASSUME NEW s \in Sessions, TurnStep(s) \/ ProviderStep(s)
        PROVE  SessionStep
    BY <1>3, QuietIsStep, SettleIsStep, FailureIsStep, WriteIsStep, EventIsStep
       DEF TurnStep, ProviderStep
  <1>4. CASE Exit \/ Crash \/ Restart
    BY <1>4, HostIsStep
  <1> QED BY <1>1, <1>2, <1>3, <1>4 DEF Next, HostStep

-----------------------------------------------------------------------------
(* One session's step keeps all sessions in order *)

\* The record of a step is about session s: a receipt, an event or a decision of its.
LedgerOf(s) ==
    /\ \/ receipts' = receipts
       \/ \E c \in Commands, q \in Receipt :
            receipts[c] = None /\ q.session = s /\ receipts' = [receipts EXCEPT ![c] = q]
    /\ \/ emitted' = emitted
       \/ \E r \in Commands : emitted' = [emitted EXCEPT ![r] = emitted[r] + 1]
    /\ \/ answered' = answered
       \/ \E a : /\ answered' = answered \cup {a}
                 /\ a.run \in Commands
                 /\ receipts[a.run] # None /\ receipts[a.run].session = s

\* Such a record keeps the versions of the other sessions in order.
LEMMA OthersInOrder ==
    ASSUME IInv, NEW s \in Sessions, LedgerOf(s), NEW u \in Sessions, u # s,
           NEW v \in HostSession, SessionOK(u, v, receipts, emitted, answered)
    PROVE  SessionOK(u, v, receipts', emitted', answered')
  <1>1. v.runId \in Run /\ v.blocks \in Transcript /\ v.question \in Nat
    BY DEF HostSession
  <1>2. \A c \in Commands : receipts[c] # None => receipts'[c] = receipts[c]
    BY DEF LedgerOf, IInv, TypeOK
  <1>3. \A c \in Commands : receipts'[c] # None /\ receipts'[c].type \in {"send", "compact"}
                            /\ receipts'[c].session = u => receipts'[c] = receipts[c]
    BY DEF LedgerOf, IInv, TypeOK
  <1>4. \A c \in Commands : emitted[c] \in Nat /\ emitted'[c] \in Nat /\ emitted[c] <= emitted'[c]
    BY DEF LedgerOf, IInv, TypeOK
  <1>5. \A a \in answered' : a \in answered \/ a.run # v.runId
    <2>1. v.runId # None => receipts[v.runId] # None /\ receipts[v.runId].session = u
      BY DEF SessionOK, TurnOK
    <2>2. CASE answered' = answered
      BY <2>2
    <2>3. ASSUME NEW a, answered' = answered \cup {a}, a.run \in Commands,
                 receipts[a.run] # None, receipts[a.run].session = s, a.run = v.runId,
                 a \notin answered
          PROVE  FALSE
      <3>1. v.runId = None
        BY <2>1, <2>3
      <3> QED BY <2>3, <3>1, ConstantsAssumption
    <2> QED BY <2>2, <2>3 DEF LedgerOf
  <1> QED BY <1>1, <1>2, <1>3, <1>4, <1>5, GrownLedger

\* The later version of session s is now w; the row is w, or stays behind it.
Succeeds(s, w) ==
    /\ \A u \in Sessions \ {s} : Unmoved(u)
    /\ disk'[s] # None
    /\ SessionOK(s, disk'[s], receipts', emitted', answered')
    /\ live'[s] = None => disk'[s] = w
    /\ live'[s] # None =>
         /\ live'[s].value = w
         /\ w.revision = disk'[s].revision /\ w.title = disk'[s].title
         /\ w.runId = disk'[s].runId /\ w.project = disk'[s].project
         /\ ~live'[s].dirty => w = disk'[s]

\* A session's new version keeps the order if it is in order itself and keeps what the
\* later of the old versions held.
LEMMA SuccessorInOrder ==
    ASSUME IInv, IInv', VInv, NEW s \in Sessions, NEW w \in HostSession, LedgerOf(s),
           Succeeds(s, w), SessionOK(s, w, receipts', emitted', answered'),
           IF disk[s] = None THEN s \notin retired ELSE Keeps(Latest(s), w),
           UNCHANGED <<retired, crashes>>,
           \A e \in accepted' :
             \/ e \in accepted
             \/ e[1] = s /\ (e[4] \in {"text", "approval"} => OutputIn(w, e)),
           DecisionsOK'
    PROVE  VInv'
  <1>1. \A u \in Sessions \ {s} : Unmoved(u)
    BY DEF Succeeds
  <1>2. SnapshotAhead'
    <2>1. ASSUME NEW u \in Sessions, live'[u] # None
          PROVE  /\ disk'[u] # None
                 /\ live'[u].value.revision = disk'[u].revision
                 /\ live'[u].value.title = disk'[u].title
                 /\ live'[u].value.runId = disk'[u].runId
                 /\ live'[u].value.project = disk'[u].project
                 /\ ~live'[u].dirty => live'[u].value = disk'[u]
      <3>1. CASE u = s
        BY <2>1, <3>1 DEF Succeeds
      <3>2. CASE u # s
        BY <1>1, <2>1, <3>2 DEF Unmoved, VInv, SnapshotAhead
      <3> QED BY <3>1, <3>2
    <2> QED BY <2>1 DEF SnapshotAhead
  <1>3. VersionsOK'
    <2>1. ASSUME NEW u \in Sessions
          PROVE  /\ disk'[u] # None =>
                      SessionOK(u, disk'[u], receipts', emitted', answered')
                 /\ live'[u] # None =>
                      SessionOK(u, live'[u].value, receipts', emitted', answered')
      <3>1. CASE u = s
        BY <3>1 DEF Succeeds
      <3>2. CASE u # s
        <4>1. Unmoved(u)
          BY <1>1, <3>2
        <4>2. disk[u] # None => disk[u] \in HostSession
          BY DEF IInv, TypeOK
        <4>3. live[u] # None => live[u].value \in HostSession
          BY DEF IInv, TypeOK, Live
        <4>4. disk[u] # None => SessionOK(u, disk[u], receipts', emitted', answered')
          BY <3>2, <4>2, OthersInOrder DEF VInv, VersionsOK
        <4>5. live[u] # None => SessionOK(u, live[u].value, receipts', emitted', answered')
          BY <3>2, <4>3, OthersInOrder DEF VInv, VersionsOK
        <4> QED BY <4>1, <4>4, <4>5 DEF Unmoved
      <3> QED BY <3>1, <3>2
    <2> QED BY <2>1 DEF VersionsOK
  <1>4. ReceiptHasSession'
    <2>1. ASSUME NEW c \in Commands,
                 receipts'[c] # None, receipts'[c].type \in {"send", "compact"}
          PROVE  receipts'[c].session \in retired' \/ disk'[receipts'[c].session] # None
      <3>1. CASE receipts'[c].session = s
        BY <3>1 DEF Succeeds
      <3>2. CASE receipts'[c].session # s
        <4>1. receipts'[c] = receipts[c]
          BY <3>2 DEF LedgerOf, IInv, TypeOK
        <4>2. receipts[c].session \in Sessions
          BY <2>1, <4>1 DEF IInv, TypeOK, Receipt
        <4> QED BY <1>1, <2>1, <3>2, <4>1, <4>2 DEF Unmoved, VInv, ReceiptHasSession
      <3> QED BY <3>1, <3>2
    <2> QED BY <2>1 DEF ReceiptHasSession
  <1>5. OutputInLatest'
    <2>1. ASSUME crashes' = 0, NEW e \in accepted', e[4] \in {"text", "approval"},
                 e[1] \notin retired'
          PROVE  disk'[e[1]] # None /\ OutputIn(Latest(e[1])', e)
      <3>1. e[1] \in Sessions /\ e[4] \in AllEventKinds
        BY DEF IInv, TypeOK
      <3>2. CASE e \notin accepted
        BY <2>1, <3>2 DEF Succeeds, Latest
      <3>3. CASE e \in accepted
        <4>1. disk[e[1]] # None /\ OutputIn(Latest(e[1]), e)
          BY <2>1, <3>3 DEF VInv, OutputInLatest
        <4>2. CASE e[1] # s
          <5>1. Unmoved(e[1])
            BY <1>1, <3>1, <4>2
          <5> QED BY <4>1, <5>1 DEF Unmoved, Latest
        <4>3. CASE e[1] = s
          <5>1. Latest(s)' = w
            BY DEF Latest, Succeeds
          <5>2. BlocksOK(Latest(s)) /\ Keeps(Latest(s), w)
            BY <4>1, <4>3 DEF VInv, VersionsOK, SessionOK, Latest
          <5>3. PICK b \in Latest(s).blocks : b.role = e[4] /\ b.by = e[2] /\ b.n = e[3]
            BY <4>1, <4>3 DEF OutputIn, HasBlock
          <5>4. b.mark # "draft" /\ b.role # "plan"
            BY <2>1, <5>2, <5>3 DEF BlocksOK
          <5>5. OutputIn(w, e)
            BY <5>2, <5>3, <5>4 DEF Keeps, OutputIn, HasBlock
          <5> QED BY <4>3, <5>1, <5>5 DEF Succeeds
        <4> QED BY <4>2, <4>3
      <3> QED BY <3>2, <3>3
    <2> QED BY <2>1 DEF OutputInLatest
  <1> QED BY <1>2, <1>3, <1>4, <1>5 DEF VInv

\* What the next write starts from: the later version, in order, under the row's name.
LEMMA FlushedOK ==
    ASSUME IInv, VInv, NEW s \in Sessions, disk[s] # None
    PROVE  /\ Flushed(s) \in HostSession
           /\ SessionOK(s, Flushed(s), receipts, emitted, answered)
           /\ SameTurn(Latest(s), Flushed(s))
           /\ Flushed(s).status = disk[s].status /\ Flushed(s).runId = disk[s].runId
           /\ Flushed(s).title = disk[s].title /\ Flushed(s).project = disk[s].project
           /\ disk[s].status # "running" => Flushed(s) = disk[s]
  <1>1. /\ Flushed(s) \in HostSession
        /\ Flushed(s).status = disk[s].status /\ Flushed(s).runId = disk[s].runId
    BY FlushedRow
  <1>2. CASE Dirty(s)
    <2>1. live[s] # None /\ live[s].value \in HostSession /\ Flushed(s) = Saved(live[s].value)
      BY <1>2 DEF Dirty, Flushed, IInv, TypeOK, Live
    <2>2. Latest(s) = live[s].value
      BY <2>1 DEF Latest
    <2>3. /\ SameTurn(live[s].value, Saved(live[s].value))
          /\ Saved(live[s].value).title = live[s].value.title
          /\ Saved(live[s].value).project = live[s].value.project
      BY <2>1, SavedIsSameTurn
    <2>4. /\ live[s].value.title = disk[s].title /\ live[s].value.project = disk[s].project
          /\ SessionOK(s, live[s].value, receipts, emitted, answered)
      BY <2>1 DEF VInv, SnapshotAhead, VersionsOK
    <2>5. SessionOK(s, Flushed(s), receipts, emitted, answered)
      BY <2>1, <2>3, <2>4, SameTurnOK
    <2>6. disk[s].status = "running"
      BY <2>1 DEF IInv, SnapshotOfChain, ChainOnDisk
    <2> QED BY <1>1, <2>1, <2>2, <2>3, <2>4, <2>5, <2>6
  <1>3. CASE ~Dirty(s)
    <2>1. Flushed(s) = disk[s]
      BY <1>3 DEF Flushed
    <2>2. Latest(s) = disk[s]
      BY <1>3 DEF Latest, Dirty, VInv, SnapshotAhead
    <2> QED BY <1>1, <2>1, <2>2 DEF SameTurn, VInv, VersionsOK
  <1> QED BY <1>2, <1>3

\* A record that holds no new decision keeps the old ones in order.
LEMMA DecisionsStay ==
    ASSUME IInv, VInv, NEW s \in Sessions, LedgerOf(s), UNCHANGED answered
    PROVE  DecisionsOK'
  <1>1. \A a \in answered : a.run \in Commands /\ a.n \in Nat
    BY DEF IInv, TypeOK
  <1>2. \A c \in Commands : receipts[c] # None => receipts'[c] # None
    BY NoneAssumption DEF LedgerOf, IInv, TypeOK
  <1>3. \A c \in Commands : emitted[c] \in Nat /\ emitted'[c] \in Nat /\ emitted[c] <= emitted'[c]
    BY DEF LedgerOf, IInv, TypeOK
  <1>4. AnsweredOnce'
    BY DEF VInv, DecisionsOK, AnsweredOnce
  <1>5. \A a \in answered' : receipts'[a.run] # None /\ a.n <= emitted'[a.run]
    BY <1>1, <1>2, <1>3 DEF VInv, DecisionsOK
  <1> QED BY <1>4, <1>5 DEF DecisionsOK

\* A written row and its snapshot, if any, are the same version.
LEMMA WroteSucceeds ==
    ASSUME NEW s \in Sessions, NEW w \in HostSession, Wrote(s, w),
           SessionOK(s, w, receipts', emitted', answered')
    PROVE  Succeeds(s, w)
  <1>1. w # None /\ Snapshot(w).value = w
    BY SnapshotLive, NoneAssumption
  <1>2. live'[s] # None => live'[s] = Snapshot(w)
    BY DEF Wrote
  <1> QED BY <1>1, <1>2 DEF Wrote, Succeeds

\* So a write that keeps the version it starts from keeps everything in order.
LEMMA WrittenInOrder ==
    ASSUME IInv, IInv', VInv, NEW s \in Sessions, disk[s] # None,
           NEW w \in HostSession, Wrote(s, w), LedgerOf(s),
           SessionOK(s, w, receipts', emitted', answered'), Keeps(Flushed(s), w),
           UNCHANGED <<retired, crashes, accepted>>, DecisionsOK'
    PROVE  VInv'
  <1>1. Succeeds(s, w)
    BY WroteSucceeds
  <1>2. Keeps(Latest(s), w)
    BY FlushedOK DEF Keeps, SameTurn
  <1> QED BY <1>1, <1>2, SuccessorInOrder

-----------------------------------------------------------------------------
(* Every kind of step keeps VInv *)

\* Flushing, retitling and settling a session.
LEMMA RewritesInOrder ==
    ASSUME IInv, IInv', VInv, NEW s \in Sessions, Flushes(s) \/ Retitles(s) \/ Settles(s)
    PROVE  VInv'
  <1>1. /\ UNCHANGED <<receipts, retired, emitted, accepted, answered, crashes>>
        /\ disk[s] # None
    BY DEF Flushes, Retitles, Settles, Ledger
  <1>2. LedgerOf(s)
    BY <1>1 DEF LedgerOf
  <1>3. DecisionsOK'
    BY <1>1, <1>2, DecisionsStay
  <1>4. Flushed(s) \in HostSession /\ SessionOK(s, Flushed(s), receipts, emitted, answered)
    BY <1>1, FlushedOK
  <1>5. \E w \in HostSession :
          Wrote(s, w) /\ SessionOK(s, w, receipts, emitted, answered) /\ Keeps(Flushed(s), w)
    <2>1. CASE Flushes(s)
      BY <1>4, <2>1 DEF Flushes, Keeps
    <2>2. CASE Retitles(s)
      <3>1. PICK title \in {"manual", "generated"} :
              Wrote(s, Saved([Flushed(s) EXCEPT !.title = title]))
        BY <2>2 DEF Retitles
      <3>2. PICK w : w = Saved([Flushed(s) EXCEPT !.title = title])
        OBVIOUS
      <3>3. SameTurn(Flushed(s), w)
        BY <1>4, <3>2, SavedIsSameTurn
      <3>4. w \in HostSession
        <4>1. [Flushed(s) EXCEPT !.title = title] \in HostSession
          BY <1>4 DEF HostSession, Title
        <4> QED BY <3>2, <4>1, SavedSession
      <3>5. SessionOK(s, w, receipts, emitted, answered) /\ Keeps(Flushed(s), w)
        BY <1>4, <3>3, SameTurnOK
      <3> QED BY <3>1, <3>2, <3>4, <3>5
    <2>3. CASE Settles(s)
      <3>1. PICK status \in {"idle", "interrupted"},
                 message \in {"-", "stopped", "error", "storage", "closed", "restarted"} :
              Wrote(s, Saved(Settled(Flushed(s), status, message)))
        BY <2>3 DEF Settles
      <3>2. PICK v : v = Settled(Flushed(s), status, message)
        OBVIOUS
      <3>3. /\ v \in HostSession /\ Keeps(Flushed(s), v)
            /\ SessionOK(s, v, receipts, emitted, answered)
        BY <1>4, <3>2, SettledOK, SettledSession
      <3>4. Saved(v) \in HostSession /\ SameTurn(v, Saved(v))
        BY <3>3, SavedIsSameTurn
      <3>5. SessionOK(s, Saved(v), receipts, emitted, answered)
        BY <3>3, <3>4, SameTurnOK
      <3>6. Keeps(Flushed(s), Saved(v))
        BY <3>3, <3>4 DEF Keeps, SameTurn
      <3> QED BY <3>1, <3>2, <3>4, <3>5, <3>6
    <2> QED BY <2>1, <2>2, <2>3
  <1>6. PICK w \in HostSession :
          Wrote(s, w) /\ SessionOK(s, w, receipts, emitted, answered) /\ Keeps(Flushed(s), w)
    BY <1>5
  <1>7. SessionOK(s, w, receipts', emitted', answered')
    BY <1>1, <1>6
  <1> QED BY <1>1, <1>2, <1>3, <1>6, <1>7, WrittenInOrder

\* The receipt that a command leaves is about its session.
LEMMA AcceptedReceipt ==
    ASSUME IInv, NEW c \in Commands, NEW s \in Sessions, NEW type \in AllCommandTypes,
           NEW w \in HostSession, Accepts(c, s, type, w)
    PROVE  /\ Saved(w) \in HostSession /\ SameTurn(w, Saved(w))
           /\ \E q \in Receipt : /\ receipts[c] = None /\ q.session = s /\ q.type = type
                                 /\ receipts' = [receipts EXCEPT ![c] = q]
           /\ UNCHANGED <<retired, emitted, accepted, crashes>>
  <1>1. Saved(w) \in HostSession /\ SameTurn(w, Saved(w))
    BY SavedIsSameTurn
  <1>2. Saved(w).revision \in Nat
    BY <1>1 DEF HostSession
  <1>3. [type |-> type, session |-> s, revision |-> Saved(w).revision] \in Receipt
    BY <1>2 DEF Receipt
  <1> QED BY <1>1, <1>3 DEF Accepts

\* A decision or an answer is the first one for its request, and reaches the turn that
\* asked, or nobody.
LEMMA DecisionInOrder ==
    ASSUME IInv, TInv, NEW c \in Commands, NEW s \in Sessions, disk[s] # None,
           NEW n \in Nat, Flushed(s).status = "running",
           Answered(c, s, Flushed(s).runId, n),
           n <= emitted[Flushed(s).runId],
           \A b \in answered : b.run = Flushed(s).runId => b.n # n,
           UNCHANGED emitted,
           \A d \in Commands : receipts[d] # None => receipts'[d] # None
    PROVE  /\ DecisionsOK'
           /\ \E a : /\ answered' = answered \cup {a}
                     /\ a.run \in Commands /\ a.n = n
                     /\ receipts[a.run] # None /\ receipts[a.run].session = s
  <1>1. PICK r : r = Flushed(s).runId
    OBVIOUS
  <1>2. /\ r \in Commands /\ receipts[r] # None /\ receipts[r].session = s
        /\ disk[s].status = "running" /\ disk[s].runId = r
    <2>1. /\ Flushed(s) \in HostSession /\ TurnOK(s, Flushed(s), receipts)
          /\ disk[s].status = "running" /\ disk[s].runId = r
      BY <1>1, FlushedOK DEF TInv, SessionOK
    <2> QED BY <1>1, <2>1 DEF TurnOK, HostSession, Run
  <1>3. PICK to : to = IF prov[s].phase = "turn" THEN prov[s].run ELSE None
    OBVIOUS
  <1>4. to \in {None, r}
    BY <1>2, <1>3 DEF TInv, AdapterOfChain, IInv, ChainOnDisk
  <1>5. PICK a : a = [command |-> c, run |-> r, n |-> n, to |-> to]
    OBVIOUS
  <1>6. a.run = r /\ a.n = n /\ a.to = to
    BY <1>5
  <1>7. answered' = answered \cup {a}
    BY <1>1, <1>3, <1>5 DEF Answered
  <1>8. AnsweredOnce'
    <2>1. \A b \in answered : b.to \in {None, b.run}
      BY DEF TInv, VInv, DecisionsOK, AnsweredOnce
    <2>2. \A b, d \in answered : b.run = d.run /\ b.n = d.n => b = d
      BY DEF TInv, VInv, DecisionsOK, AnsweredOnce
    <2>3. \A b \in answered : ~(b.run = a.run /\ b.n = a.n)
      BY <1>1, <1>6
    <2> QED BY <1>4, <1>6, <1>7, <2>1, <2>2, <2>3 DEF AnsweredOnce
  <1>9. \A b \in answered' : receipts'[b.run] # None /\ b.n <= emitted'[b.run]
    <2>1. \A b \in answered : b.run \in Commands /\ receipts[b.run] # None
                              /\ b.n <= emitted[b.run]
      BY DEF TInv, VInv, DecisionsOK, IInv, TypeOK
    <2> QED BY <1>1, <1>2, <1>6, <1>7, <2>1
  <1> QED BY <1>2, <1>6, <1>7, <1>8, <1>9 DEF DecisionsOK

\* Drafts, settings, decisions and answers.
LEMMA EditsInOrder ==
    ASSUME IInv, IInv', TInv, NEW c \in Commands, NEW s \in Sessions, Edited(c, s)
    PROVE  VInv'
  <1>1. disk[s] # None /\ VInv
    BY DEF Edited, TInv
  <1>2. PICK v \in HostSession : v = Flushed(s)
    BY <1>1, FlushedOK
  <1>3. SessionOK(s, v, receipts, emitted, answered)
    BY <1>1, <1>2, FlushedOK
  <1>kind. PICK type \in AllCommandTypes \ {"send", "compact"} :
          \E w : Accepts(c, s, type, w) /\ Edits(c, s, v, w)
    BY <1>2 DEF Edited
  <1>4. PICK w : Accepts(c, s, type, w) /\ Edits(c, s, v, w)
    BY <1>kind
  <1> DEFINE draft == [role |-> "user", turn |-> None, by |-> c, n |-> 0, mark |-> "draft"]
  <1>5. CASE w \in HostSession /\ UNCHANGED answered
             /\ SessionOK(s, w, receipts, emitted, answered) /\ Keeps(v, w)
    <2>1. PICK q \in Receipt : /\ receipts[c] = None /\ q.session = s /\ q.type = type
                               /\ receipts' = [receipts EXCEPT ![c] = q]
      BY <1>4, <1>5, AcceptedReceipt
    <2>2. /\ Saved(w) \in HostSession /\ SameTurn(w, Saved(w)) /\ Wrote(s, Saved(w))
          /\ UNCHANGED <<retired, emitted, accepted, crashes>>
      BY <1>4, <1>5, AcceptedReceipt DEF Accepts
    <2>3. LedgerOf(s)
      BY <1>5, <2>1, <2>2 DEF LedgerOf
    <2>4. SessionOK(s, w, receipts', emitted', answered')
      <3>1. /\ w.runId \in Run /\ w.blocks \in Transcript /\ w.question \in Nat
        BY <1>5 DEF HostSession
      <3>2. /\ \A d \in Commands : receipts[d] # None => receipts'[d] = receipts[d]
            /\ \A d \in Commands : receipts'[d] # None /\ receipts'[d].type \in {"send", "compact"}
                                   /\ receipts'[d].session = s => receipts'[d] = receipts[d]
        BY <1>4, <2>1 DEF IInv, TypeOK
      <3>3. \A d \in Commands : emitted[d] \in Nat /\ emitted'[d] \in Nat /\ emitted[d] <= emitted'[d]
        BY <2>2 DEF IInv, TypeOK
      <3> QED BY <1>5, <3>1, <3>2, <3>3, GrownLedger
    <2>5. SessionOK(s, Saved(w), receipts', emitted', answered')
      BY <2>2, <2>4, SameTurnOK
    <2>6. Keeps(Flushed(s), Saved(w))
      BY <1>2, <1>5, <2>2 DEF Keeps, SameTurn
    <2>7. DecisionsOK'
      BY <1>1, <1>5, <2>3, DecisionsStay
    <2> QED BY <1>1, <2>2, <2>3, <2>5, <2>6, <2>7, WrittenInOrder
  <1>6. ASSUME NEW n \in Nat, v.status = "running", Answered(c, s, v.runId, n),
               w \in HostSession, Keeps(v, w), w.runId = v.runId,
               n <= emitted[v.runId], \A b \in answered : b.run = v.runId => b.n # n,
               \A a : a.n = n => SessionOK(s, w, receipts, emitted, answered \cup {a})
        PROVE  VInv'
    <2>1. PICK q \in Receipt : /\ receipts[c] = None /\ q.session = s /\ q.type = type
                               /\ receipts' = [receipts EXCEPT ![c] = q]
      BY <1>4, <1>6, AcceptedReceipt
    <2>2. /\ Saved(w) \in HostSession /\ SameTurn(w, Saved(w)) /\ Wrote(s, Saved(w))
          /\ UNCHANGED <<retired, emitted, accepted, crashes>>
      BY <1>4, <1>6, AcceptedReceipt DEF Accepts
    <2>3. /\ \A d \in Commands : receipts[d] # None => receipts'[d] = receipts[d]
          /\ \A d \in Commands : receipts'[d] # None /\ receipts'[d].type \in {"send", "compact"}
                                 /\ receipts'[d].session = s => receipts'[d] = receipts[d]
      BY <1>4, <2>1 DEF IInv, TypeOK
    <2>4. /\ DecisionsOK'
          /\ \E a : /\ answered' = answered \cup {a}
                    /\ a.run \in Commands /\ a.n = n
                    /\ receipts[a.run] # None /\ receipts[a.run].session = s
      <3>1. \A d \in Commands : receipts[d] # None => receipts'[d] # None
        BY <2>3
      <3> QED BY <1>1, <1>2, <1>6, <2>2, <3>1, DecisionInOrder
    <2>5. LedgerOf(s)
      BY <2>1, <2>2, <2>4 DEF LedgerOf
    <2>6. SessionOK(s, w, receipts', emitted', answered')
      <3>1. SessionOK(s, w, receipts, emitted, answered')
        BY <1>6, <2>4
      <3>2. /\ w.runId \in Run /\ w.blocks \in Transcript /\ w.question \in Nat
        BY <1>6 DEF HostSession
      <3>3. \A d \in Commands : emitted[d] \in Nat /\ emitted'[d] \in Nat /\ emitted[d] <= emitted'[d]
        BY <2>2 DEF IInv, TypeOK
      <3> QED BY <2>3, <3>1, <3>2, <3>3, GrownLedger
    <2>7. SessionOK(s, Saved(w), receipts', emitted', answered')
      BY <2>2, <2>6, SameTurnOK
    <2>8. Keeps(Flushed(s), Saved(w))
      BY <1>2, <1>6, <2>2 DEF Keeps, SameTurn
    <2> QED BY <1>1, <2>2, <2>4, <2>5, <2>7, <2>8, WrittenInOrder
  <1>7. CASE w = v /\ UNCHANGED answered
    BY <1>3, <1>5, <1>7 DEF Keeps
  <1>8. CASE /\ UNCHANGED answered
             /\ w = [v EXCEPT !.title = IF v.blocks = {} THEN "prompt" ELSE @,
                              !.blocks = @ \cup {draft}]
    <2>1. draft \in Block
      BY DEF Block, Run
    <2>2. PICK title \in Title : title = IF v.blocks = {} THEN "prompt" ELSE v.title
      BY DEF HostSession, Title
    <2>3. w = [v EXCEPT !.title = title, !.blocks = v.blocks \cup {draft}]
      BY <1>8, <2>2
    <2>4. v.blocks \cup {draft} \in Transcript
      BY <2>1 DEF HostSession, Transcript
    <2>5. PICK blocks \in Transcript : blocks = v.blocks \cup {draft}
      BY <2>4
    <2>6. w = [v EXCEPT !.title = title, !.blocks = blocks]
      BY <2>3, <2>5
    <2>7. /\ w \in HostSession /\ w.status = v.status /\ w.runId = v.runId
          /\ w.question = v.question /\ w.blocks = blocks
      BY <2>6 DEF HostSession
    <2>8. SessionOK(s, w, receipts, emitted, answered) /\ Keeps(v, w)
      BY <1>3, <2>5, <2>7, DraftedOK
    <2> QED BY <1>5, <1>8, <2>7, <2>8
  <1>9. CASE w = [v EXCEPT !.blocks = @ \ Drafts(v)] /\ UNCHANGED answered
    <2>1. PICK blocks \in Transcript : blocks = v.blocks \ Drafts(v)
      BY DEF HostSession, Transcript
    <2>2. w = [v EXCEPT !.blocks = blocks]
      BY <1>9, <2>1
    <2>3. /\ w \in HostSession /\ w.status = v.status /\ w.runId = v.runId
          /\ w.question = v.question /\ w.blocks = blocks
      BY <2>2 DEF HostSession
    <2>4. SessionOK(s, w, receipts, emitted, answered) /\ Keeps(v, w)
      BY <1>3, <2>1, <2>3, DraftedOK
    <2> QED BY <1>5, <1>9, <2>3, <2>4
  <1>10. ASSUME v.status = "running", NEW n \in Nat, NEW decision \in {"allow", "deny"},
                Pending(v, n) # {}, w = Decided(v, n, decision), Answered(c, s, v.runId, n)
         PROVE  VInv'
    <2>1. w \in HostSession /\ w.runId = v.runId
      BY <1>10, DecidedSession
    <2>2. ASSUME NEW a, a.n = n
          PROVE  /\ SessionOK(s, w, receipts, emitted, answered \cup {a}) /\ Keeps(v, w)
                 /\ n <= emitted[v.runId]
                 /\ \A b \in answered : b.run = v.runId => b.n # n
      BY <1>3, <1>10, <2>2, DecidedOK
    <2>3. \E a : a.n = n
      <3>1. [n |-> n].n = n
        OBVIOUS
      <3> QED BY <3>1
    <2> QED BY <1>6, <1>10, <2>1, <2>2, <2>3
  <1>11. CASE /\ v.status = "running" /\ v.question # 0
              /\ w = [v EXCEPT !.question = 0]
              /\ Answered(c, s, v.runId, v.question)
    <2>1. w \in HostSession /\ w.runId = v.runId /\ v.question \in Nat
      BY <1>11 DEF HostSession
    <2>2. ASSUME NEW a, a.n = v.question
          PROVE  /\ SessionOK(s, w, receipts, emitted, answered \cup {a}) /\ Keeps(v, w)
                 /\ v.question <= emitted[v.runId]
                 /\ \A b \in answered : b.run = v.runId => b.n # v.question
      BY <1>3, <1>11, <2>2, AnsweredOK
    <2>3. \E a : a.n = v.question
      <3>1. [n |-> v.question].n = v.question
        OBVIOUS
      <3> QED BY <3>1
    <2> QED BY <1>6, <1>11, <2>1, <2>2, <2>3
  <1> QED BY <1>4, <1>7, <1>8, <1>9, <1>10, <1>11 DEF Edits

\* A turn starts on the version its row names, with its message in it.
LEMMA SendsInOrder ==
    ASSUME IInv, IInv', VInv, NEW c \in Commands, NEW s \in Sessions, Sends(c, s)
    PROVE  VInv'
  <1>1. disk[s] # None /\ UNCHANGED answered /\ MayStart(Flushed(s))
    BY DEF Sends
  <1>2. PICK v \in HostSession : v = Flushed(s)
    BY <1>1, FlushedOK
  <1>3. SessionOK(s, v, receipts, emitted, answered) /\ v.status # "running"
    BY <1>1, <1>2, FlushedOK DEF MayStart
  <1>kind. PICK type \in {"send", "compact"} :
          \E plan : /\ plan # None => plan.role = "plan"
                    /\ Accepts(c, s, type, Started(v, c, type, plan))
    BY <1>2 DEF Sends
  <1>4. PICK plan : /\ plan # None => plan.role = "plan"
                    /\ Accepts(c, s, type, Started(v, c, type, plan))
    BY <1>kind
  <1>5. PICK w \in HostSession : w = Started(v, c, type, plan)
    BY StartedSession
  <1>6. type \in AllCommandTypes
    BY <1>kind DEF AllCommandTypes
  <1>7. PICK q \in Receipt : /\ receipts[c] = None /\ q.session = s /\ q.type = type
                             /\ receipts' = [receipts EXCEPT ![c] = q]
    BY <1>4, <1>5, <1>6, AcceptedReceipt
  <1>8. /\ Saved(w) \in HostSession /\ SameTurn(w, Saved(w)) /\ Wrote(s, Saved(w))
        /\ UNCHANGED <<retired, emitted, accepted, crashes>>
    BY <1>4, <1>5, <1>6, AcceptedReceipt DEF Accepts
  <1>9. LedgerOf(s)
    BY <1>1, <1>7, <1>8 DEF LedgerOf
  <1>10. SessionOK(s, w, receipts', emitted', answered') /\ Keeps(v, w)
    <2>1. receipts \in [Commands -> Receipt \cup {None}]
      BY DEF IInv, TypeOK
    <2>2. /\ SessionOK(s, w, [receipts EXCEPT ![c] = q], emitted, answered)
          /\ Keeps(v, w)
      BY <1>3, <1>4, <1>5, <1>7, <2>1, StartedOK
    <2> QED BY <1>1, <1>7, <1>8, <2>2
  <1>11. SessionOK(s, Saved(w), receipts', emitted', answered')
    BY <1>8, <1>10, SameTurnOK
  <1>12. Keeps(Flushed(s), Saved(w))
    BY <1>2, <1>8, <1>10 DEF Keeps, SameTurn
  <1>13. DecisionsOK'
    BY <1>1, <1>9, DecisionsStay
  <1> QED BY <1>1, <1>8, <1>9, <1>11, <1>12, <1>13, WrittenInOrder

\* A session is new: nothing was accepted for it.
LEMMA CreatesInOrder ==
    ASSUME IInv, IInv', VInv, NEW c \in Commands, NEW s \in Sessions, Creates(c, s)
    PROVE  VInv'
  <1>1. disk[s] = None /\ s \notin retired /\ UNCHANGED answered
    BY DEF Creates
  <1>2. PICK p \in Projects : Accepts(c, s, "create", NewSession(p))
    BY DEF Creates
  <1>3. "create" \in AllCommandTypes \ {"send", "compact"}
    BY DEF AllCommandTypes
  <1>4. \A d \in Commands :
          ~(receipts[d] # None /\ receipts[d].type \in {"send", "compact"}
            /\ receipts[d].session = s)
    BY <1>1 DEF VInv, ReceiptHasSession
  <1>5. PICK w \in HostSession : w = NewSession(p)
    BY <1>4, NewSessionOK
  <1>6. PICK q \in Receipt : /\ receipts[c] = None /\ q.session = s /\ q.type = "create"
                             /\ receipts' = [receipts EXCEPT ![c] = q]
    BY <1>2, <1>3, <1>5, AcceptedReceipt
  <1>7. /\ Saved(w) \in HostSession /\ SameTurn(w, Saved(w)) /\ Wrote(s, Saved(w))
        /\ UNCHANGED <<retired, emitted, accepted, crashes>>
    BY <1>2, <1>3, <1>5, AcceptedReceipt DEF Accepts
  <1>8. LedgerOf(s)
    BY <1>1, <1>6, <1>7 DEF LedgerOf
  <1>9. \A d \in Commands :
          ~(receipts'[d] # None /\ receipts'[d].type \in {"send", "compact"}
            /\ receipts'[d].session = s)
    BY <1>3, <1>4, <1>6 DEF IInv, TypeOK
  <1>10. SessionOK(s, w, receipts', emitted', answered')
    <2>1. \A R, e, A : (\A d \in Commands :
                         ~(R[d] # None /\ R[d].type \in {"send", "compact"} /\ R[d].session = s))
                       => SessionOK(s, NewSession(p), R, e, A)
      BY NewSessionOK
    <2> QED BY <1>5, <1>9, <2>1
  <1>11. SessionOK(s, Saved(w), receipts', emitted', answered')
    BY <1>7, <1>10, SameTurnOK
  <1>12. Succeeds(s, Saved(w))
    BY <1>7, <1>11, WroteSucceeds
  <1>13. DecisionsOK'
    BY <1>1, <1>8, DecisionsStay
  <1> QED BY <1>1, <1>7, <1>8, <1>11, <1>12, <1>13, SuccessorInOrder

\* An event is taken in by the later version, whether or not the row is written.
LEMMA EventsInOrder ==
    ASSUME IInv, IInv', VInv, NEW s \in Sessions, NEW r \in Commands,
           NEW kind \in AllEventKinds, TakesIn(s, r, kind)
    PROVE  VInv'
  <1>1. /\ live[s] # None /\ live[s].value.runId = r /\ live[s].value.status = "running"
        /\ emitted' = [emitted EXCEPT ![r] = emitted[r] + 1]
        /\ accepted' = accepted \cup {<<s, r, emitted[r] + 1, kind>>}
        /\ UNCHANGED <<receipts, retired, answered, crashes>>
    BY DEF TakesIn
  <1>2. PICK v \in HostSession : v = live[s].value
    BY <1>1 DEF IInv, TypeOK, Live
  <1>3. SessionOK(s, v, receipts, emitted, answered) /\ v.runId = r /\ v.status = "running"
    BY <1>1, <1>2 DEF VInv, VersionsOK
  <1>4. disk[s] # None /\ Latest(s) = v
    BY <1>1, <1>2 DEF VInv, SnapshotAhead, Latest
  <1>5. emitted \in [Commands -> Nat] /\ emitted[r] + 1 \in Nat
    BY DEF IInv, TypeOK
  <1>6. PICK w \in HostSession : w = Applied(v, r, emitted[r] + 1, kind)
    BY <1>5, AppliedSession
  <1>7. /\ SessionOK(s, w, receipts', emitted', answered') /\ Keeps(v, w)
        /\ kind \in {"text", "approval"} => HasBlock(w, kind, r, emitted[r] + 1)
    <2>1. NumbersUpTo(answered, r, emitted[r])
      BY DEF NumbersUpTo, VInv, DecisionsOK, IInv, TypeOK
    <2>2. /\ SessionOK(s, w, receipts, [emitted EXCEPT ![r] = emitted[r] + 1], answered)
          /\ Keeps(v, w)
          /\ kind \in {"text", "approval"} => HasBlock(w, kind, r, emitted[r] + 1)
      <3>1. PICK n \in Nat : n = emitted[r] + 1
        BY <1>5
      <3>2. /\ SessionOK(s, Applied(v, r, n, kind), receipts, [emitted EXCEPT ![r] = n], answered)
            /\ Keeps(v, Applied(v, r, n, kind))
            /\ kind \in {"text", "approval"} => HasBlock(Applied(v, r, n, kind), kind, r, n)
        BY <1>3, <1>5, <2>1, <3>1, AppliedOK
      <3> QED BY <1>6, <3>1, <3>2
    <2> QED BY <1>1, <2>2
  <1>8. LedgerOf(s)
    BY <1>1 DEF LedgerOf
  <1>9. DecisionsOK'
    BY <1>1, <1>8, DecisionsStay
  <1>10. w.revision = v.revision /\ w.title = v.title /\ w.project = v.project /\ w.runId = v.runId
    <2>1. ASSUME NEW block \in Transcript, NEW n \in Nat
          PROVE  /\ [v EXCEPT !.blocks = block].revision = v.revision
                 /\ [v EXCEPT !.blocks = block].title = v.title
                 /\ [v EXCEPT !.blocks = block].project = v.project
                 /\ [v EXCEPT !.question = n].revision = v.revision
                 /\ [v EXCEPT !.question = n].title = v.title
                 /\ [v EXCEPT !.question = n].project = v.project
      BY DEF HostSession
    <2>2. w.runId = v.runId
      BY <1>5, <1>6, AppliedSession
    <2>3. w.revision = v.revision /\ w.title = v.title /\ w.project = v.project
      BY <1>6 DEF Applied, HostSession, AllEventKinds
    <2> QED BY <2>2, <2>3
  <1>11. \A e \in accepted' :
           \/ e \in accepted
           \/ e[1] = s /\ (e[4] \in {"text", "approval"} => OutputIn(w, e))
    <2>1. OutputIn(w, <<s, r, emitted[r] + 1, kind>>) \/ kind \notin {"text", "approval"}
      BY <1>7 DEF OutputIn
    <2> QED BY <1>1, <2>1
  <1>12. CASE Wrote(s, Saved(w))
    <2>1. Saved(w) \in HostSession /\ SameTurn(w, Saved(w))
      BY SavedIsSameTurn
    <2>2. SessionOK(s, Saved(w), receipts', emitted', answered') /\ Keeps(v, Saved(w))
      BY <1>7, <2>1, SameTurnOK DEF Keeps, SameTurn
    <2>3. Succeeds(s, Saved(w))
      BY <1>12, <2>1, <2>2, WroteSucceeds
    <2>4. \A e \in accepted' :
            \/ e \in accepted
            \/ e[1] = s /\ (e[4] \in {"text", "approval"} => OutputIn(Saved(w), e))
      BY <1>11, <2>1 DEF OutputIn, HasBlock, SameTurn
    <2> QED BY <1>1, <1>4, <1>8, <1>9, <2>1, <2>2, <2>3, <2>4, SuccessorInOrder
  <1>13. CASE /\ disk'[s] = disk[s]
              /\ live'[s] # None /\ live'[s].value = w /\ live'[s].dirty
              /\ \A u \in Sessions \ {s} : Unmoved(u)
    <2>1. disk[s] \in HostSession /\ SessionOK(s, disk[s], receipts, emitted, answered)
      BY <1>4 DEF IInv, TypeOK, VInv, VersionsOK
    <2>2. SessionOK(s, disk[s], receipts', emitted', answered')
      <3>1. /\ disk[s].runId \in Run /\ disk[s].blocks \in Transcript /\ disk[s].question \in Nat
        BY <2>1 DEF HostSession
      <3>2. \A d \in Commands : emitted[d] \in Nat /\ emitted'[d] \in Nat /\ emitted[d] <= emitted'[d]
        BY <1>1, <1>5
      <3> QED BY <1>1, <2>1, <3>1, <3>2, GrownLedger
    <2>3. /\ v.revision = disk[s].revision /\ v.title = disk[s].title
          /\ v.runId = disk[s].runId /\ v.project = disk[s].project
      BY <1>1, <1>2 DEF VInv, SnapshotAhead
    <2>4. Succeeds(s, w)
      BY <1>4, <1>10, <1>13, <2>2, <2>3 DEF Succeeds
    <2> QED BY <1>1, <1>4, <1>7, <1>8, <1>9, <1>11, <2>4, SuccessorInOrder
  <1> QED BY <1>2, <1>6, <1>12, <1>13 DEF TakesIn

\* Nothing moves.
LEMMA IdlesInOrder ==
    ASSUME IInv, VInv, Idles
    PROVE  VInv'
  <1>1. \A s \in Sessions : Unmoved(s)
    BY DEF Idles
  <1>2. UNCHANGED <<receipts, retired, emitted, accepted, answered, crashes>>
    BY DEF Idles, Ledger
  <1>3. SnapshotAhead'
    BY <1>1 DEF VInv, SnapshotAhead, Unmoved
  <1>4. VersionsOK'
    BY <1>1, <1>2 DEF VInv, VersionsOK, Unmoved
  <1>5. ReceiptHasSession'
    <2>1. \A c \in Commands : receipts[c] # None => receipts[c].session \in Sessions
      BY DEF IInv, TypeOK, Receipt
    <2> QED BY <1>1, <1>2, <2>1 DEF VInv, ReceiptHasSession, Unmoved
  <1>6. OutputInLatest'
    <2>1. \A e \in accepted : e[1] \in Sessions
      BY DEF IInv, TypeOK
    <2>2. \A s \in Sessions : Latest(s)' = Latest(s)
      BY <1>1 DEF Unmoved, Latest
    <2> QED BY <1>1, <1>2, <2>1, <2>2 DEF VInv, OutputInLatest, Unmoved
  <1>7. DecisionsOK'
    BY <1>2 DEF VInv, DecisionsOK, AnsweredOnce
  <1> QED BY <1>3, <1>4, <1>5, <1>6, <1>7 DEF VInv

\* A deleted session takes its messages and its output with it.
LEMMA DeletesInOrder ==
    ASSUME IInv, VInv, NEW s \in Sessions, Deletes(s)
    PROVE  VInv'
  <1>1. /\ disk'[s] = None /\ live'[s] = None
        /\ \A u \in Sessions \ {s} : Unmoved(u)
        /\ retired' = retired \cup {s}
        /\ UNCHANGED <<receipts, emitted, accepted, answered, crashes>>
    BY DEF Deletes
  <1>2. SnapshotAhead'
    BY <1>1 DEF VInv, SnapshotAhead, Unmoved
  <1>3. VersionsOK'
    BY <1>1 DEF VInv, VersionsOK, Unmoved
  <1>4. ReceiptHasSession'
    <2>1. \A c \in Commands : receipts[c] # None => receipts[c].session \in Sessions
      BY DEF IInv, TypeOK, Receipt
    <2> QED BY <1>1, <2>1 DEF VInv, ReceiptHasSession, Unmoved
  <1>5. OutputInLatest'
    <2>1. \A e \in accepted : e[1] \in Sessions
      BY DEF IInv, TypeOK
    <2>2. \A u \in Sessions \ {s} : Latest(u)' = Latest(u)
      BY <1>1 DEF Unmoved, Latest
    <2> QED BY <1>1, <2>1, <2>2 DEF VInv, OutputInLatest, Unmoved
  <1>6. DecisionsOK'
    BY <1>1 DEF VInv, DecisionsOK, AnsweredOnce
  <1> QED BY <1>2, <1>3, <1>4, <1>5, <1>6 DEF VInv

\* When the host goes down the rows are left, and they are in order.
LEMMA FallsInOrder ==
    ASSUME IInv, VInv, Falls
    PROVE  VInv'
  <1>1. /\ \A s \in Sessions : disk'[s] = disk[s] /\ live'[s] = None
        /\ crashes' = crashes + 1
        /\ UNCHANGED <<receipts, retired, emitted, accepted, answered>>
    BY DEF Falls
  <1>2. SnapshotAhead' /\ VersionsOK'
    BY <1>1 DEF VInv, SnapshotAhead, VersionsOK
  <1>3. ReceiptHasSession'
    <2>1. \A c \in Commands : receipts[c] # None => receipts[c].session \in Sessions
      BY DEF IInv, TypeOK, Receipt
    <2> QED BY <1>1, <2>1 DEF VInv, ReceiptHasSession
  <1>4. OutputInLatest'
    BY <1>1 DEF IInv, TypeOK, OutputInLatest
  <1>5. DecisionsOK'
    BY <1>1 DEF VInv, DecisionsOK, AnsweredOnce
  <1> QED BY <1>2, <1>3, <1>4, <1>5 DEF VInv

\* A restart settles rows, as a chain would have.
LEMMA RestartsInOrder ==
    ASSUME IInv, VInv, Restarts
    PROVE  VInv'
  <1>1. /\ UNCHANGED <<receipts, retired, emitted, accepted, answered, crashes>>
        /\ \A s \in Sessions : live[s] = None /\ live'[s] = None
    BY DEF Restarts, Ledger
  <1>2. ASSUME NEW s \in Sessions
        PROVE  /\ disk'[s] = None <=> disk[s] = None
               /\ disk[s] # None => /\ Keeps(disk[s], disk'[s])
                                    /\ SessionOK(s, disk'[s], receipts, emitted, answered)
    <2>1. CASE disk'[s] = disk[s]
      BY <2>1 DEF VInv, VersionsOK, Keeps
    <2>2. CASE /\ disk[s] # None /\ disk[s].status = "running"
               /\ disk'[s] = Saved(Settled(disk[s], "interrupted", "restarted"))
      <3>1. PICK v \in HostSession : v = disk[s]
        BY <2>2 DEF IInv, TypeOK
      <3>2. SessionOK(s, v, receipts, emitted, answered)
        BY <2>2, <3>1 DEF VInv, VersionsOK
      <3>3. PICK w \in HostSession : w = Settled(v, "interrupted", "restarted")
        BY SettledSession
      <3>4. SessionOK(s, w, receipts, emitted, answered) /\ Keeps(v, w)
        BY <3>2, <3>3, SettledOK
      <3>5. Saved(w) \in HostSession /\ SameTurn(w, Saved(w))
        BY SavedIsSameTurn
      <3>6. SessionOK(s, Saved(w), receipts, emitted, answered) /\ Keeps(v, Saved(w))
        BY <3>4, <3>5, SameTurnOK DEF Keeps, SameTurn
      <3>7. disk'[s] = Saved(w)
        BY <2>2, <3>1, <3>3
      <3> QED BY <2>2, <3>1, <3>5, <3>6, <3>7, NoneAssumption
    <2> QED BY <2>1, <2>2 DEF Restarts
  <1>3. SnapshotAhead' /\ VersionsOK'
    BY <1>1, <1>2 DEF VInv, SnapshotAhead, VersionsOK
  <1>4. ReceiptHasSession'
    <2>1. \A c \in Commands : receipts[c] # None => receipts[c].session \in Sessions
      BY DEF IInv, TypeOK, Receipt
    <2> QED BY <1>1, <1>2, <2>1 DEF VInv, ReceiptHasSession
  <1>5. OutputInLatest'
    <2>1. ASSUME crashes = 0, NEW e \in accepted, e[4] \in {"text", "approval"},
                 e[1] \notin retired
          PROVE  disk'[e[1]] # None /\ OutputIn(disk'[e[1]], e)
      <3>1. e[1] \in Sessions
        BY DEF IInv, TypeOK
      <3>2. disk[e[1]] # None /\ OutputIn(disk[e[1]], e)
        BY <1>1, <2>1, <3>1 DEF VInv, OutputInLatest, Latest
      <3>3. BlocksOK(disk[e[1]])
        BY <3>1, <3>2 DEF VInv, VersionsOK, SessionOK
      <3>4. PICK b \in disk[e[1]].blocks : b.role = e[4] /\ b.by = e[2] /\ b.n = e[3]
        BY <3>2 DEF OutputIn, HasBlock
      <3>5. b.mark # "draft" /\ b.role # "plan"
        BY <2>1, <3>3, <3>4 DEF BlocksOK
      <3>6. Keeps(disk[e[1]], disk'[e[1]])
        BY <1>2, <3>1, <3>2
      <3> QED BY <1>2, <3>1, <3>2, <3>4, <3>5, <3>6 DEF Keeps, OutputIn, HasBlock
    <2>2. \A e \in accepted : e[1] \in Sessions
      BY DEF IInv, TypeOK
    <2> QED BY <1>1, <2>1, <2>2 DEF OutputInLatest, Latest
  <1>6. DecisionsOK'
    BY <1>1 DEF VInv, DecisionsOK, AnsweredOnce
  <1> QED BY <1>3, <1>4, <1>5, <1>6 DEF VInv

\* Whatever a step does to the sessions, the versions stay in order.
LEMMA StepInOrder ==
    ASSUME IInv, IInv', TInv, SessionStep
    PROVE  VInv'
  <1>1. VInv
    BY DEF TInv
  <1> QED BY <1>1, IdlesInOrder, FallsInOrder, RestartsInOrder, RewritesInOrder, DeletesInOrder,
             EditsInOrder, SendsInOrder, CreatesInOrder, EventsInOrder DEF SessionStep
-----------------------------------------------------------------------------
(* The adapter stays with its chain *)

\* No adapter starts or changes its turn, and no chain leaves its send() while its
\* adapter is at work.
SameAdapters ==
    \A s \in Sessions :
      prov'[s].phase # "none" =>
        /\ prov[s].phase # "none"
        /\ prov'[s].run = prov[s].run
SendingStays ==
    \A s \in Sessions :
      prov[s].phase # "none" /\ running[s] # None /\ running[s].at = "sending" =>
        /\ running'[s] # None
        /\ running'[s].at = "sending"
        /\ running'[s].runId = running[s].runId

LEMMA AdaptersStay ==
    ASSUME AdapterOfChain, SameAdapters, SendingStays
    PROVE  AdapterOfChain'
  BY DEF AdapterOfChain, SameAdapters, SendingStays

\* provider.stop() ends sends; it starts none.
LEMMA StopKeepsAdapters ==
    ASSUME IInv, NEW S, StopProvider(S)
    PROVE  SameAdapters
  <1>1. ASSUME NEW s \in Sessions
        PROVE  prov'[s] = prov[s] \/
               (/\ prov[s].phase # "none"
                /\ prov'[s] = [prov[s] EXCEPT !.phase = "ended"])
    BY DEF StopProvider, IInv, TypeOK
  <1>2. ASSUME NEW s \in Sessions, prov[s].phase # "none"
        PROVE  [prov[s] EXCEPT !.phase = "ended"].run = prov[s].run
    BY <1>2 DEF IInv, TypeOK, Prov, IdleProv
  <1> QED BY <1>1, <1>2 DEF SameAdapters

\* A chain that is not sending may go anywhere; one that is stays where it is.
LEMMA ChainMoves ==
    ASSUME IInv, NEW s \in Sessions, running[s] # None, NEW q,
           running' = [running EXCEPT ![s] = q],
           running[s].at = "sending" => /\ q # None /\ q.at = "sending"
                                        /\ q.runId = running[s].runId
    PROVE  SendingStays
  BY DEF SendingStays, IInv, TypeOK

\* A cancel, and a failing write, mark the chain without moving it.
LEMMA ChainMarked ==
    ASSUME IInv, NEW s \in Sessions, running[s] # None,
           running' \in {[running EXCEPT ![s].cancelled = TRUE],
                         [running EXCEPT ![s].persistenceFailed = TRUE]}
    PROVE  SendingStays
  <1>1. running[s] \in Running
    BY DEF IInv, TypeOK
  <1>2. PICK q \in Running : /\ running' = [running EXCEPT ![s] = q]
                             /\ q.at = running[s].at /\ q.runId = running[s].runId
    <2> DEFINE q1 == [running[s] EXCEPT !.cancelled = TRUE]
               q2 == [running[s] EXCEPT !.persistenceFailed = TRUE]
    <2>1. /\ q1 \in Running /\ q1.at = running[s].at /\ q1.runId = running[s].runId
          /\ q2 \in Running /\ q2.at = running[s].at /\ q2.runId = running[s].runId
      BY <1>1 DEF Running
    <2>2. running' \in {[running EXCEPT ![s] = q1], [running EXCEPT ![s] = q2]}
      OBVIOUS
    <2> HIDE DEF q1, q2
    <2> QED BY <2>1, <2>2
  <1> QED BY <1>2, ChainMoves, NoneAssumption

\* The client's commands leave adapters alone, but for a cancel that mutes one.
LEMMA CommandKeepsAdapter ==
    ASSUME IInv, AdapterOfChain, NEW c \in Commands, NEW s \in Sessions,
           \/ \E p \in Projects : Create(c, s, p)
           \/ Configure(c, s) \/ Draft(c, s) \/ RemoveDraft(c, s)
           \/ \E type, draft, plan : Send(c, s, type, draft, plan)
           \/ \E r \in Commands : Cancel(c, s, r)
           \/ \E r \in Commands, n \in Nat, decision \in {"allow", "deny"} :
                Approve(c, s, r, n, decision)
           \/ \E r \in Commands, n \in Nat : Answer(c, s, r, n)
    PROVE  AdapterOfChain'
  <1>1. CASE UNCHANGED <<running, prov>>
    BY <1>1 DEF AdapterOfChain
  <1>2. ASSUME NEW type, NEW draft, NEW plan, Send(c, s, type, draft, plan)
        PROVE  AdapterOfChain'
    <2>1. disk[s] # None /\ Flushed(s).status # "running"
      BY <1>2 DEF Send, MayStart
    <2>2. running[s] = None
      BY <2>1, FlushedRow DEF IInv, ChainOnDisk
    <2>3. running' = [running EXCEPT ![s] = Queued(c)] /\ UNCHANGED prov
      BY <1>2 DEF Send, provider
    <2> QED BY <2>2, <2>3 DEF AdapterOfChain, IInv, TypeOK
  <1>3. ASSUME NEW r \in Commands, Cancel(c, s, r)
        PROVE  AdapterOfChain'
    <2>1. \/ UNCHANGED prov
          \/ prov[s].phase = "turn" /\ prov' = [prov EXCEPT ![s].phase = "muted"]
      BY <1>3 DEF Cancel
    <2>2. SameAdapters
      <3>1. CASE UNCHANGED prov
        BY <3>1 DEF SameAdapters
      <3>2. CASE prov[s].phase = "turn" /\ prov' = [prov EXCEPT ![s].phase = "muted"]
        <4>1. prov[s].phase # "none" => [prov[s] EXCEPT !.phase = "muted"].run = prov[s].run
          BY DEF IInv, TypeOK, Prov, IdleProv
        <4>2. /\ prov'[s] = [prov[s] EXCEPT !.phase = "muted"]
              /\ \A t \in Sessions : t # s => prov'[t] = prov[t]
          BY <3>2 DEF IInv, TypeOK
        <4> QED BY <3>2, <4>1, <4>2 DEF SameAdapters
      <3> QED BY <2>1, <3>1, <3>2
    <2>3. SendingStays
      <3>1. CASE running[s] = None
        BY <1>3, <3>1 DEF Cancel, SendingStays
      <3>2. CASE running[s] # None
        BY <1>3, <3>2, ChainMarked DEF Cancel
      <3> QED BY <3>1, <3>2
    <2> QED BY <2>2, <2>3, AdaptersStay
  <1> QED BY <1>1, <1>2, <1>3
          DEF Create, Configure, Draft, RemoveDraft, Approve, Answer, provider

\* The steps of a promise chain: its send() starts and ends the adapter's work.
LEMMA TurnKeepsAdapter ==
    ASSUME IInv, AdapterOfChain, NEW s \in Sessions, TurnStep(s)
    PROVE  AdapterOfChain'
  <1>1. running[s] # None => running[s] \in Running
    BY DEF IInv, TypeOK
  <1>2. CASE UNCHANGED <<running, prov>>
    BY <1>2 DEF AdapterOfChain
  <1>3. ASSUME StopProvider({s}), running[s] # None, running[s].at # "sending",
               \E q : running' = [running EXCEPT ![s] = q]
        PROVE  AdapterOfChain'
    BY <1>3, StopKeepsAdapters, ChainMoves, AdaptersStay
  <1>4. CASE StartTurn(s)
    <2>1. running[s] # None /\ running[s].at = "queued"
      BY <1>4 DEF StartTurn
    <2>2. CASE Await(s, FALSE)
      BY <1>3, <2>1, <2>2 DEF Await
    <2>3. CASE /\ running' = [running EXCEPT ![s].at = "sending"]
               /\ prov' = [prov EXCEPT ![s] = [phase |-> "launching",
                                               run |-> running[s].runId, error |-> FALSE]]
      <3>1. PICK q : q = [running[s] EXCEPT !.at = "sending"]
        OBVIOUS
      <3>2. q \in Running /\ q.at = "sending" /\ q.runId = running[s].runId
        BY <1>1, <2>1, <3>1 DEF Running, Stage
      <3>3. running' = [running EXCEPT ![s] = q]
        BY <2>3, <3>1
      <3>4. q # None
        BY <3>2, NoneAssumption
      <3> QED BY <2>3, <3>2, <3>3, <3>4 DEF AdapterOfChain, IInv, TypeOK
    <2> QED BY <1>4, <2>2, <2>3 DEF StartTurn
  <1>5. CASE SendSettles(s)
    BY <1>5 DEF SendSettles, AdapterOfChain, IdleProv, IInv, TypeOK
  <1>6. CASE FinishTurn(s) \/ RetrySettles(s) \/ RetryFails(s)
    <2>1. running[s] # None /\ running[s].at # "sending" /\ UNCHANGED prov
      BY <1>6 DEF FinishTurn, RetrySettles, RetryFails, provider
    <2>2. \E q : running' = [running EXCEPT ![s] = q]
      BY <1>6 DEF FinishTurn, RetrySettles, RetryFails, Retrying, Retire
    <2> QED BY <2>1, <2>2, ChainMoves, AdaptersStay DEF SameAdapters
  <1>7. CASE FinishTurnFails(s) \/ RetryFires(s)
    <2>1. running[s] # None /\ running[s].at # "sending" /\ StopProvider({s})
      BY <1>7 DEF FinishTurnFails, RetryFires
    <2>2. \E q : running' = [running EXCEPT ![s] = q]
      BY <1>7 DEF FinishTurnFails, RetryFires, Retrying
    <2> QED BY <1>3, <2>1, <2>2
  <1>8. CASE TimerFlushThrows(s)
    <2>1. StopProvider({s}) /\ running' = IF running[s] = None THEN running
                               ELSE [running EXCEPT ![s].persistenceFailed = TRUE]
      BY <1>8 DEF TimerFlushThrows
    <2>2. SendingStays
      BY <2>1, ChainMarked DEF SendingStays
    <2> QED BY <2>1, <2>2, StopKeepsAdapters, AdaptersStay
  <1> QED BY <1>2, <1>4, <1>5, <1>6, <1>7, <1>8 DEF TurnStep, TimerFlush, TitleGenerated, provider

\* The adapter and its process move within the send() they belong to.
LEMMA ProviderKeepsAdapter ==
    ASSUME IInv, AdapterOfChain, NEW s \in Sessions, ProviderStep(s)
    PROVE  AdapterOfChain'
  <1>1. CASE \E r \in Commands, kind \in AllEventKinds : ProviderEvent(s, r, kind)
    <2>1. CASE UNCHANGED <<running, prov>>
      BY <2>1 DEF AdapterOfChain
    <2>2. CASE StopProvider({s}) /\ running' = IF running[s] = None THEN running
                               ELSE [running EXCEPT ![s].persistenceFailed = TRUE]
      <3>1. SendingStays
        BY <2>2, ChainMarked DEF SendingStays
      <3> QED BY <2>2, <3>1, StopKeepsAdapters, AdaptersStay
    <2> QED BY <1>1, <2>1, <2>2 DEF ProviderEvent
  <1>2. CASE \/ Spawn(s) \/ OpeningFails(s) \/ ProviderReady(s) \/ TurnEnds(s) \/ ChildExits(s)
             \/ \E r \in Commands : ProcessGone(s, r)
    <2>1. UNCHANGED running
      BY <1>2 DEF Spawn, OpeningFails, ProviderReady, TurnEnds, ChildExits, ProcessGone, engine
    <2>2. prov' # prov => prov[s].phase # "none"
      BY <1>2 DEF Spawn, OpeningFails, ProviderReady, TurnEnds, ChildExits, ProcessGone
    <2>3. \E phase \in Phase, error \in BOOLEAN :
            prov' \in {prov, [prov EXCEPT ![s] = [prov[s] EXCEPT !.phase = phase]],
                       [prov EXCEPT ![s] = [prov[s] EXCEPT !.phase = phase, !.error = error]]}
      <3>1. CASE Spawn(s)
        BY <3>1 DEF Spawn, Phase
      <3>2. CASE OpeningFails(s)
        BY <3>2 DEF OpeningFails, Phase
      <3>3. CASE ProviderReady(s)
        BY <3>3 DEF ProviderReady, Phase
      <3>4. CASE TurnEnds(s)
        BY <3>4 DEF TurnEnds, Phase
      <3>5. CASE ChildExits(s)
        BY <3>5 DEF ChildExits, Phase
      <3>6. CASE \E r \in Commands : ProcessGone(s, r)
        BY <3>6 DEF ProcessGone, Phase
      <3> QED BY <1>2, <3>1, <3>2, <3>3, <3>4, <3>5, <3>6
    <2>4. SameAdapters
      <3>1. PICK phase \in Phase, error \in BOOLEAN :
              prov' \in {prov, [prov EXCEPT ![s] = [prov[s] EXCEPT !.phase = phase]],
                         [prov EXCEPT ![s] = [prov[s] EXCEPT !.phase = phase, !.error = error]]}
        BY <2>3
      <3> DEFINE q1 == [prov[s] EXCEPT !.phase = phase]
                 q2 == [prov[s] EXCEPT !.phase = phase, !.error = error]
      <3>2. prov[s].phase # "none" => q1.run = prov[s].run /\ q2.run = prov[s].run
        BY DEF IInv, TypeOK, Prov, IdleProv
      <3>3. prov' \in {prov, [prov EXCEPT ![s] = q1], [prov EXCEPT ![s] = q2]}
        BY <3>1
      <3> HIDE DEF q1, q2
      <3> QED BY <2>2, <3>2, <3>3 DEF SameAdapters, IInv, TypeOK
    <2> QED BY <2>1, <2>4, AdaptersStay DEF SendingStays
  <1> QED BY <1>1, <1>2 DEF ProviderStep

LEMMA NextKeepsAdapter ==
    ASSUME IInv, AdapterOfChain, [Next]_vars
    PROVE  AdapterOfChain'
  <1>1. CASE ClientStep
    <2>1. PICK s \in Sessions :
            \/ \E c \in Commands :
                 \/ \E p \in Projects : Create(c, s, p)
                 \/ Configure(c, s) \/ Draft(c, s) \/ RemoveDraft(c, s)
                 \/ \E type, draft, plan : Send(c, s, type, draft, plan)
                 \/ \E r \in Commands : Cancel(c, s, r)
                 \/ \E r \in Commands, n \in Nat, decision \in {"allow", "deny"} :
                      Approve(c, s, r, n, decision)
                 \/ \E r \in Commands, n \in Nat : Answer(c, s, r, n)
            \/ CommandFails(s) \/ CommandFlushThrows(s) \/ UpdateSession(s)
            \/ DeleteSession(s)
      BY <1>1, ConstantsAssumption DEF ClientStep
    <2>2. CASE CommandFails(s) \/ CommandFlushThrows(s) \/ UpdateSession(s) \/ DeleteSession(s)
      BY <2>2 DEF CommandFails, CommandFlushThrows, UpdateSession, DeleteSession, engine, provider,
                  AdapterOfChain
    <2> QED BY <2>1, <2>2, CommandKeepsAdapter
  <1>2. CASE SwitchStep \/ Restart \/ UNCHANGED vars
    BY <1>2 DEF SwitchStep, BeginSwitch, EndSwitch, Restart, vars, engine, provider, AdapterOfChain
  <1>3. CASE Close
    <2>1. SameAdapters
      BY <1>3, StopKeepsAdapters DEF Close
    <2>2. SendingStays
      BY <1>3 DEF Close, SendingStays
    <2> QED BY <2>1, <2>2, AdaptersStay
  <1>4. CASE Exit \/ Crash
    BY <1>4 DEF Exit, Crash, Down, IdleProv, AdapterOfChain
  <1> QED BY <1>1, <1>2, <1>3, <1>4, TurnKeepsAdapter, ProviderKeepsAdapter DEF Next, HostStep

-----------------------------------------------------------------------------
(* The theorems *)

\* The sessions a host starts from hold nothing.
LEMMA InitInOrder == Init => TInv
  <1> SUFFICES ASSUME Init PROVE TInv
    OBVIOUS
  <1>1. ASSUME NEW s \in Sessions, disk[s] # None
        PROVE  SessionOK(s, disk[s], receipts, emitted, answered)
    <2>1. PICK p \in Projects : disk[s] = NewSession(p)
      BY <1>1 DEF Init
    <2> QED BY <2>1 DEF Init, NewSession, SessionOK, BlocksOK, AsksOK, Asked, Open, TurnOK,
                        MessagesIn
  <1>2. VersionsOK
    BY <1>1 DEF Init, VersionsOK
  <1>3. SnapshotAhead /\ ReceiptHasSession /\ OutputInLatest
    BY DEF Init, SnapshotAhead, ReceiptHasSession, OutputInLatest
  <1>4. DecisionsOK /\ AdapterOfChain
    BY DEF Init, DecisionsOK, AnsweredOnce, AdapterOfChain, IdleProv
  <1> QED BY <1>2, <1>3, <1>4 DEF TInv, VInv

LEMMA NextInOrder == IInv /\ TInv /\ [Next]_vars => TInv'
  <1> SUFFICES ASSUME IInv, TInv, [Next]_vars PROVE TInv'
    OBVIOUS
  <1>1. IInv'
    BY NextPreserves
  <1>2. SessionStep
    BY NextIsStep DEF TInv, VInv
  <1>3. VInv'
    BY <1>1, <1>2, StepInOrder
  <1>4. AdapterOfChain'
    BY NextKeepsAdapter DEF TInv
  <1> QED BY <1>3, <1>4 DEF TInv

\* Both versions of every session are in order in every reachable state.
THEOREM TranscriptsInOrder == Spec => []TInv
  <1> QED BY InitInOrder, NextInOrder, Invariance, PTL DEF Spec

\* The live snapshot never falls behind its row: whoever writes the row between two
\* batches of output hands its version over (engine.ts:337-354, 707-708, 739-740).
THEOREM SnapshotsFollow == Spec => []LiveFollowsDisk
  <1>1. TInv => LiveFollowsDisk
    BY DEF TInv, VInv, SnapshotAhead, LiveFollowsDisk
  <1> QED BY <1>1, TranscriptsInOrder, PTL

\* A turn's output stays in its own part of the transcript, however late a callback
\* of an earlier turn fires (engine.ts:864-867).
THEOREM OutputHasItsPlace == Spec => []OutputStaysInItsTurn
  <1>1. TInv => OutputStaysInItsTurn
    BY DEF TInv, VInv, VersionsOK, SessionOK, BlocksOK, OutputStaysInItsTurn
  <1> QED BY <1>1, TranscriptsInOrder, PTL

\* A session that is not running asks for nothing and builds nothing, whoever settled
\* its turn: its chain, a retry or a restart (engine.ts:881-913, 264-289).
THEOREM SettledTurnsAskNothing == Spec => []SettledAsksNothing
  <1>1. TInv => SettledAsksNothing
    BY DEF TInv, VInv, VersionsOK, SessionOK, BlocksOK, SettledAsksNothing
  <1> QED BY <1>1, TranscriptsInOrder, PTL

\* The message a receipt acknowledges is in the transcript of its session for as long
\* as the session is there (engine.ts:690-710).
THEOREM ReceiptsAreKept == Spec => []ReceiptIsDurable
  <1>1. ASSUME IInv, TInv PROVE ReceiptIsDurable
    <2> SUFFICES ASSUME NEW c \in Commands, receipts[c] # None,
                        receipts[c].type \in {"send", "compact"},
                        receipts[c].session \notin retired
                 PROVE  /\ disk[receipts[c].session] # None
                        /\ \E b \in disk[receipts[c].session].blocks :
                             b.role = "user" /\ b.by = c /\ b.mark = "-"
      BY DEF ReceiptIsDurable
    <2>1. receipts[c].session \in Sessions /\ disk[receipts[c].session] # None
      BY <1>1 DEF IInv, TypeOK, Receipt, TInv, VInv, ReceiptHasSession
    <2>2. Message(c) \in disk[receipts[c].session].blocks
      BY <1>1, <2>1 DEF TInv, VInv, VersionsOK, SessionOK, MessagesIn
    <2> QED BY <2>1, <2>2 DEF Message
  <1> QED BY <1>1, TranscriptsInOrder, Invariance, PTL

\* As long as the host has not gone down, output it took in is in the row or in a
\* snapshot still to be written, through failing writes (engine.ts:337-412, 864-880).
THEOREM OutputIsNotLost == Spec => []OutputIsKept
  <1>1. ASSUME IInv, TInv PROVE OutputIsKept
    <2> SUFFICES ASSUME crashes = 0, NEW e \in accepted, e[4] \in {"text", "approval"},
                        e[1] \notin retired
                 PROVE  \/ Holds(disk[e[1]], e[2], e[3])
                        \/ /\ live[e[1]] # None /\ live[e[1]].dirty
                           /\ Holds(live[e[1]].value, e[2], e[3])
      BY DEF OutputIsKept
    <2>1. e[1] \in Sessions /\ disk[e[1]] # None /\ OutputIn(Latest(e[1]), e)
      BY <1>1 DEF IInv, TypeOK, TInv, VInv, OutputInLatest
    <2>2. Holds(Latest(e[1]), e[2], e[3])
      BY <2>1 DEF OutputIn, HasBlock, Holds
    <2>3. live[e[1]] # None /\ ~live[e[1]].dirty => live[e[1]].value = disk[e[1]]
      BY <1>1, <2>1 DEF TInv, VInv, SnapshotAhead
    <2>4. live[e[1]] # None => live[e[1]].dirty \in BOOLEAN
      BY <1>1, <2>1 DEF IInv, TypeOK, Live
    <2> QED BY <2>2, <2>3, <2>4 DEF Latest
  <1> QED BY <1>1, TranscriptsInOrder, Invariance, PTL

\* A request is decided once, and the decision reaches the turn that asked or nobody
\* (engine.ts:640-688).
THEOREM RequestsAreDecidedOnce == Spec => []AnsweredOnce
  <1>1. TInv => AnsweredOnce
    BY DEF TInv, VInv, DecisionsOK
  <1> QED BY <1>1, TranscriptsInOrder, PTL

-----------------------------------------------------------------------------
(* What a step may do to a row *)

Notes(v) == {b \in v.blocks : b.role = "note"}

\* The project of a row stays; its title goes from "manual" only under a draft that is
\* the session's first block.
KeepsName(v, w) ==
    /\ w.project = v.project
    /\ v.title = "manual" => w.title = "manual" \/ v.blocks = {}

\* The row of a running turn is written, or settled.
Works(v, w) == v.status = "running" /\ w.runId = v.runId
\* A settled row keeps its turn, its status and its notes.
Rests(v, w) ==
    /\ v.status # "running"
    /\ w.status = v.status /\ w.runId = v.runId /\ Notes(w) = Notes(v)
\* A settled row starts the turn of a command that was not accepted before.
Starts(v, w) ==
    /\ MayStart(v)
    /\ w.runId \in Commands /\ receipts[w.runId] = None

RowStep(s) ==
    \/ disk'[s] = None
    \/ disk[s] = None /\ disk'[s].status = "idle"
    \/ /\ disk[s] # None
       /\ KeepsName(disk[s], disk'[s])
       /\ \/ Works(disk[s], disk'[s])
          \/ Rests(disk[s], disk'[s])
          \/ Starts(disk[s], disk'[s])

\* A row that is left alone.
LEMMA RowLeft ==
    ASSUME NEW s \in Sessions, disk'[s] = disk[s]
    PROVE  RowStep(s)
  BY DEF RowStep, KeepsName, Works, Rests

\* What a write to the row of a running turn keeps, when it starts from the version a
\* flush left; a settled row has no such version of its own.
LEMMA RowRewritten ==
    ASSUME IInv, VInv, NEW s \in Sessions, disk[s] # None, NEW w,
           disk'[s] = Saved(w), w \in HostSession,
           w.project = Flushed(s).project, w.runId = Flushed(s).runId,
           Flushed(s).title = "manual" => w.title = "manual" \/ Flushed(s).blocks = {},
           Flushed(s).status # "running" =>
             w.status = Flushed(s).status /\ Notes(w) = Notes(Flushed(s)),
           Flushed(s).status = "running" => w.title = Flushed(s).title \/ w.title = "manual"
    PROVE  RowStep(s)
  <1>1. /\ Flushed(s).status = disk[s].status /\ Flushed(s).runId = disk[s].runId
        /\ Flushed(s).title = disk[s].title /\ Flushed(s).project = disk[s].project
        /\ disk[s].status # "running" => Flushed(s) = disk[s]
    BY FlushedOK
  <1>2. /\ SameTurn(w, Saved(w))
        /\ Saved(w).title = w.title /\ Saved(w).project = w.project
    BY SavedIsSameTurn
  <1>3. CASE disk[s].status = "running"
    BY <1>1, <1>2, <1>3 DEF RowStep, KeepsName, Works, SameTurn
  <1>4. CASE disk[s].status # "running"
    <2>1. Flushed(s) = disk[s]
      BY <1>1, <1>4
    <2>2. Notes(Saved(w)) = Notes(w)
      BY <1>2 DEF Notes, SameTurn
    <2> QED BY <1>2, <1>4, <2>1, <2>2 DEF RowStep, KeepsName, Rests, SameTurn
  <1> QED BY <1>3, <1>4

\* The commands that start no turn.
LEMMA EditKeepsRow ==
    ASSUME IInv, VInv, NEW s \in Sessions, NEW c \in Commands, Edited(c, s)
    PROVE  RowStep(s)
  <1>1. disk[s] # None
    BY DEF Edited
  <1>2. PICK w : disk'[s] = Saved(w) /\ Edits(c, s, Flushed(s), w)
    BY DEF Edited, Accepts, Wrote
  <1>3. PICK v \in HostSession : v = Flushed(s) /\ BlocksOK(v)
    BY <1>1, FlushedOK DEF SessionOK
  <1>4. /\ w \in HostSession
        /\ w.project = v.project /\ w.runId = v.runId /\ w.status = v.status
        /\ v.title = "manual" => w.title = "manual" \/ v.blocks = {}
        /\ v.status # "running" => Notes(w) = Notes(v)
        /\ v.status = "running" => w.title = v.title
    <2>1. CASE w = v
      BY <2>1
    <2>2. CASE /\ v.status # "running"
               /\ w = [v EXCEPT !.title = IF v.blocks = {} THEN "prompt" ELSE @,
                                !.blocks = @ \cup {[role |-> "user", turn |-> None, by |-> c,
                                                    n |-> 0, mark |-> "draft"]}]
      <3>1. [role |-> "user", turn |-> None, by |-> c, n |-> 0, mark |-> "draft"] \in Block
        BY DEF Block, Run
      <3>2. PICK d \in Block : d = [role |-> "user", turn |-> None, by |-> c, n |-> 0,
                                    mark |-> "draft"] /\ d.role = "user"
        BY <3>1
      <3>3. /\ w.project = v.project /\ w.runId = v.runId /\ w.status = v.status
            /\ w.title = (IF v.blocks = {} THEN "prompt" ELSE v.title)
            /\ w.blocks = v.blocks \cup {d}
            /\ w \in HostSession
        BY <2>2, <3>2 DEF HostSession, Title, Transcript
      <3> QED BY <2>2, <3>2, <3>3 DEF Notes
    <2>3. CASE w = [v EXCEPT !.blocks = @ \ Drafts(v)]
      <3>1. /\ w.project = v.project /\ w.runId = v.runId /\ w.status = v.status
            /\ w.title = v.title /\ w.blocks = v.blocks \ Drafts(v)
            /\ w \in HostSession
        BY <2>3 DEF HostSession, Transcript, Drafts
      <3>2. \A b \in v.blocks : b.role = "note" => b \notin Drafts(v)
        BY <1>3 DEF BlocksOK, Drafts
      <3> QED BY <3>1, <3>2 DEF Notes
    <2>4. ASSUME NEW n \in Nat, NEW decision \in {"allow", "deny"}, v.status = "running",
                 w = Decided(v, n, decision)
          PROVE  /\ w \in HostSession
                 /\ w.project = v.project /\ w.runId = v.runId /\ w.status = v.status
                 /\ w.title = v.title
      <3>1. w \in HostSession
        BY <2>4, DecidedSession
      <3> QED BY <2>4, <3>1 DEF Decided, HostSession
    <2>5. CASE v.status = "running" /\ w = [v EXCEPT !.question = 0]
      BY <2>5 DEF HostSession
    <2> QED BY <1>2, <1>3, <2>1, <2>2, <2>3, <2>4, <2>5 DEF Edits
  <1> QED BY <1>1, <1>2, <1>3, <1>4, RowRewritten

\* A send finds a settled row and names it after its own command.
LEMMA SendStartsRow ==
    ASSUME IInv, VInv, NEW s \in Sessions, NEW c \in Commands, Sends(c, s)
    PROVE  RowStep(s)
  <1>1. disk[s] # None /\ MayStart(Flushed(s)) /\ receipts[c] = None
    BY DEF Sends, Accepts
  <1>2. Flushed(s) = disk[s] /\ disk[s] \in HostSession
    BY <1>1, FlushedOK DEF MayStart
  <1>3. PICK type, plan : disk'[s] = Saved(Started(disk[s], c, type, plan))
    BY <1>2 DEF Sends, Accepts, Wrote
  <1>4. PICK w : w = Started(disk[s], c, type, plan)
    OBVIOUS
  <1>5. w \in HostSession /\ w.runId = c
    BY <1>2, <1>4, StartedSession
  <1>6. w.project = disk[s].project /\ (disk[s].title = "manual" => w.title = "manual")
    BY <1>2, <1>4 DEF Started, HostSession
  <1>7. /\ Saved(w).runId = w.runId /\ Saved(w).title = w.title /\ Saved(w).project = w.project
    BY <1>5, SavedIsSameTurn DEF SameTurn
  <1> QED BY <1>1, <1>2, <1>3, <1>4, <1>5, <1>6, <1>7 DEF RowStep, KeepsName, Starts

\* A session's other steps: a flush, a title, a settlement, an event.
LEMMA WriteKeepsRow ==
    ASSUME IInv, VInv, NEW s \in Sessions,
           \/ Flushes(s) \/ Retitles(s) \/ Settles(s)
           \/ \E r \in Commands, kind \in AllEventKinds : TakesIn(s, r, kind)
    PROVE  RowStep(s)
  <1>1. CASE Flushes(s)
    <2>1. disk[s] # None /\ disk'[s] = Flushed(s)
      BY <1>1 DEF Flushes, Wrote
    <2>2. /\ Flushed(s).status = disk[s].status /\ Flushed(s).runId = disk[s].runId
          /\ Flushed(s).title = disk[s].title /\ Flushed(s).project = disk[s].project
          /\ disk[s].status # "running" => Flushed(s) = disk[s]
      BY <2>1, FlushedOK
    <2> QED BY <2>1, <2>2 DEF RowStep, KeepsName, Works, Rests
  <1>2. CASE Retitles(s)
    <2>1. PICK title \in {"manual", "generated"} :
            /\ title = "generated" => TitleAwaited(Flushed(s))
            /\ disk'[s] = Saved([Flushed(s) EXCEPT !.title = title])
      BY <1>2 DEF Retitles, Wrote
    <2>2. disk[s] # None /\ Flushed(s) \in HostSession
      BY <1>2, FlushedOK DEF Retitles
    <2>3. PICK w : w = Saved([Flushed(s) EXCEPT !.title = title])
      OBVIOUS
    <2>4. /\ SameTurn(Flushed(s), w) /\ w.title = title /\ w.project = Flushed(s).project
      BY <2>2, <2>3, SavedIsSameTurn
    <2>5. /\ Flushed(s).status = disk[s].status /\ Flushed(s).runId = disk[s].runId
          /\ Flushed(s).title = disk[s].title /\ Flushed(s).project = disk[s].project
          /\ disk[s].status # "running" => Flushed(s) = disk[s]
      BY <2>2, FlushedOK
    <2>6. disk[s].title = "manual" => title = "manual"
      BY <2>1, <2>5 DEF TitleAwaited
    <2>7. disk'[s] = w /\ KeepsName(disk[s], w)
      BY <2>1, <2>3, <2>4, <2>5, <2>6 DEF KeepsName
    <2>8. disk[s].status # "running" => Rests(disk[s], w)
      BY <2>4, <2>5 DEF Rests, Notes, SameTurn
    <2>9. disk[s].status = "running" => Works(disk[s], w)
      BY <2>4, <2>5 DEF Works, SameTurn
    <2> QED BY <2>2, <2>7, <2>8, <2>9 DEF RowStep
  <1>3. CASE Settles(s)
    <2>1. /\ disk[s] # None /\ disk[s].status = "running"
      BY <1>3 DEF Settles
    <2>2. PICK status \in {"idle", "interrupted"},
               message \in {"-", "stopped", "error", "storage", "closed", "restarted"} :
            disk'[s] = Saved(Settled(Flushed(s), status, message))
      BY <1>3 DEF Settles, Wrote
    <2>3. PICK v \in HostSession : /\ v = Flushed(s) /\ v.title = disk[s].title
                                   /\ v.project = disk[s].project /\ v.runId = disk[s].runId
      BY <2>1, FlushedOK
    <2>4. PICK w \in HostSession : w = Settled(v, status, message)
      BY SettledSession
    <2>5. w.title = v.title /\ w.project = v.project /\ w.runId = v.runId
      BY <2>4 DEF Settled, HostSession
    <2>6. /\ Saved(w).runId = w.runId /\ Saved(w).title = w.title
          /\ Saved(w).project = w.project
      BY SavedIsSameTurn DEF SameTurn
    <2> QED BY <2>1, <2>2, <2>3, <2>4, <2>5, <2>6 DEF RowStep, KeepsName, Works
  <1>4. ASSUME NEW r \in Commands, NEW kind \in AllEventKinds, TakesIn(s, r, kind)
        PROVE  RowStep(s)
    <2>1. CASE disk'[s] = disk[s]
      BY <2>1, RowLeft
    <2>2. CASE disk'[s] = Saved(Applied(live[s].value, r, emitted[r] + 1, kind))
      <3>1. /\ disk[s] # None /\ disk[s].status = "running"
            /\ live[s].value \in HostSession /\ live[s].value.title = disk[s].title
            /\ live[s].value.project = disk[s].project /\ live[s].value.runId = disk[s].runId
        BY <1>4 DEF TakesIn, IInv, TypeOK, Live, SnapshotOfChain, ChainOnDisk, VInv, SnapshotAhead
      <3>2. PICK v \in HostSession : v = live[s].value
        BY <3>1
      <3>3. PICK n \in Nat : n = emitted[r] + 1
        BY DEF IInv, TypeOK
      <3>4. PICK w \in HostSession : w = Applied(v, r, n, kind)
        BY AppliedSession
      <3>5. w.title = v.title /\ w.project = v.project /\ w.runId = v.runId
        BY <3>4 DEF Applied, HostSession, AllEventKinds
      <3>6. /\ Saved(w).runId = w.runId /\ Saved(w).title = w.title
            /\ Saved(w).project = w.project
        BY SavedIsSameTurn DEF SameTurn
      <3> QED BY <2>2, <3>1, <3>2, <3>3, <3>4, <3>5, <3>6 DEF RowStep, KeepsName, Works
    <2> QED BY <1>4, <2>1, <2>2 DEF TakesIn, Wrote
  <1> QED BY <1>1, <1>2, <1>3, <1>4

LEMMA StepKeepsRows ==
    ASSUME IInv, VInv, SessionStep, NEW s \in Sessions
    PROVE  RowStep(s)
  <1>1. CASE Idles \/ Falls
    BY <1>1, RowLeft DEF Idles, Unmoved, Falls
  <1>2. CASE Restarts
    <2>1. CASE disk'[s] = disk[s]
      BY <2>1, RowLeft
    <2>2. CASE /\ disk[s] # None /\ disk[s].status = "running"
               /\ disk'[s] = Saved(Settled(disk[s], "interrupted", "restarted"))
      <3>1. PICK v \in HostSession : v = disk[s]
        BY <2>2 DEF IInv, TypeOK
      <3>2. PICK w \in HostSession : w = Settled(v, "interrupted", "restarted")
        BY SettledSession
      <3>3. w.title = v.title /\ w.project = v.project /\ w.runId = v.runId
        BY <3>2 DEF Settled, HostSession
      <3>4. /\ Saved(w).runId = w.runId /\ Saved(w).title = w.title
            /\ Saved(w).project = w.project
        BY SavedIsSameTurn DEF SameTurn
      <3> QED BY <2>2, <3>1, <3>2, <3>3, <3>4 DEF RowStep, KeepsName, Works
    <2> QED BY <1>2, <2>1, <2>2 DEF Restarts
  <1>3. ASSUME NEW u \in Sessions,
               \/ Flushes(u) \/ Retitles(u) \/ Settles(u) \/ Deletes(u)
               \/ \E c \in Commands : Edited(c, u) \/ Sends(c, u) \/ Creates(c, u)
               \/ \E r \in Commands, kind \in AllEventKinds : TakesIn(u, r, kind)
        PROVE  RowStep(s)
    <2>1. CASE u # s
      <3>1. Unmoved(s)
        BY <1>3, <2>1 DEF Flushes, Retitles, Settles, Deletes, Edited, Sends, Creates, TakesIn,
                          Accepts, Wrote
      <3> QED BY <3>1, RowLeft DEF Unmoved
    <2>2. CASE u = s /\ Deletes(s)
      BY <2>2 DEF Deletes, RowStep
    <2>3. CASE u = s /\ \E c \in Commands : Creates(c, s)
      <3>1. PICK p \in Projects : disk'[s] = Saved(NewSession(p))
        BY <2>3 DEF Creates, Accepts, Wrote
      <3>2. Saved(NewSession(p)).status = "idle"
        BY DEF Saved, NewSession
      <3> QED BY <2>3, <3>1, <3>2 DEF Creates, RowStep
    <2> QED BY <1>3, <2>1, <2>2, <2>3, WriteKeepsRow, EditKeepsRow, SendStartsRow
  <1> QED BY <1>1, <1>2, <1>3 DEF SessionStep

-----------------------------------------------------------------------------
(* Action properties, and the switching of branches *)

LEMMA NextKeepsRows ==
    ASSUME IInv, TInv, [Next]_vars, NEW s \in Sessions
    PROVE  RowStep(s)
  <1>1. SessionStep /\ VInv
    BY NextIsStep DEF TInv, VInv
  <1> QED BY <1>1, StepKeepsRows

\* A title typed by the user stays, whatever a slow title generation returns, as long
\* as the session has a block (engine.ts:717-742).
THEOREM TitlesStay == Spec => ManualTitleStays
  <1>1. ASSUME IInv, TInv, [Next]_vars, NEW s \in Sessions,
               disk[s] # None, disk'[s] # None, disk[s].title = "manual"
        PROVE  disk'[s].title = "manual" \/ disk[s].blocks = {}
    BY <1>1, NextKeepsRows DEF RowStep, KeepsName
  <1>2. IInv /\ TInv /\ [Next]_vars =>
          [\A s \in Sessions :
             disk[s] # None /\ disk'[s] # None /\ disk[s].title = "manual" =>
               disk'[s].title = "manual" \/ disk[s].blocks = {}]_vars
    BY <1>1
  <1> QED BY <1>2, TranscriptsInOrder, Invariance, PTL DEF Spec, ManualTitleStays

\* A settled turn stays settled: it never runs again, and no retry, late callback or
\* restart rewrites its status or its notes (engine.ts:778-862, 264-289).
THEOREM SettledStays == Spec => SettledIsFinal
  <1>1. ASSUME IInv, TInv, [Next]_vars, NEW s \in Sessions,
               disk[s] # None, disk[s].status # "running",
               disk'[s] # None, disk'[s].runId = disk[s].runId
        PROVE  /\ disk'[s].status = disk[s].status
               /\ {b \in disk'[s].blocks : b.role = "note"} = {b \in disk[s].blocks : b.role = "note"}
    <2>1. RowStep(s)
      BY <1>1, NextKeepsRows
    <2>2. disk[s].runId # None => receipts[disk[s].runId] # None
      BY <1>1 DEF TInv, VInv, VersionsOK, SessionOK, TurnOK
    <2>3. ~Starts(disk[s], disk'[s])
      BY <1>1, <2>2, ConstantsAssumption DEF Starts
    <2>4. Rests(disk[s], disk'[s])
      BY <1>1, <2>1, <2>3 DEF RowStep, Works
    <2> QED BY <2>4 DEF Rests, Notes
  <1>2. IInv /\ TInv /\ [Next]_vars =>
          [\A s \in Sessions :
             disk[s] # None /\ disk[s].status # "running"
             /\ disk'[s] # None /\ disk'[s].runId = disk[s].runId =>
               /\ disk'[s].status = disk[s].status
               /\ {b \in disk'[s].blocks : b.role = "note"}
                    = {b \in disk[s].blocks : b.role = "note"}]_vars
    BY <1>1
  <1> QED BY <1>2, TranscriptsInOrder, Invariance, PTL DEF Spec, SettledIsFinal

\* No turn runs in a checkout while its branch is being switched: the switch looks at
\* every row of the project, a send at the project (engine.ts:300-320, 427-430).
THEOREM SwitchesAreIdle == Spec => []NoTurnDuringSwitch
  <1>1. Init => NoTurnDuringSwitch
    BY DEF Init, NoTurnDuringSwitch
  <1>2. ASSUME IInv, TInv, NoTurnDuringSwitch, [Next]_vars
        PROVE  NoTurnDuringSwitch'
    <2>1. IInv'
      BY <1>2, NextPreserves
    <2> SUFFICES ASSUME NEW s \in Sessions, disk'[s] # None, disk'[s].project \in switching'
                 PROVE  disk'[s].status # "running"
      BY <2>1 DEF NoTurnDuringSwitch, IInv, ChainOnDisk
    <2>2. RowStep(s)
      BY <1>2, NextKeepsRows
    <2>3. ASSUME NEW p \in Projects, BeginSwitch(p)
          PROVE  disk'[s].status # "running"
      <3>1. disk' = disk /\ switching' = switching \cup {p}
        BY <2>3 DEF BeginSwitch, database
      <3>2. CASE disk[s].project = p
        BY <2>3, <3>1, <3>2 DEF BeginSwitch
      <3>3. CASE disk[s].project # p
        BY <1>2, <3>1, <3>3 DEF NoTurnDuringSwitch
      <3> QED BY <3>2, <3>3
    <2>4. switching' \subseteq switching \/ \E p \in Projects : BeginSwitch(p)
      <3>1. CASE ClientStep
        <4>1. PICK s1 \in Sessions :
                \/ \E c \in Commands :
                     \/ \E p \in Projects : Create(c, s1, p)
                     \/ Configure(c, s1) \/ Draft(c, s1) \/ RemoveDraft(c, s1)
                     \/ \E type, draft, plan : Send(c, s1, type, draft, plan)
                     \/ \E r \in Commands : Cancel(c, s1, r)
                     \/ \E r \in Commands, n \in Nat, decision \in {"allow", "deny"} :
                          Approve(c, s1, r, n, decision)
                     \/ \E r \in Commands, n \in Nat : Answer(c, s1, r, n)
                \/ CommandFails(s1) \/ CommandFlushThrows(s1) \/ UpdateSession(s1)
                \/ DeleteSession(s1)
          BY <3>1, ConstantsAssumption DEF ClientStep
        <4>2. UpdateSession(s1) \/ DeleteSession(s1) => UNCHANGED switching
          BY DEF UpdateSession, DeleteSession, engine
        <4>3. CommandFails(s1) \/ CommandFlushThrows(s1) => UNCHANGED switching
          BY DEF CommandFails, CommandFlushThrows
        <4>4. \A c \in Commands : (\E p \in Projects : Create(c, s1, p)) => UNCHANGED switching
          BY DEF Create
        <4>5. \A c \in Commands : Configure(c, s1) \/ Draft(c, s1) \/ RemoveDraft(c, s1)
                                  => UNCHANGED switching
          BY DEF Configure, Draft, RemoveDraft
        <4>6. \A c, type, draft, plan : Send(c, s1, type, draft, plan) => UNCHANGED switching
          BY DEF Send
        <4>7. \A c, r : Cancel(c, s1, r) => UNCHANGED switching
          BY DEF Cancel
        <4>8. \A c, r, n, decision : Approve(c, s1, r, n, decision) => UNCHANGED switching
          BY DEF Approve
        <4>9. \A c, r, n : Answer(c, s1, r, n) => UNCHANGED switching
          BY DEF Answer
        <4> QED BY <4>1, <4>2, <4>3, <4>4, <4>5, <4>6, <4>7, <4>8, <4>9
      <3>2. CASE SwitchStep
        BY <3>2 DEF SwitchStep, EndSwitch
      <3>3. ASSUME NEW t \in Sessions, TurnStep(t)
            PROVE  UNCHANGED switching
        BY <3>3 DEF TurnStep, StartTurn, SendSettles, FinishTurn, FinishTurnFails, RetryFires,
                    RetrySettles, RetryFails, TimerFlush, TimerFlushThrows, TitleGenerated
      <3>4. ASSUME NEW t \in Sessions, ProviderStep(t)
            PROVE  UNCHANGED switching
        BY <3>4 DEF ProviderStep, Spawn, OpeningFails, ProviderReady, TurnEnds, ChildExits,
                    ProcessGone, ProviderEvent, engine
      <3>5. CASE HostStep
        BY <3>5 DEF HostStep, Close, Exit, Crash, Down, Restart
      <3>6. CASE UNCHANGED vars
        BY <3>6 DEF vars, engine
      <3> QED BY <1>2, <3>1, <3>2, <3>3, <3>4, <3>5, <3>6 DEF Next
    <2>5. CASE switching' \subseteq switching
      <3>1. disk[s] # None => ~(disk[s].project = disk'[s].project /\ disk[s].status = "running")
        BY <1>2, <2>5 DEF NoTurnDuringSwitch
      <3>2. disk[s] # None => ~(disk[s].project = disk'[s].project /\ MayStart(disk[s]))
        BY <2>5 DEF MayStart
      <3> QED BY <2>2, <3>1, <3>2 DEF RowStep, KeepsName, Works, Rests, Starts
    <2> QED BY <2>3, <2>4, <2>5
  <1> QED BY <1>1, <1>2, TranscriptsInOrder, Invariance, PTL DEF Spec

-----------------------------------------------------------------------------
(***************************************************************************)
(* The engine implements the turn service (TurnService): a turn is accepted  *)
(* once, handed to its provider at most once and only while it is its        *)
(* session's turn, and settled once, whatever the client repeats, whatever  *)
(* write fails and however often the host goes down.                        *)
(*                                                                          *)
(* The first part counts the calls of the provider.  The count alone is not *)
(* inductive; what makes it so is the receipt: a command without one was    *)
(* never handed to a provider, a promise chain's command has one, and its   *)
(* receipt names the chain's session, so no two chains share a command.  A  *)
(* chain still queued has not called anyone.  The second part maps every    *)
(* step of the engine to a step of the service, or to none.                 *)
(***************************************************************************)

\* A command that was not accepted was not dispatched.
DispatchedIsAccepted == \A c \in Commands : receipts[c] = None => dispatched[c] = 0

\* A promise chain runs an accepted command of its own session; while it is
\* queued, nobody was called for it.
ChainIsAccepted ==
    \A s \in Sessions :
      running[s] # None =>
        /\ receipts[running[s].runId] # None
        /\ receipts[running[s].runId].session = s
        /\ running[s].at = "queued" => dispatched[running[s].runId] = 0

DInv == DispatchedIsAccepted /\ ChainIsAccepted /\ AtMostOneDispatch

\* No chain appears or changes its turn, and none goes back to the queue.
NoNewChain ==
    \A s \in Sessions :
      running'[s] # None =>
        /\ running[s] # None
        /\ running'[s].runId = running[s].runId
        /\ running'[s].at = "queued" => running[s].at = "queued"

-----------------------------------------------------------------------------
\* A step that accepts no command and dispatches none preserves DInv.
LEMMA UndispatchedStep ==
    ASSUME DInv, NoNewChain, UNCHANGED <<receipts, dispatched>>
    PROVE  DInv'
  <1>1. DispatchedIsAccepted' /\ AtMostOneDispatch'
    BY DEF DInv, DispatchedIsAccepted, AtMostOneDispatch
  <1>2. ChainIsAccepted'
    BY DEF DInv, NoNewChain, ChainIsAccepted
  <1> QED BY <1>1, <1>2 DEF DInv

\* A command is accepted once: a new receipt is nobody's turn yet (command()).
LEMMA AcceptedStep ==
    ASSUME IInv, DInv, NEW c \in Commands, NEW q \in Receipt, receipts[c] = None,
           receipts' = [receipts EXCEPT ![c] = q], NoNewChain, UNCHANGED dispatched
    PROVE  DInv'
  <1>1. \A d \in Commands : d # c => receipts'[d] = receipts[d]
    BY DEF IInv, TypeOK
  <1>2. \A s \in Sessions : running[s] # None => running[s].runId \in Commands
    BY DEF IInv, TypeOK, Running
  <1>3. DispatchedIsAccepted' /\ AtMostOneDispatch'
    BY <1>1, NoneAssumption DEF DInv, DispatchedIsAccepted, AtMostOneDispatch, IInv, TypeOK
  <1>4. ChainIsAccepted'
    BY <1>1, <1>2 DEF DInv, NoNewChain, ChainIsAccepted
  <1> QED BY <1>3, <1>4 DEF DInv

\* A chain whose record changes in anything but its turn, and not back to "queued".
LEMMA MovedStep ==
    ASSUME IInv, NEW s \in Sessions, running[s] # None, NEW q,
           running' = [running EXCEPT ![s] = q],
           q = None \/ (q.runId = running[s].runId /\ (q.at = "queued" => running[s].at = "queued"))
    PROVE  NoNewChain
  BY DEF NoNewChain, IInv, TypeOK

\* What the steps of a chain do to its record.
LEMMA MovedRecord ==
    ASSUME NEW q \in Running, NEW at \in Stage, NEW error, NEW wait
    PROVE  /\ [q EXCEPT !.at = at].runId = q.runId
           /\ [q EXCEPT !.at = at].at = at
           /\ [q EXCEPT !.at = at, !.wait = wait].runId = q.runId
           /\ [q EXCEPT !.at = at, !.wait = wait].at = at
           /\ [q EXCEPT !.at = at, !.error = error, !.wait = wait].runId = q.runId
           /\ [q EXCEPT !.at = at, !.error = error, !.wait = wait].at = at
           /\ [q EXCEPT !.cancelled = TRUE].runId = q.runId
           /\ [q EXCEPT !.cancelled = TRUE].at = q.at
           /\ [q EXCEPT !.persistenceFailed = TRUE].runId = q.runId
           /\ [q EXCEPT !.persistenceFailed = TRUE].at = q.at
  BY DEF Running

-----------------------------------------------------------------------------
(* The client's steps *)

\* Every command that starts no turn gives its fresh id a receipt.
LEMMA CommandDispatchesNone ==
    ASSUME IInv, DInv, NEW c \in Commands, NEW s \in Sessions,
           \/ \E p \in Projects : Create(c, s, p)
           \/ Configure(c, s) \/ Draft(c, s) \/ RemoveDraft(c, s)
           \/ \E r \in Commands : Cancel(c, s, r)
           \/ \E r \in Commands, n \in Nat, decision \in {"allow", "deny"} :
                Approve(c, s, r, n, decision)
           \/ \E r \in Commands, n \in Nat : Answer(c, s, r, n)
    PROVE  DInv'
  <1>1. receipts[c] = None /\ UNCHANGED dispatched
    BY DEF Create, Configure, Draft, RemoveDraft, Cancel, Approve, Answer, Fresh, history
  <1>2. \E type \in AllCommandTypes, v \in HostSession : Accept(c, s, type, v)
    <2>1. CASE \E p \in Projects : Create(c, s, p)
      <3>1. \A p \in Projects : NewSession(p) \in HostSession
        BY DEF NewSession, HostSession, Run, Status, Title, Transcript
      <3> QED BY <2>1, <3>1 DEF Create, AllCommandTypes
    <2>2. CASE \E r \in Commands : Cancel(c, s, r)
      BY <2>2, FlushedRow DEF Cancel, Names, AllCommandTypes
    <2> QED BY <2>1, <2>2, CommandAccepts
  <1>3. \E q \in Receipt : receipts' = [receipts EXCEPT ![c] = q]
    <2>1. PICK type \in AllCommandTypes, v \in HostSession : Accept(c, s, type, v)
      BY <1>2
    <2>2. [type |-> type, session |-> s, revision |-> Saved(v).revision] \in Receipt
      BY SavedSession DEF Receipt, HostSession
    <2> QED BY <2>1, <2>2 DEF Accept
  <1>4. NoNewChain
    <2>1. CASE UNCHANGED running
      BY <2>1 DEF NoNewChain
    <2>2. CASE running[s] # None /\ running' = [running EXCEPT ![s].cancelled = TRUE]
      <3>1. running[s] \in Running
        BY <2>2 DEF IInv, TypeOK
      <3>2. /\ [running[s] EXCEPT !.cancelled = TRUE].runId = running[s].runId
            /\ [running[s] EXCEPT !.cancelled = TRUE].at = running[s].at
        BY <3>1, MovedRecord DEF Stage
      <3>3. running' = [running EXCEPT ![s] = [running[s] EXCEPT !.cancelled = TRUE]]
        BY <2>2
      <3> QED BY <2>2, <3>2, <3>3, MovedStep
    <2> QED BY <2>1, <2>2 DEF Create, Configure, Draft, RemoveDraft, Cancel, Approve, Answer
  <1> QED BY <1>1, <1>3, <1>4, AcceptedStep

\* A send queues a chain for a fresh command: nobody was called for it yet.
LEMMA SendDispatchesNone ==
    ASSUME IInv, DInv, NEW c \in Commands, NEW s \in Sessions, NEW type, NEW draft, NEW plan,
           Send(c, s, type, draft, plan)
    PROVE  DInv'
  <1> DEFINE saved == Saved(Started(Flushed(s), c, type, plan))
             q == [type |-> type, session |-> s, revision |-> saved.revision]
  <1>1. /\ receipts[c] = None /\ UNCHANGED dispatched
        /\ receipts' = [receipts EXCEPT ![c] = q]
        /\ running' = [running EXCEPT ![s] = Queued(c)]
        /\ type \in AllCommandTypes
    BY DEF Send, Fresh, history, AllCommandTypes
  <1>2. q \in Receipt /\ q.session = s
    <2>1. Started(Flushed(s), c, type, plan) \in HostSession
      BY FlushedRow, StartedSession DEF Send
    <2>2. saved.revision \in Nat
      BY <2>1, SavedSession DEF HostSession
    <2> HIDE DEF saved
    <2> QED BY <1>1, <2>2 DEF Receipt
  <1> HIDE DEF q
  <1>3. Queued(c).runId = c
    BY DEF Queued
  <1>4. /\ receipts'[c] = q /\ q # None
        /\ \A d \in Commands : d # c => receipts'[d] = receipts[d]
    BY <1>1, <1>2, NoneAssumption DEF IInv, TypeOK
  <1>5. /\ running'[s] = Queued(c)
        /\ \A t \in Sessions : t # s => running'[t] = running[t]
    BY <1>1 DEF IInv, TypeOK
  <1>6. \A t \in Sessions : running[t] # None => running[t].runId \in Commands
    BY DEF IInv, TypeOK, Running
  <1>7. DispatchedIsAccepted' /\ AtMostOneDispatch'
    BY <1>1, <1>4 DEF DInv, DispatchedIsAccepted, AtMostOneDispatch
  <1>8. ChainIsAccepted'
    <2>1. dispatched[c] = 0
      BY <1>1 DEF DInv, DispatchedIsAccepted
    <2> QED BY <1>1, <1>2, <1>3, <1>4, <1>5, <1>6, <2>1 DEF DInv, ChainIsAccepted
  <1> QED BY <1>7, <1>8 DEF DInv

-----------------------------------------------------------------------------
(* The engine's steps *)

\* The one step that calls the provider takes its chain out of the queue.
LEMMA StartDispatchesOnce ==
    ASSUME IInv, DInv, NEW s \in Sessions, StartTurn(s)
    PROVE  DInv'
  <1>1. running[s] # None /\ running[s] \in Running /\ running[s].at = "queued"
    BY DEF StartTurn, IInv, TypeOK
  <1>2. UNCHANGED receipts
    BY DEF StartTurn, database
  <1>3. CASE Await(s, FALSE) /\ UNCHANGED <<sinks, dispatched>>
    <2> DEFINE q == [running[s] EXCEPT !.at = "stopping", !.error = FALSE, !.wait = child[s]]
    <2>1. running' = [running EXCEPT ![s] = q]
      BY <1>3 DEF Await
    <2>2. q.runId = running[s].runId /\ q.at = "stopping"
      BY <1>1 DEF Running
    <2> HIDE DEF q
    <2> QED BY <1>1, <1>2, <1>3, <2>1, <2>2, MovedStep, UndispatchedStep
  <1>4. CASE /\ running' = [running EXCEPT ![s].at = "sending"]
             /\ dispatched' = [dispatched EXCEPT ![running[s].runId] = @ + 1]
    <2> DEFINE q == [running[s] EXCEPT !.at = "sending"]
               r == running[s].runId
    <2>1. running' = [running EXCEPT ![s] = q]
      BY <1>4
    <2>2. q.runId = r /\ q.at = "sending" /\ r \in Commands
      BY <1>1 DEF Running
    <2>3. /\ dispatched[r] = 0 /\ receipts[r] # None /\ receipts[r].session = s
      BY <1>1 DEF DInv, ChainIsAccepted
    <2>4. /\ dispatched'[r] = 1
          /\ \A c \in Commands : c # r => dispatched'[c] = dispatched[c]
      BY <1>4, <2>2, <2>3 DEF IInv, TypeOK
    <2> HIDE DEF q, r
    <2>5. /\ running'[s] = q
          /\ \A t \in Sessions : t # s => running'[t] = running[t]
      BY <2>1 DEF IInv, TypeOK
    <2>6. \A t \in Sessions : running[t] # None => running[t].runId \in Commands
      BY DEF IInv, TypeOK, Running
    <2>7. DispatchedIsAccepted' /\ AtMostOneDispatch'
      BY <1>2, <2>3, <2>4 DEF DInv, DispatchedIsAccepted, AtMostOneDispatch
    <2>8. ASSUME NEW t \in Sessions, running'[t] # None
          PROVE  /\ receipts'[running'[t].runId] # None
                 /\ receipts'[running'[t].runId].session = t
                 /\ running'[t].at = "queued" => dispatched'[running'[t].runId] = 0
      <3>1. CASE t = s
        BY <1>2, <2>2, <2>3, <2>5, <3>1
      <3>2. CASE t # s
        <4>1. /\ receipts[running[t].runId] # None /\ receipts[running[t].runId].session = t
              /\ running[t].at = "queued" => dispatched[running[t].runId] = 0
          BY <2>5, <2>8, <3>2 DEF DInv, ChainIsAccepted
        <4>2. running[t].runId # r
          BY <2>3, <3>2, <4>1
        <4> QED BY <1>2, <2>4, <2>5, <2>6, <2>8, <3>2, <4>1, <4>2
      <3> QED BY <3>1, <3>2
    <2> QED BY <2>7, <2>8 DEF DInv, ChainIsAccepted
  <1> QED BY <1>3, <1>4 DEF StartTurn

\* Every other step of a turn moves its chain or ends it.
LEMMA TurnDispatchesNone ==
    ASSUME IInv, DInv, NEW s \in Sessions,
           \/ SendSettles(s) \/ FinishTurn(s) \/ FinishTurnFails(s)
           \/ RetryFires(s) \/ RetrySettles(s) \/ RetryFails(s)
           \/ TimerFlush(s) \/ TimerFlushThrows(s) \/ TitleGenerated(s)
           \/ \E r \in Commands, kind \in AllEventKinds : ProviderEvent(s, r, kind)
    PROVE  DInv'
  <1>1. UNCHANGED <<receipts, dispatched>>
    BY DEF SendSettles, FinishTurn, FinishTurnFails, RetryFires, RetrySettles, RetryFails,
           TimerFlush, TimerFlushThrows, TitleGenerated, ProviderEvent, database, history
  <1>2. ASSUME running[s] # None, running' = [running EXCEPT ![s].persistenceFailed = TRUE]
        PROVE  NoNewChain
    <2>1. running[s] \in Running
      BY <1>2 DEF IInv, TypeOK
    <2> DEFINE q == [running[s] EXCEPT !.persistenceFailed = TRUE]
    <2>2. q.runId = running[s].runId /\ q.at = running[s].at
      BY <2>1 DEF Running
    <2>3. running' = [running EXCEPT ![s] = q]
      BY <1>2
    <2> HIDE DEF q
    <2> QED BY <1>2, <2>2, <2>3, MovedStep
  <1>3. running' = [running EXCEPT ![s] = None] => NoNewChain
    BY DEF NoNewChain, IInv, TypeOK
  <1>4. UNCHANGED running => NoNewChain
    BY DEF NoNewChain
  <1>5. ASSUME SendSettles(s) PROVE NoNewChain
    <2>1. running[s] # None /\ running[s] \in Running
      BY <1>5 DEF SendSettles, IInv, TypeOK
    <2> DEFINE q == [running[s] EXCEPT !.at = "stopping", !.error = prov[s].error,
                                     !.wait = child[s]]
    <2>2. running' = [running EXCEPT ![s] = q]
      BY <1>5 DEF SendSettles
    <2>3. q.runId = running[s].runId /\ q.at # "queued"
      BY <2>1 DEF Running
    <2> HIDE DEF q
    <2> QED BY <2>1, <2>2, <2>3, MovedStep
  <1>6. FinishTurn(s) \/ RetrySettles(s) => NoNewChain
    BY <1>3 DEF FinishTurn, RetrySettles, Retire
  <1>7. ASSUME FinishTurnFails(s) \/ RetryFails(s) PROVE NoNewChain
    <2>1. running[s] # None /\ running[s] \in Running
      BY <1>7 DEF FinishTurnFails, RetryFails, IInv, TypeOK
    <2> DEFINE q == [running[s] EXCEPT !.at = IF closing THEN "abandoned" ELSE "retryWait"]
    <2>2. running' = [running EXCEPT ![s] = q]
      BY <1>7 DEF FinishTurnFails, RetryFails, Retrying
    <2>3. q.runId = running[s].runId /\ q.at # "queued"
      BY <2>1 DEF Running
    <2> HIDE DEF q
    <2> QED BY <2>1, <2>2, <2>3, MovedStep
  <1>8. ASSUME RetryFires(s) PROVE NoNewChain
    <2>1. running[s] # None /\ running[s] \in Running
      BY <1>8 DEF RetryFires, IInv, TypeOK
    <2> DEFINE q == [running[s] EXCEPT !.at = "retryStopping", !.wait = child[s]]
    <2>2. running' = [running EXCEPT ![s] = q]
      BY <1>8 DEF RetryFires
    <2>3. q.runId = running[s].runId /\ q.at # "queued"
      BY <2>1 DEF Running
    <2> HIDE DEF q
    <2> QED BY <2>1, <2>2, <2>3, MovedStep
  <1>9. TimerFlush(s) \/ TimerFlushThrows(s) \/ TitleGenerated(s) => NoNewChain
    BY <1>2, <1>4 DEF TimerFlush, TimerFlushThrows, TitleGenerated
  <1>10. (\E r \in Commands, kind \in AllEventKinds : ProviderEvent(s, r, kind)) => NoNewChain
    BY <1>2, <1>4 DEF ProviderEvent
  <1>11. NoNewChain
    BY <1>5, <1>6, <1>7, <1>8, <1>9, <1>10
  <1> QED BY <1>1, <1>11, UndispatchedStep

\* Nor do the host's own steps, the adapter's, and the requests that are no commands.
LEMMA HostDispatchesNone ==
    ASSUME IInv, DInv,
           \/ HostStep \/ SwitchStep
           \/ \E s \in Sessions :
                \/ CommandFails(s) \/ CommandFlushThrows(s)
                \/ UpdateSession(s) \/ DeleteSession(s)
                \/ Spawn(s) \/ OpeningFails(s) \/ ProviderReady(s) \/ TurnEnds(s)
                \/ ChildExits(s) \/ \E r \in Commands : ProcessGone(s, r)
    PROVE  DInv'
  <1>1. UNCHANGED <<receipts, dispatched>>
    BY DEF HostStep, Close, Exit, Crash, Down, Restart, SwitchStep, BeginSwitch, EndSwitch,
           CommandFails, CommandFlushThrows, UpdateSession, DeleteSession, Spawn, OpeningFails,
           ProviderReady, TurnEnds, ChildExits, ProcessGone, database, history
  <1>2. CASE Close
    <2>1. ASSUME NEW s \in Sessions, running[s] # None
          PROVE  /\ [running[s] EXCEPT !.at = "abandoned"].runId = running[s].runId
                 /\ [running[s] EXCEPT !.at = "abandoned"].at = "abandoned"
      BY <2>1 DEF IInv, TypeOK, Running
    <2>2. NoNewChain
      BY <1>2, <2>1 DEF Close, NoNewChain
    <2> QED BY <1>1, <2>2, UndispatchedStep
  <1>3. CASE Exit \/ Crash
    BY <1>1, <1>3, UndispatchedStep DEF Exit, Crash, Down, NoNewChain
  <1>4. CASE UNCHANGED running
    BY <1>1, <1>4, UndispatchedStep DEF NoNewChain
  <1> QED BY <1>2, <1>3, <1>4
          DEF HostStep, Restart, SwitchStep, BeginSwitch, EndSwitch, CommandFails,
              CommandFlushThrows, UpdateSession, DeleteSession, Spawn, OpeningFails,
              ProviderReady, TurnEnds, ChildExits, ProcessGone, engine

-----------------------------------------------------------------------------
(* The theorem *)

LEMMA NextDispatchesOnce == IInv /\ DInv /\ [Next]_vars => DInv'
  <1> SUFFICES ASSUME IInv, DInv, [Next]_vars PROVE DInv'
    OBVIOUS
  <1>1. CASE ClientStep
    <2>1. PICK s \in Sessions :
            \/ \E c \in Commands :
                 \/ \E p \in Projects : Create(c, s, p)
                 \/ Configure(c, s) \/ Draft(c, s) \/ RemoveDraft(c, s)
                 \/ \E type, draft, plan : Send(c, s, type, draft, plan)
                 \/ \E r \in Commands : Cancel(c, s, r)
                 \/ \E r \in Commands, n \in Nat, decision \in {"allow", "deny"} :
                      Approve(c, s, r, n, decision)
                 \/ \E r \in Commands, n \in Nat : Answer(c, s, r, n)
            \/ CommandFails(s) \/ CommandFlushThrows(s) \/ UpdateSession(s)
            \/ DeleteSession(s)
      BY <1>1, ConstantsAssumption DEF ClientStep
    <2> QED BY <2>1, CommandDispatchesNone, SendDispatchesNone, HostDispatchesNone
  <1>2. CASE SwitchStep \/ HostStep
    BY <1>2, HostDispatchesNone
  <1>3. ASSUME NEW s \in Sessions, TurnStep(s) \/ ProviderStep(s)
        PROVE  DInv'
    BY <1>3, StartDispatchesOnce, TurnDispatchesNone, HostDispatchesNone
       DEF TurnStep, ProviderStep
  <1>4. CASE UNCHANGED vars
    BY <1>4, UndispatchedStep DEF vars, database, engine, history, NoNewChain
  <1> QED BY <1>1, <1>2, <1>3, <1>4 DEF Next

\* provider.send is called at most once for an accepted command: not by a client that
\* repeats it, not by a settlement retry, not by a restart (engine.ts:268-289, 420-421).
THEOREM DispatchedAtMostOnce == Spec => []AtMostOneDispatch
  <1>1. Init => DInv
    BY DEF Init, DInv, DispatchedIsAccepted, ChainIsAccepted, AtMostOneDispatch
  <1>2. IInv /\ DInv /\ [Next]_vars => DInv'
    BY NextDispatchesOnce
  <1>3. DInv => AtMostOneDispatch
    BY DEF DInv
  <1> QED BY <1>1, <1>2, <1>3, Invariance, PTL DEF Spec

-----------------------------------------------------------------------------
(* What the service sees *)

TurnOf(c) == IF ~IsTurn(c) THEN "new"
             ELSE IF ~OnDisk(c) THEN "settled"
             ELSE IF dispatched[c] = 0 THEN "accepted" ELSE "dispatched"
CurrentOf(s) == IF disk[s] # None /\ disk[s].status = "running" THEN disk[s].runId ELSE None

\* A turn that is current is one of its own session, and no other session's.
LEMMA CurrentIsTurn ==
    ASSUME IInv, TInv, NEW s \in Sessions, NEW c \in Commands, CurrentOf(s) = c
    PROVE  /\ IsTurn(c) /\ receipts[c].session = s /\ OnDisk(c)
           /\ disk[s] # None /\ disk[s].status = "running" /\ disk[s].runId = c
  <1>1. disk[s] # None /\ disk[s].status = "running" /\ disk[s].runId = c
    BY ConstantsAssumption DEF CurrentOf
  <1>2. IsTurn(c) /\ receipts[c].session = s
    BY <1>1, ConstantsAssumption DEF TInv, VInv, VersionsOK, SessionOK, TurnOK, IsTurn
  <1> QED BY <1>1, <1>2 DEF OnDisk

\* Whether a turn is settled can be read off its session.
LEMMA OnDiskIsCurrent ==
    ASSUME NEW c \in Commands, NEW s
    PROVE  /\ receipts[c].session = s => (OnDisk(c) <=> CurrentOf(s) = c)
           /\ receipts'[c].session = s => (OnDisk(c)' <=> CurrentOf(s)' = c)
  BY ConstantsAssumption DEF OnDisk, CurrentOf

LEMMA InitIsService == Init => Service!Init
  <1> SUFFICES ASSUME Init PROVE Service!Init
    OBVIOUS
  <1>1. \A c \in Commands : TurnOf(c) = "new"
    BY DEF Init, TurnOf, IsTurn
  <1>2. ASSUME NEW s \in Sessions
        PROVE  CurrentOf(s) = None
    <2>1. disk[s] = None \/ \E p \in Projects : disk[s] = NewSession(p)
      BY DEF Init
    <2>2. \A p \in Projects : NewSession(p).status = "idle"
      BY DEF NewSession
    <2> QED BY <2>1, <2>2 DEF CurrentOf
  <1> QED BY <1>1, <1>2 DEF Service!Init, TurnOf, CurrentOf

-----------------------------------------------------------------------------
(* The steps of the service, as the engine's state shows them *)

LEMMA SettleIsService ==
    ASSUME NEW S \in SUBSET Sessions, S # {},
           \A s \in S : CurrentOf(s) # None,
           \A c \in Commands :
             TurnOf(c)' = IF \E s \in S : CurrentOf(s) = c THEN "settled" ELSE TurnOf(c),
           \A s \in Sessions : CurrentOf(s)' = IF s \in S THEN None ELSE CurrentOf(s)
    PROVE  Service!Settle(S)
  BY DEF Service!Settle, TurnOf, CurrentOf

LEMMA DispatchIsService ==
    ASSUME NEW s \in Sessions, NEW c \in Commands, c # None,
           CurrentOf(s) = c, TurnOf(c) = "accepted", TurnOf(c)' = "dispatched",
           \A d \in Commands \ {c} : TurnOf(d)' = TurnOf(d),
           \A u \in Sessions : CurrentOf(u)' = CurrentOf(u)
    PROVE  Service!Dispatch(s)
  BY DEF Service!Dispatch, TurnOf, CurrentOf

LEMMA AcceptIsService ==
    ASSUME NEW s \in Sessions, NEW c \in Commands,
           CurrentOf(s) = None, TurnOf(c) = "new", TurnOf(c)' = "accepted",
           \A d \in Commands \ {c} : TurnOf(d)' = TurnOf(d),
           CurrentOf(s)' = c,
           \A u \in Sessions \ {s} : CurrentOf(u)' = CurrentOf(u)
    PROVE  Service!Accept(s, c)
  <1>1. /\ \A d \in Commands \ {c} : TurnOf(d)' = TurnOf(d)
        /\ \A u \in Sessions \ {s} : CurrentOf(u)' = CurrentOf(u)
    OBVIOUS
  <1>2. [d \in Commands |-> TurnOf(d)'] = [[d \in Commands |-> TurnOf(d)] EXCEPT ![c] = "accepted"]
    BY <1>1
  <1>3. [u \in Sessions |-> CurrentOf(u)'] = [[u \in Sessions |-> CurrentOf(u)] EXCEPT ![s] = c]
    BY <1>1
  <1> QED BY <1>2, <1>3 DEF Service!Accept, TurnOf, CurrentOf

LEMMA StutterIsService ==
    ASSUME \A d \in Commands : TurnOf(d)' = TurnOf(d),
           \A u \in Sessions : CurrentOf(u)' = CurrentOf(u)
    PROVE  UNCHANGED Service!vars
  BY DEF Service!vars, TurnOf, CurrentOf

-----------------------------------------------------------------------------
(* Every step of the engine is one of them *)

\* The receipts of turns are what they were.
TurnsSame ==
    \A c \in Commands : /\ IsTurn(c)' <=> IsTurn(c)
                        /\ IsTurn(c) => receipts'[c] = receipts[c]

\* Only a send gives a turn its receipt.
LEMMA OnlySendsAccept ==
    ASSUME IInv, SessionStep
    PROVE  TurnsSame \/ \E s \in Sessions, c \in Commands : Sends(c, s)
  <1>1. CASE UNCHANGED receipts
    BY <1>1 DEF TurnsSame, IsTurn
  <1>2. ASSUME NEW c \in Commands, NEW s \in Sessions, NEW type, NEW w, Accepts(c, s, type, w),
               type \notin {"send", "compact"}
        PROVE  TurnsSame
    <2>1. PICK q : q = [type |-> type, session |-> s, revision |-> Saved(w).revision]
      OBVIOUS
    <2>2. receipts[c] = None /\ receipts' = [receipts EXCEPT ![c] = q] /\ q.type = type
      BY <1>2, <2>1 DEF Accepts
    <2> QED BY <1>2, <2>2 DEF TurnsSame, IsTurn, IInv, TypeOK
  <1>3. ASSUME NEW c \in Commands, NEW s \in Sessions, Edited(c, s) \/ Creates(c, s)
        PROVE  TurnsSame
    BY <1>2, <1>3 DEF Edited, Creates, AllCommandTypes
  <1> QED BY <1>1, <1>3 DEF SessionStep, Idles, Falls, Restarts, Flushes, Retitles, Settles,
                            Deletes, TakesIn, Ledger

\* A step that accepts nothing and calls no provider settles turns, or changes nothing.
LEMMA SettlesOrStutters ==
    ASSUME IInv, TInv, IInv', TInv', \A s \in Sessions : RowStep(s), TurnsSame,
           UNCHANGED dispatched
    PROVE  Service!Next \/ UNCHANGED Service!vars
  <1>0. PICK S \in SUBSET Sessions :
          S = {s \in Sessions : CurrentOf(s) # None /\ CurrentOf(s)' = None}
    OBVIOUS
  <1>1. ASSUME NEW s \in Sessions
        PROVE  CurrentOf(s)' \in {CurrentOf(s), None}
    <2>1. CASE disk'[s] = None \/ disk'[s].status # "running"
      BY <2>1 DEF CurrentOf
    <2>2. CASE disk'[s] # None /\ disk'[s].status = "running"
      <3>1. /\ disk'[s].runId # None /\ receipts'[disk'[s].runId] # None
            /\ receipts'[disk'[s].runId].type \in {"send", "compact"}
        BY <2>2 DEF TInv, VInv, VersionsOK, SessionOK, TurnOK
      <3>2. disk'[s].runId \in Commands
        BY <2>2, <3>1 DEF IInv, TypeOK, HostSession, Run
      <3>3. receipts[disk'[s].runId] # None
        BY <3>1, <3>2 DEF TurnsSame, IsTurn
      <3>4. disk[s] # None /\ Works(disk[s], disk'[s])
        BY <2>2, <3>3 DEF RowStep, Rests, Starts
      <3> QED BY <2>2, <3>4 DEF Works, CurrentOf
    <2> QED BY <2>1, <2>2
  <1>2. \A s \in Sessions : CurrentOf(s)' = IF s \in S THEN None ELSE CurrentOf(s)
    BY <1>0, <1>1
  <1>3. ASSUME NEW c \in Commands
        PROVE  TurnOf(c)' = IF \E s \in S : CurrentOf(s) = c THEN "settled" ELSE TurnOf(c)
    <2>1. CASE ~IsTurn(c)
      <3>1. \A s \in S : CurrentOf(s) # c
        BY <2>1, CurrentIsTurn
      <3>2. ~IsTurn(c)'
        BY <2>1 DEF TurnsSame
      <3>3. TurnOf(c) = "new" /\ TurnOf(c)' = "new"
        BY <2>1, <3>2 DEF TurnOf
      <3> QED BY <3>1, <3>3
    <2>2. CASE IsTurn(c)
      <3>1. IsTurn(c)' /\ receipts'[c] = receipts[c]
        BY <2>2 DEF TurnsSame
      <3>2. PICK s \in Sessions : s = receipts[c].session
        BY <2>2 DEF IsTurn, IInv, TypeOK, Receipt
      <3>3. /\ OnDisk(c) <=> CurrentOf(s) = c
            /\ OnDisk(c)' <=> CurrentOf(s)' = c
        BY <3>1, <3>2, OnDiskIsCurrent
      <3>4. \A u \in S : CurrentOf(u) = c => u = s
        BY <3>2, CurrentIsTurn
      <3>5. c # None
        BY ConstantsAssumption
      <3>6. CASE s \in S /\ CurrentOf(s) = c
        <4>1. ~OnDisk(c)'
          BY <1>0, <3>3, <3>5, <3>6
        <4>2. TurnOf(c)' = "settled"
          BY <3>1, <4>1 DEF TurnOf
        <4> QED BY <3>6, <4>2
      <3>7. CASE ~(s \in S /\ CurrentOf(s) = c)
        <4>1. \A u \in S : CurrentOf(u) # c
          BY <3>4, <3>7
        <4>2. OnDisk(c)' <=> OnDisk(c)
          BY <1>0, <1>1, <3>2, <3>3, <3>5, <3>7
        <4>3. TurnOf(c)' = TurnOf(c)
          BY <2>2, <3>1, <4>2 DEF TurnOf
        <4> QED BY <4>1, <4>3
      <3> QED BY <3>6, <3>7
    <2> QED BY <2>1, <2>2
  <1>4. CASE S = {}
    <2>1. \A c \in Commands : TurnOf(c)' = TurnOf(c)
      BY <1>3, <1>4
    <2>2. \A s \in Sessions : CurrentOf(s)' = CurrentOf(s)
      BY <1>2, <1>4
    <2> QED BY <2>1, <2>2, StutterIsService
  <1>5. CASE S # {}
    <2>1. \A s \in S : CurrentOf(s) # None
      BY <1>0
    <2>2. Service!Settle(S)
      BY <1>2, <1>3, <1>5, <2>1, SettleIsService
    <2> QED BY <2>2 DEF Service!Next
  <1> QED BY <1>4, <1>5

\* A send makes its command its session's turn.
LEMMA SendAccepts ==
    ASSUME IInv, TInv, DInv, IInv', TInv', NEW s \in Sessions, NEW c \in Commands, Sends(c, s),
           UNCHANGED dispatched
    PROVE  Service!Next
  <1>1. /\ disk[s] # None /\ MayStart(Flushed(s)) /\ receipts[c] = None
        /\ \A u \in Sessions \ {s} : Unmoved(u)
    BY DEF Sends, Accepts, Wrote
  <1>2. Flushed(s) = disk[s] /\ disk[s].status # "running" /\ disk[s] \in HostSession
    BY <1>1, FlushedOK DEF MayStart, TInv
  <1>kind. PICK type \in {"send", "compact"} : \E plan : Accepts(c, s, type, Started(disk[s], c, type, plan))
    BY <1>2 DEF Sends
  <1>3. PICK plan :
          /\ disk'[s] = Saved(Started(disk[s], c, type, plan))
          /\ receipts' = [receipts EXCEPT ![c] =
               [type |-> type, session |-> s,
                revision |-> Saved(Started(disk[s], c, type, plan)).revision]]
    BY <1>kind DEF Accepts, Wrote
  <1>4. PICK w \in HostSession : /\ w = Saved(Started(disk[s], c, type, plan))
                                 /\ w.status = "running" /\ w.runId = c
    BY <1>2, StartedSession, SavedSession
  <1>5. PICK q : q = [type |-> type, session |-> s, revision |-> w.revision]
    OBVIOUS
  <1>6. /\ q.type \in {"send", "compact"} /\ q.session = s /\ q \in Receipt
        /\ receipts' = [receipts EXCEPT ![c] = q] /\ disk'[s] = w
    BY <1>3, <1>4, <1>5 DEF Receipt, AllCommandTypes, HostSession
  <1>7. q # None /\ w # None
    BY <1>4, <1>6, NoneAssumption
  <1>8. /\ receipts'[c] = q
        /\ \A d \in Commands \ {c} : receipts'[d] = receipts[d]
    BY <1>6 DEF IInv, TypeOK
  <1>9. CurrentOf(s) = None /\ CurrentOf(s)' = c
    BY <1>2, <1>4, <1>6, <1>7 DEF CurrentOf
  <1>10. \A u \in Sessions \ {s} : CurrentOf(u)' = CurrentOf(u)
    BY <1>1 DEF Unmoved, CurrentOf
  <1>11. TurnOf(c) = "new"
    BY <1>1 DEF TurnOf, IsTurn
  <1>12. TurnOf(c)' = "accepted"
    <2>1. IsTurn(c)'
      BY <1>6, <1>7, <1>8 DEF IsTurn
    <2>2. OnDisk(c)'
      BY <1>6, <1>8, <1>9, OnDiskIsCurrent
    <2>3. dispatched'[c] = 0
      BY <1>1 DEF DInv, DispatchedIsAccepted
    <2> QED BY <2>1, <2>2, <2>3 DEF TurnOf
  <1>13. ASSUME NEW d \in Commands \ {c}
         PROVE  TurnOf(d)' = TurnOf(d)
    <2>1. receipts'[d] = receipts[d] /\ (IsTurn(d)' <=> IsTurn(d))
      BY <1>8 DEF IsTurn
    <2>2. CASE ~IsTurn(d)
      BY <2>1, <2>2 DEF TurnOf
    <2>3. CASE IsTurn(d)
      <3>1. PICK u \in Sessions : u = receipts[d].session
        BY <2>3 DEF IsTurn, IInv, TypeOK, Receipt
      <3>2. /\ OnDisk(d) <=> CurrentOf(u) = d
            /\ OnDisk(d)' <=> CurrentOf(u)' = d
        BY <2>1, <3>1, OnDiskIsCurrent
      <3>3. d # None
        BY ConstantsAssumption
      <3>4. OnDisk(d)' <=> OnDisk(d)
        BY <1>9, <1>10, <3>2, <3>3
      <3> QED BY <2>1, <3>4 DEF TurnOf
    <2> QED BY <2>2, <2>3
  <1>14. Service!Accept(s, c)
    BY <1>9, <1>10, <1>11, <1>12, <1>13, AcceptIsService
  <1> QED BY <1>14 DEF Service!Next

\* The provider is called for its session's turn, which nobody was called for before.
LEMMA StartDispatches ==
    ASSUME IInv, TInv, DInv, NEW s \in Sessions, StartTurn(s), dispatched' # dispatched
    PROVE  Service!Next
  <1>1. PICK r \in Commands : r = running[s].runId
    BY DEF StartTurn, IInv, TypeOK, Running
  <1>2. /\ running[s] # None /\ running[s].at = "queued"
        /\ dispatched' = [dispatched EXCEPT ![r] = dispatched[r] + 1]
        /\ UNCHANGED <<disk, receipts>>
    BY <1>1 DEF StartTurn, database
  <1>3. disk[s] # None /\ disk[s].status = "running" /\ disk[s].runId = r
    BY <1>1, <1>2 DEF IInv, ChainOnDisk
  <1>4. dispatched[r] = 0
    BY <1>1, <1>2 DEF DInv, ChainIsAccepted
  <1>5. /\ dispatched'[r] = 1
        /\ \A c \in Commands \ {r} : dispatched'[c] = dispatched[c]
    BY <1>2, <1>4 DEF IInv, TypeOK
  <1>6. CurrentOf(s) = r
    BY <1>3 DEF CurrentOf
  <1>7. IsTurn(r) /\ OnDisk(r)
    BY <1>6, CurrentIsTurn
  <1>8. /\ \A c \in Commands : (IsTurn(c)' <=> IsTurn(c)) /\ (OnDisk(c)' <=> OnDisk(c))
        /\ \A u \in Sessions : CurrentOf(u)' = CurrentOf(u)
    BY <1>2 DEF IsTurn, OnDisk, CurrentOf
  <1>9. TurnOf(r) = "accepted" /\ TurnOf(r)' = "dispatched"
    BY <1>4, <1>5, <1>7, <1>8 DEF TurnOf
  <1>10. \A c \in Commands \ {r} : TurnOf(c)' = TurnOf(c)
    BY <1>5, <1>8 DEF TurnOf
  <1>11. r # None
    BY ConstantsAssumption
  <1>12. Service!Dispatch(s)
    BY <1>6, <1>8, <1>9, <1>10, <1>11, DispatchIsService
  <1> QED BY <1>12 DEF Service!Next

\* Nobody else calls a provider.
LEMMA OnlyStartsDispatch ==
    ASSUME [Next]_vars
    PROVE  UNCHANGED dispatched \/ \E s \in Sessions : StartTurn(s)
  <1>1. CASE ClientStep
    <2>1. PICK s \in Sessions :
            \/ \E c \in Commands :
                 \/ \E p \in Projects : Create(c, s, p)
                 \/ Configure(c, s) \/ Draft(c, s) \/ RemoveDraft(c, s)
                 \/ \E type, draft, plan : Send(c, s, type, draft, plan)
                 \/ \E r \in Commands : Cancel(c, s, r)
                 \/ \E r \in Commands, n \in Nat, decision \in {"allow", "deny"} :
                      Approve(c, s, r, n, decision)
                 \/ \E r \in Commands, n \in Nat : Answer(c, s, r, n)
            \/ CommandFails(s) \/ CommandFlushThrows(s) \/ UpdateSession(s)
            \/ DeleteSession(s)
      BY <1>1, ConstantsAssumption DEF ClientStep
    <2>2. \A c \in Commands, p \in Projects : Create(c, s, p) => UNCHANGED dispatched
      BY DEF Create, history
    <2>3. \A c \in Commands : Configure(c, s) \/ Draft(c, s) \/ RemoveDraft(c, s)
                              => UNCHANGED dispatched
      BY DEF Configure, Draft, RemoveDraft, history
    <2>4. \A c, type, draft, plan : Send(c, s, type, draft, plan) => UNCHANGED dispatched
      BY DEF Send, history
    <2>5. \A c, r : Cancel(c, s, r) => UNCHANGED dispatched
      BY DEF Cancel, history
    <2>6. \A c, r, n, decision : Approve(c, s, r, n, decision) => UNCHANGED dispatched
      BY DEF Approve
    <2>7. \A c, r, n : Answer(c, s, r, n) => UNCHANGED dispatched
      BY DEF Answer
    <2>8. CommandFails(s) \/ CommandFlushThrows(s) \/ UpdateSession(s) \/ DeleteSession(s)
          => UNCHANGED dispatched
      BY DEF CommandFails, CommandFlushThrows, UpdateSession, DeleteSession, history
    <2> QED BY <2>1, <2>2, <2>3, <2>4, <2>5, <2>6, <2>7, <2>8
  <1>2. CASE SwitchStep
    BY <1>2 DEF SwitchStep, BeginSwitch, EndSwitch, history
  <1>3. ASSUME NEW s \in Sessions, TurnStep(s)
        PROVE  UNCHANGED dispatched \/ StartTurn(s)
    BY <1>3 DEF TurnStep, SendSettles, FinishTurn, FinishTurnFails, RetryFires, RetrySettles,
                RetryFails, TimerFlush, TimerFlushThrows, TitleGenerated, history
  <1>4. ASSUME NEW s \in Sessions, ProviderStep(s)
        PROVE  UNCHANGED dispatched
    BY <1>4 DEF ProviderStep, Spawn, OpeningFails, ProviderReady, TurnEnds, ChildExits,
                ProcessGone, ProviderEvent, history
  <1>5. CASE HostStep
    BY <1>5 DEF HostStep, Close, Exit, Crash, Down, Restart, history
  <1>6. CASE UNCHANGED vars
    BY <1>6 DEF vars, history
  <1> QED BY <1>1, <1>2, <1>3, <1>4, <1>5, <1>6 DEF Next

LEMMA NextIsService ==
    IInv /\ TInv /\ DInv /\ [Next]_vars => [Service!Next]_(Service!vars)
  <1> SUFFICES ASSUME IInv, TInv, DInv, [Next]_vars
               PROVE  Service!Next \/ UNCHANGED Service!vars
    OBVIOUS
  <1>1. IInv' /\ TInv'
    BY NextPreserves, NextInOrder
  <1>2. SessionStep /\ \A s \in Sessions : RowStep(s)
    BY NextIsStep, NextKeepsRows DEF TInv, VInv
  <1>3. CASE UNCHANGED dispatched
    BY <1>1, <1>2, <1>3, OnlySendsAccept, SettlesOrStutters, SendAccepts
  <1>4. CASE dispatched' # dispatched
    BY <1>4, OnlyStartsDispatch, StartDispatches
  <1> QED BY <1>3, <1>4

\* The engine keeps what the host promises about turns: a turn is accepted once, by a
\* session that runs no other; it is dispatched at most once, and only while it is its
\* session's turn; and it is settled for good (engine.ts:268-289, 420-471, 778-862).
THEOREM ServesTurns == Spec => TurnsAreServed
  <1>1. Spec => []DInv
    <2>1. Init => DInv
      BY DEF Init, DInv, DispatchedIsAccepted, ChainIsAccepted, AtMostOneDispatch
    <2> QED BY <2>1, NextDispatchesOnce, Invariance, PTL DEF Spec
  <1>2. Init => Service!Init
    BY InitIsService
  <1>3. IInv /\ TInv /\ DInv /\ [Next]_vars => [Service!Next]_(Service!vars)
    BY NextIsService
  <1> QED BY <1>1, <1>2, <1>3, TranscriptsInOrder, Invariance, PTL
          DEF Spec, TurnsAreServed, Service!Spec

=============================================================================

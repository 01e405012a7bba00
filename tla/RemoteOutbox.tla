---------------------------- MODULE RemoteOutbox ----------------------------
(***************************************************************************)
(* How a message typed into a tab of a remote project reaches its host: the *)
(* outbox in local storage (connections/model/connections.ts) and the code  *)
(* that fills and empties it, retries, tries again and follows the tab from *)
(* one conversation to another (connections/ui/RemoteSession.tsx).           *)
(*                                                                          *)
(* Abstractions.  A message is its command id (turn.commandId), which is    *)
(* also the id of the block the host appends.  A session created by the     *)
(* command c is named c.  The host is what HostEngine promises: receipts by *)
(* command id and payload, one turn of a session at a time.  A tab prepares *)
(* or awaits one command at a time: the commands that do not carry a message *)
(* (cancel, approve, answer, configure, removeDraft) are left out, and so are *)
(* the tab's online flag, which only keeps the user from acting, and the     *)
(* settings of a session.                                                    *)
(***************************************************************************)
EXTENDS Desktop, Naturals, Sequences, FiniteSets

CONSTANTS
    Tabs,         \* tabs (shells) of one remote project
    Messages,     \* what the users of these tabs write, each once
    Creates,      \* command ids of "create" (crypto.randomUUID)
    OldSessions,  \* conversations the host already has
    MaxLosses,    \* answers that never arrive
    MaxSwitches,  \* times a tab shows another conversation
    MaxRestarts,  \* restarts of the desktop app
    MaxOthers     \* turns that other clients of the host start

ASSUME OutboxAssumption ==
    /\ Messages \cap (Creates \cup OldSessions) = {} /\ Creates \cap OldSessions = {}
    /\ None \notin Messages \cup Creates \cup OldSessions
    /\ MaxLosses \in Nat /\ MaxSwitches \in Nat /\ MaxRestarts \in Nat /\ MaxOthers \in Nat

VARIABLES
    \* Local storage.
    outbox,     \* command id -> its pending entry
    bound,      \* tab -> the conversation it shows, None for a new one
    \* The memory of the app.
    starting,   \* tab -> the message shown ahead of the host, and whether it failed
    pending,    \* tab -> the request it offers to retry
    unseen,     \* tab -> the message sent and not yet seen in a snapshot
    snapshot,   \* tab -> what the host last showed of its conversation
    job,        \* tab -> the command it prepares or awaits
    \* The network and the host.
    wire,       \* request -> copies the host has not handled
    receipts,   \* command id -> the request the host accepted
    prompts,    \* the turns the host started for these messages
    turnOn,     \* sessions with a turn running
    \* History, read by the properties only.
    origin,     \* message -> the tab and the session it was written in, None for a new one
    made,       \* create id -> the message it was made for
    saved,      \* messages that have been in the outbox
    refused,    \* command ids the tab was told were refused
    \* Bounds of the model.
    losses, switches, restarts, others

outboxStore  == <<outbox, bound>>
outboxTab    == <<starting, pending, unseen, snapshot, job>>
outboxHost   == <<receipts, prompts, turnOn>>
outboxPast   == <<origin, made, saved, refused>>
outboxBounds == <<losses, switches, restarts, others>>
outboxVars   == <<outboxStore, outboxTab, wire, outboxHost, outboxPast, outboxBounds>>

RemoteSessions == OldSessions \cup Creates
Request(id, target) == [id |-> id, target |-> target]
CreateRequests == {Request(c, None) : c \in Creates}
SendRequests   == {Request(m, s) : m \in Messages, s \in RemoteSessions}
Requests       == CreateRequests \cup SendRequests
IsCreate(id)   == id \in Creates

Entry(target, tab, followup) == [target |-> target, tab |-> tab, followup |-> followup]
Entries  == [target : RemoteSessions \cup {None}, tab : Tabs, followup : Messages \cup {None}]
Starting == [msg : Messages, failed : BOOLEAN]
Snapshots == [blocks : SUBSET Messages, busy : BOOLEAN]
Jobs == [kind : {"start", "dispatch", "again", "retry"}, msg : Messages \cup {None},
         request : Requests \cup {None}, at : {"prepare", "asking", "ok", "no"}, current : BOOLEAN]

ASSUME JobsAssumption == None \notin Starting /\ None \notin Snapshots /\ None \notin Requests /\ None \notin Jobs

OutboxTypeOK ==
    /\ DOMAIN outbox \subseteq Creates \cup Messages
    /\ \A id \in DOMAIN outbox : outbox[id] \in Entries
    /\ bound \in [Tabs -> RemoteSessions \cup {None}]
    /\ starting \in [Tabs -> Starting \cup {None}]
    /\ pending \in [Tabs -> Requests \cup {None}]
    /\ unseen \in [Tabs -> Messages \cup {None}]
    /\ snapshot \in [Tabs -> Snapshots \cup {None}]
    /\ job \in [Tabs -> Jobs \cup {None}]
    /\ wire \in [Requests -> Nat]
    /\ DOMAIN receipts \subseteq Creates \cup Messages
    /\ \A id \in DOMAIN receipts : receipts[id] \in Requests
    /\ prompts \in Seq(Messages \X RemoteSessions)
    /\ turnOn \subseteq RemoteSessions

OutboxInit ==
    /\ outbox = <<>> /\ bound \in [Tabs -> OldSessions \cup {None}]
    /\ starting = [t \in Tabs |-> None] /\ pending = [t \in Tabs |-> None]
    /\ unseen = [t \in Tabs |-> None] /\ snapshot = [t \in Tabs |-> None]
    /\ job = [t \in Tabs |-> None]
    /\ wire = [r \in Requests |-> 0] /\ receipts = <<>> /\ prompts = <<>> /\ turnOn = {}
    /\ origin = <<>> /\ made = <<>> /\ saved = {} /\ refused = {}
    /\ losses = 0 /\ switches = 0 /\ restarts = 0 /\ others = 0

(*************************** The outbox ************************************)
Put(box, id, entry) == [i \in DOMAIN box \cup {id} |-> IF i = id THEN entry ELSE box[i]]
Cleared(box, id)    == [i \in DOMAIN box \ {id} |-> box[i]]
\* The followup of an entry survives a save that brings none.
Followup(box, id) == IF id \in DOMAIN box THEN box[id].followup ELSE None
\* One slot for a whole project: a new request replaces an uncertain one.
Saved_OneSlot(box, r, t, followup) ==
    [i \in {r.id} |-> Entry(r.target, t, IF followup = None THEN Followup(box, r.id) ELSE followup)]
Saved(box, r, t, followup) ==
    Put(box, r.id, Entry(r.target, t, IF followup = None THEN Followup(box, r.id) ELSE followup))
Shown(box, session, t) ==
    {id \in DOMAIN box : IF session = None THEN IsCreate(id) /\ box[id].tab = t
                                           ELSE ~IsCreate(id) /\ box[id].target = session}
\* What the tab may read back: any one of the entries that match.
PendingIn(box, session, t) ==
    IF Shown(box, session, t) = {} THEN {None}
    ELSE {Request(id, box[id].target) : id \in Shown(box, session, t)}

(*************************** What the tab shows ****************************)
Blocks(t) == IF snapshot[t] = None THEN {} ELSE snapshot[t].blocks
StartingActive(t) == starting[t] # None /\ ~starting[t].failed /\ starting[t].msg \notin Blocks(t)
TabBusy(t) ==
    \/ snapshot[t] # None /\ snapshot[t].busy
    \/ unseen[t] # None /\ unseen[t] \notin Blocks(t)
    \/ StartingActive(t)
    \/ /\ pending[t] # None /\ ~IsCreate(pending[t].id)
       /\ pending[t].target = bound[t] /\ pending[t].id \notin Blocks(t)

Job(kind, msg, request, at) ==
    [kind |-> kind, msg |-> msg, request |-> request, at |-> at, current |-> TRUE]
Preparing(kind, msg) == Job(kind, msg, None, "prepare")
Failed(msg) == [msg |-> msg, failed |-> TRUE]

(*************************** The user **************************************)
\* submit: the first message of a new conversation, or one for the shown one.
Submit(t, m) ==
    /\ m \notin DOMAIN origin
    /\ job[t] = None /\ pending[t] = None /\ ~TabBusy(t)
    /\ snapshot[t] = None => bound[t] = None
    /\ starting' = [starting EXCEPT ![t] = [msg |-> m, failed |-> FALSE]]
    /\ job' = [job EXCEPT ![t] = Preparing(IF bound[t] = None THEN "start" ELSE "dispatch", m)]
    /\ origin' = Put(origin, m, [tab |-> t, session |-> bound[t]])
    /\ UNCHANGED <<outboxStore, pending, unseen, snapshot, wire, outboxHost, made, saved, refused,
                   outboxBounds>>

\* run up to its first await, for the request r.
Asks(t, kind, msg, r, followup) ==
    /\ outbox' = Saved(outbox, r, t, followup)
    /\ pending' = [pending EXCEPT ![t] = r]
    /\ unseen' = [unseen EXCEPT ![t] = IF IsCreate(r.id) THEN @ ELSE r.id]
    /\ wire' = [wire EXCEPT ![r] = @ + 1]
    /\ job' = [job EXCEPT ![t] = Job(kind, msg, r, "asking")]

\* The attachments are uploaded and the worktree is there: the command leaves.
Prepared(t) ==
    /\ job[t] # None /\ job[t].at = "prepare" /\ job[t].current
    /\ IF job[t].kind = "start"
       THEN \E c \in Creates \ DOMAIN made :
                /\ Asks(t, "start", job[t].msg, Request(c, None), job[t].msg)
                /\ made' = Put(made, c, job[t].msg)
       ELSE /\ Asks(t, job[t].kind, job[t].msg, Request(job[t].msg, bound[t]), None)
            /\ UNCHANGED made
    /\ saved' = saved \cup {job[t].msg}
    /\ UNCHANGED <<bound, starting, snapshot, outboxHost, origin, refused, outboxBounds>>

\* The upload or the worktree fails.
PreparationFails(t) ==
    /\ job[t] # None /\ job[t].at = "prepare" /\ losses < MaxLosses
    /\ starting' = [starting EXCEPT ![t] = Failed(job[t].msg)]
    /\ job' = [job EXCEPT ![t] = None]
    /\ losses' = losses + 1
    /\ UNCHANGED <<outboxStore, pending, unseen, snapshot, wire, outboxHost, outboxPast,
                   switches, restarts, others>>

\* dispatchTurn gives up because the tab shows another conversation; the
\* notice's Try again does not check that before it marks its message failed.
AgainGivesUp(t) ==
    /\ job[t] # None /\ job[t].at = "prepare" /\ ~job[t].current
    /\ starting' = [starting EXCEPT ![t] = Failed(job[t].msg)]
    /\ job' = [job EXCEPT ![t] = None]
    /\ UNCHANGED <<outboxStore, pending, unseen, snapshot, wire, outboxHost, outboxPast, outboxBounds>>

\* The notice's Retry: the pending request, under its own id.
Retry(t) ==
    /\ pending[t] # None /\ job[t] = None
    /\ starting' = [starting EXCEPT ![t] = IF @ = None THEN None ELSE [@ EXCEPT !.failed = FALSE]]
    /\ Asks(t, "retry", None, pending[t], None)
    /\ UNCHANGED <<bound, snapshot, outboxHost, outboxPast, outboxBounds>>

TryAgain_WhilePending(t) ==
    /\ job[t] = None
    /\ starting[t] # None /\ starting[t].failed
    /\ starting' = [starting EXCEPT ![t].failed = FALSE]
    /\ job' = [job EXCEPT ![t] =
                   Preparing(IF bound[t] = None THEN "start" ELSE "again", starting[t].msg)]
    /\ UNCHANGED <<outboxStore, pending, unseen, snapshot, wire, outboxHost, outboxPast, outboxBounds>>
\* The notice's Try again, offered when nothing is pending.
TryAgain(t) ==
    /\ pending[t] = None /\ job[t] = None
    /\ starting[t] # None /\ starting[t].failed
    /\ starting' = [starting EXCEPT ![t].failed = FALSE]
    /\ job' = [job EXCEPT ![t] =
                   Preparing(IF bound[t] = None THEN "start" ELSE "again", starting[t].msg)]
    /\ UNCHANGED <<outboxStore, pending, unseen, snapshot, wire, outboxHost, outboxPast, outboxBounds>>

\* Another conversation, or a new one, opens in the tab: what it awaited is
\* late from now on.  Every tab reads its pending request again.
Late(j) == IF j = None \/ (j.at = "prepare" /\ j.kind # "again") THEN None
           ELSE [j EXCEPT !.current = FALSE]
Readings(box, where) == {p \in [Tabs -> Requests \cup {None}] :
                             \A t \in Tabs : p[t] \in PendingIn(box, where[t], t)}
Switch(t, s) ==
    /\ s # bound[t] /\ s \in OldSessions \cup (DOMAIN receipts \cap Creates) \cup {None}
    /\ switches < MaxSwitches
    /\ bound' = [bound EXCEPT ![t] = s]
    /\ starting' = [starting EXCEPT ![t] = None]
    /\ unseen' = [unseen EXCEPT ![t] = None]
    /\ snapshot' = [snapshot EXCEPT ![t] = None]
    /\ job' = [job EXCEPT ![t] = Late(@)]
    /\ pending' \in Readings(outbox, [bound EXCEPT ![t] = s])
    /\ switches' = switches + 1
    /\ UNCHANGED <<outbox, wire, outboxHost, outboxPast, losses, restarts, others>>

\* A poll: what the host shows now; what it confirms is no longer awaited.
Prompted(s) == {m \in Messages : \E i \in DOMAIN prompts : prompts[i] = <<m, s>>}
Sync(t) ==
    /\ bound[t] # None
    /\ LET blocks == Prompted(bound[t])
       IN /\ snapshot' = [snapshot EXCEPT ![t] = [blocks |-> blocks, busy |-> bound[t] \in turnOn]]
          /\ starting' = [starting EXCEPT ![t] =
                 IF @ # None /\ ~@.failed /\ @.msg \in blocks THEN None ELSE @]
          /\ unseen' = [unseen EXCEPT ![t] = IF @ \in blocks THEN None ELSE @]
    /\ UNCHANGED <<outboxStore, pending, job, wire, outboxHost, outboxPast, outboxBounds>>

(*************************** Answers ***************************************)
\* The answer to a job's request is lost, or never comes in 30 seconds: the
\* request stays in the outbox and may still reach the host.
Shows(t, j, failed) ==
    starting' = [starting EXCEPT ![t] =
        IF failed /\ (j.kind = "again" \/ (j.current /\ j.kind # "retry")) THEN Failed(j.msg) ELSE @]
LoseAnswer(t) ==
    /\ job[t] # None /\ job[t].at # "prepare" /\ losses < MaxLosses
    /\ Shows(t, job[t], TRUE)
    /\ job' = [job EXCEPT ![t] = None]
    /\ losses' = losses + 1
    /\ UNCHANGED <<outboxStore, pending, unseen, snapshot, wire, outboxHost, outboxPast,
                   switches, restarts, others>>

\* "Host rejected request": a tab that still shows the conversation drops the
\* entry; one that has switched leaves it.
RefusalArrives(t) ==
    LET j == job[t]  id == j.request.id
    IN /\ j # None /\ j.at = "no"
       /\ IF j.current
          THEN /\ outbox' = Cleared(outbox, id)
               /\ unseen' = [unseen EXCEPT ![t] = IF @ = id THEN None ELSE @]
               /\ \E p \in PendingIn(outbox', bound[t], t) : pending' = [pending EXCEPT ![t] = p]
               /\ refused' = refused \cup {id}
          ELSE UNCHANGED <<outbox, unseen, pending, refused>>
       /\ Shows(t, j, TRUE)
       /\ job' = [job EXCEPT ![t] = None]
       /\ UNCHANGED <<bound, snapshot, wire, outboxHost, origin, made, saved, outboxBounds>>

ReceiptWrites_ClearFirst(id, t) ==
    LET next == Followup(outbox, id)
        dropped == Cleared(outbox, id)
    IN <<dropped, IF next = None THEN dropped ELSE Saved(dropped, Request(next, id), t, None)>>
\* The writes run makes to local storage when a receipt arrives, in order: the
\* first message is saved under its own id before the create is dropped.
ReceiptWrites(id, t) ==
    LET next == Followup(outbox, id)
        kept == IF next = None THEN outbox
                ELSE Saved(outbox, Request(next, id), t, None)
    IN <<kept, Cleared(kept, id)>>

\* The receipt of a message.
SendReceipt(t) ==
    LET j == job[t]
    IN /\ j # None /\ j.at = "ok" /\ ~IsCreate(j.request.id)
       /\ outbox' = Cleared(outbox, j.request.id)
       /\ IF j.current
          THEN \E p \in PendingIn(outbox', bound[t], t) : pending' = [pending EXCEPT ![t] = p]
          ELSE UNCHANGED pending
       /\ job' = [job EXCEPT ![t] = None]
       /\ UNCHANGED <<bound, starting, unseen, snapshot, wire, outboxHost, outboxPast, outboxBounds>>

\* The receipt of a create, with what its caller does next: startSession goes
\* on with the first message, a retry with whatever the session has pending.
CreateReceipt(t) ==
    LET j == job[t]  s == j.request.id  writes == ReceiptWrites(s, t)
    IN /\ j # None /\ j.at = "ok" /\ IsCreate(s)
       /\ UNCHANGED <<starting, snapshot, outboxHost, outboxPast, outboxBounds>>
       /\ IF ~j.current
          THEN /\ outbox' = writes[2]
               /\ job' = [job EXCEPT ![t] = None]
               /\ UNCHANGED <<bound, pending, unseen, wire>>
          ELSE /\ bound' = [bound EXCEPT ![t] = s]
               /\ \E others1 \in Readings(writes[1], bound'), p \in PendingIn(writes[2], s, t) :
                      LET next == IF j.kind = "start" THEN Request(j.msg, s) ELSE p
                      IN IF next = None
                         THEN /\ outbox' = writes[2]
                              /\ pending' = [others1 EXCEPT ![t] = None]
                              /\ job' = [job EXCEPT ![t] = None]
                              /\ UNCHANGED <<unseen, wire>>
                         ELSE /\ outbox' = Saved(writes[2], next, t, None)
                              /\ pending' = [others1 EXCEPT ![t] = next]
                              /\ unseen' = [unseen EXCEPT ![t] = next.id]
                              /\ wire' = [wire EXCEPT ![next] = @ + 1]
                              /\ job' = [job EXCEPT ![t] =
                                     Job(IF j.kind = "start" THEN "dispatch" ELSE "retry", j.msg, next, "asking")]

\* The app starts again from what local storage holds.
Restarted(box) ==
    /\ outbox' = box
    /\ starting' = [t \in Tabs |-> None] /\ unseen' = [t \in Tabs |-> None]
    /\ snapshot' = [t \in Tabs |-> None] /\ job' = [t \in Tabs |-> None]
    /\ pending' \in Readings(box, bound)
    /\ restarts' = restarts + 1
    /\ UNCHANGED <<bound, wire, outboxHost, outboxPast, losses, switches, others>>
Restart == restarts < MaxRestarts /\ Restarted(outbox)
\* It dies after the first of the writes that a receipt makes.
DiesDuringReceipt(t) ==
    /\ job[t] # None /\ job[t].at = "ok" /\ IsCreate(job[t].request.id)
    /\ restarts < MaxRestarts
    /\ Restarted(ReceiptWrites(job[t].request.id, t)[1])

(*************************** The host **************************************)
Awaits(t, r) == job[t] # None /\ job[t].at = "asking" /\ job[t].request = r
Accepts(r) ==
    \/ r.id \in DOMAIN receipts /\ receipts[r.id] = r
    \/ r.id \notin DOMAIN receipts /\ (IsCreate(r.id) \/ r.target \notin turnOn)
\* A create may be turned down too: its project or provider is gone.
Rejects(r) ==
    \/ r.id \in DOMAIN receipts /\ receipts[r.id] # r
    \/ r.id \notin DOMAIN receipts /\ (IsCreate(r.id) \/ r.target \in turnOn)
Executed_NoReceipt(r) ==
    /\ receipts' = Put(receipts, r.id, r)
    /\ prompts' = IF IsCreate(r.id) THEN prompts ELSE Append(prompts, <<r.id, r.target>>)
    /\ turnOn' = IF IsCreate(r.id) THEN turnOn ELSE turnOn \cup {r.target}
Executed(r) ==
    IF r.id \in DOMAIN receipts THEN UNCHANGED outboxHost
    ELSE /\ receipts' = Put(receipts, r.id, r)
         /\ prompts' = IF IsCreate(r.id) THEN prompts ELSE Append(prompts, <<r.id, r.target>>)
         /\ turnOn' = IF IsCreate(r.id) THEN turnOn ELSE turnOn \cup {r.target}
\* One copy of a request reaches the host, in any order.  Its answer goes to
\* a tab that awaits it, or to one that has given up on it.
HostHandles(r) ==
    /\ wire[r] > 0
    /\ wire' = [wire EXCEPT ![r] = @ - 1]
    /\ \E at \in {"ok", "no"} :
           /\ IF at = "ok" THEN Accepts(r) /\ Executed(r) ELSE Rejects(r) /\ UNCHANGED outboxHost
           /\ \/ \E t \in Tabs : Awaits(t, r) /\ job' = [job EXCEPT ![t].at = at]
              \/ wire[r] > Cardinality({t \in Tabs : Awaits(t, r)}) /\ UNCHANGED job
    /\ UNCHANGED <<outboxStore, starting, pending, unseen, snapshot, outboxPast, outboxBounds>>
HostTurnEnds(s) ==
    /\ s \in turnOn /\ turnOn' = turnOn \ {s}
    /\ UNCHANGED <<outboxStore, outboxTab, wire, receipts, prompts, outboxPast, outboxBounds>>
OtherClient(s) ==
    /\ s \in (OldSessions \cup DOMAIN receipts) \ turnOn /\ s \in RemoteSessions /\ others < MaxOthers
    /\ turnOn' = turnOn \cup {s}
    /\ others' = others + 1
    /\ UNCHANGED <<outboxStore, outboxTab, wire, receipts, prompts, outboxPast, losses, switches, restarts>>

OutboxNext ==
    \/ \E t \in Tabs, m \in Messages : Submit(t, m)
    \/ \E t \in Tabs : \/ Prepared(t) \/ PreparationFails(t) \/ AgainGivesUp(t)
                       \/ Retry(t) \/ TryAgain(t) \/ Sync(t)
                       \/ LoseAnswer(t) \/ RefusalArrives(t) \/ SendReceipt(t)
                       \/ CreateReceipt(t) \/ DiesDuringReceipt(t)
    \/ \E t \in Tabs, s \in RemoteSessions \cup {None} : Switch(t, s)
    \/ Restart
    \/ \E r \in Requests : HostHandles(r)
    \/ \E s \in RemoteSessions : HostTurnEnds(s) \/ OtherClient(s)

OutboxSpec == OutboxInit /\ [][OutboxNext]_outboxVars
-----------------------------------------------------------------------------
\* A message is prompted at most once, whatever is lost, retried, tried again
\* or handled late (the receipts asked for again under the original id).
PromptedOnce ==
    \A i, j \in DOMAIN prompts : prompts[i][1] = prompts[j][1] => i = j

\* A message whose command or create has been saved is never forgotten: until
\* the host has it or has turned it down, the outbox holds it, under its own id
\* or as the followup of its create (savePendingRemoteCommand before dispatch).
SavedIsKept ==
    \A m \in saved :
        \/ m \in DOMAIN receipts \cup DOMAIN outbox
        \/ \E id \in DOMAIN outbox : outbox[id].followup = m
        \/ m \in refused \/ \E c \in refused \cap DOMAIN made : made[c] = m

\* Local storage is in order: its entries are entries, and none that was saved
\* is lost between two of its writes (connections.ts:86-151).
OutboxConsistent == OutboxTypeOK /\ SavedIsKept

\* A lost answer does not create another conversation: the tab asks for a
\* second one for a message that was written for a new one only when it was
\* told that the host had turned down the message or one of the creates, or
\* when the host has the message.
OneConversation ==
    \A c, d \in DOMAIN made : LET m == made[c] IN
        made[d] = m /\ c # d /\ origin[m].session = None =>
            {c, d, m} \cap refused # {} \/ m \in DOMAIN receipts

\* A receipt, a refusal or another pane's command never erases a request whose
\* fate is uncertain: an entry leaves the outbox when the host has its command
\* or this tab was told that it was refused.
OnlyItsAnswerErases ==
    [][\A id \in DOMAIN outbox \ DOMAIN outbox' : id \in DOMAIN receipts \cup refused']_outboxVars

\* A message reaches only the conversation it was written for: what the answer
\* to a switched tab is dropped for (RemoteSession.test.ts:1065).
StaysInItsConversation ==
    \A i \in DOMAIN prompts :
        LET m == prompts[i][1]  s == prompts[i][2]
        IN IF origin[m].session = None THEN s \in DOMAIN made /\ made[s] = m ELSE s = origin[m].session

\* A message the tab shows as on its way is on its way: in the outbox, at the
\* host, or being prepared (RemoteSession.tsx:326, docs/remote-access.md:67).
ShownIsOnItsWay ==
    \A t \in Tabs :
        StartingActive(t) /\ job[t] = None =>
            \/ starting[t].msg \in DOMAIN receipts \cup DOMAIN outbox
            \/ \E id \in DOMAIN outbox : outbox[id].followup = starting[t].msg
=============================================================================

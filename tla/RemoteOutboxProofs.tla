------------------------- MODULE RemoteOutboxProofs -------------------------
(***************************************************************************)
(* A message is prompted at most once, an entry of the outbox stays until   *)
(* the host has its command or has turned it down, and no message that was  *)
(* saved is lost between two writes to local storage.                       *)
(*                                                                          *)
(* What these rest on: the entry of a create names no session and may carry *)
(* the message the create was made for, that of a message names its session *)
(* and carries none; a job that awaits an answer has a request, and one that *)
(* got a receipt has it from the host.                                      *)
(*                                                                          *)
(* The second part proves that no second conversation is made for a message. *)
(***************************************************************************)
EXTENDS RemoteOutbox, TLAPS

\* Local storage: a create names no session, a message names its own.
BoxOK(box) ==
    /\ DOMAIN box \subseteq Creates \cup Messages
    /\ \A id \in DOMAIN box : box[id] \in Entries /\ (box[id].target = None <=> id \in Creates)

\* A followup is the message its create was made for.
FollowupsMade(box) ==
    \A id \in DOMAIN box : box[id].followup # None => id \in DOMAIN made /\ made[id] = box[id].followup

\* A message is in the outbox, under its own id or with its create.
Kept(box, m) == m \in DOMAIN box \/ \E id \in DOMAIN box : box[id].followup = m

PastOK ==
    /\ DOMAIN made \subseteq Creates /\ \A c \in DOMAIN made : made[c] \in Messages
    /\ saved \subseteq Messages

\* What a job carries at each of its stages, in a tab that shows where.
JobFits(j, where) ==
    /\ j.at # "prepare" => j.request \in Requests
    /\ j.at = "prepare" => j.kind # "retry"
    /\ j.kind # "retry" => j.msg \in Messages
    /\ j.at = "prepare" /\ j.current /\ j.kind # "start" => where # None
JobOK == \A t \in Tabs : job[t] # None => JobFits(job[t], bound[t])

\* A receipt that arrives is one the host gave.
ReceiptIsTheHosts ==
    \A t \in Tabs : job[t] # None /\ job[t].at = "ok" => job[t].request.id \in DOMAIN receipts

PromptsHaveReceipts == \A i \in DOMAIN prompts : prompts[i][1] \in DOMAIN receipts

BoxInv  == PastOK /\ BoxOK(outbox) /\ FollowupsMade(outbox) /\ SavedIsKept
JobInv  == JobOK /\ ReceiptIsTheHosts
HostInv == PromptsHaveReceipts /\ PromptedOnce
OutboxInv == OutboxTypeOK /\ BoxInv /\ JobInv /\ HostInv

-----------------------------------------------------------------------------
(* The operators of the outbox *)

LEMMA NoneIsNothing ==
    /\ None \notin Messages /\ None \notin RemoteSessions /\ None \notin Creates
    /\ Messages \cap Creates = {} /\ Messages \cap RemoteSessions = {}
  BY OutboxAssumption DEF RemoteSessions

\* A request of a create names no session, one of a message does.
LEMMA RequestParts ==
    ASSUME NEW r \in Requests
    PROVE  /\ r.id \in Creates \cup Messages /\ r = Request(r.id, r.target)
           /\ IsCreate(r.id) <=> r.target = None
           /\ ~IsCreate(r.id) => r.id \in Messages /\ r.target \in RemoteSessions
  <1>1. CASE r \in CreateRequests
    BY <1>1 DEF CreateRequests, Request, IsCreate
  <1>2. CASE r \in SendRequests
    BY <1>2, NoneIsNothing DEF SendRequests, Request, IsCreate
  <1> QED BY <1>1, <1>2 DEF Requests

LEMMA RequestMade ==
    /\ \A c \in Creates : Request(c, None) \in Requests
    /\ \A m \in Messages, s \in RemoteSessions : Request(m, s) \in Requests
  <1>1. \A c \in Creates : Request(c, None) \in Requests
    BY DEF Requests, CreateRequests
  <1>2. \A m \in Messages, s \in RemoteSessions : Request(m, s) \in Requests
    BY DEF Requests, SendRequests
  <1> QED BY <1>1, <1>2

\* A save adds the entry of its request and leaves the others as they are.
SavedAs(new, box, id, entry) ==
    /\ DOMAIN new = DOMAIN box \cup {id} /\ new[id] = entry
    /\ \A i \in DOMAIN box : i # id => new[i] = box[i]

LEMMA SavedIs ==
    ASSUME NEW box, NEW r, NEW t, NEW followup
    PROVE  SavedAs(Saved(box, r, t, followup), box, r.id,
                   Entry(r.target, t, IF followup = None THEN Followup(box, r.id) ELSE followup))
  BY DEF SavedAs, Saved, Put

\* The entry of a save is an entry of its request, and keeps the followup it
\* had unless it is given one.
LEMMA SavedOK ==
    ASSUME NEW box, BoxOK(box), NEW r \in Requests, NEW t \in Tabs, NEW followup \in Messages \cup {None}
    PROVE  BoxOK(Saved(box, r, t, followup))
  <1> DEFINE new == Saved(box, r, t, followup)
             entry == Entry(r.target, t, IF followup = None THEN Followup(box, r.id) ELSE followup)
  <1>1. SavedAs(new, box, r.id, entry)
    BY SavedIs
  <1>2. Followup(box, r.id) \in Messages \cup {None}
    BY DEF Followup, BoxOK, Entries
  <1>3. r.target \in RemoteSessions \cup {None} /\ (r.target = None <=> r.id \in Creates)
        /\ r.id \in Creates \cup Messages
    BY RequestParts DEF IsCreate
  <1>4. entry \in Entries /\ entry.target = r.target
    BY <1>2, <1>3 DEF Entry, Entries
  <1> HIDE DEF new, entry
  <1>5. BoxOK(new)
    BY <1>1, <1>3, <1>4 DEF BoxOK, SavedAs
  <1> QED BY <1>5 DEF new

LEMMA SavedKeeps ==
    ASSUME NEW box, BoxOK(box), NEW r, NEW t, NEW m \in Messages, Kept(box, m)
    PROVE  Kept(Saved(box, r, t, None), m)
  <1> DEFINE new == Saved(box, r, t, None)
             entry == Entry(r.target, t, Followup(box, r.id))
  <1>1. SavedAs(new, box, r.id, entry)
    BY SavedIs
  <1>2. entry.followup = Followup(box, r.id)
    BY DEF Entry
  <1> HIDE DEF new, entry
  <1>3. m \in DOMAIN box => Kept(new, m)
    BY <1>1 DEF Kept, SavedAs
  <1>4. ASSUME NEW id \in DOMAIN box, box[id].followup = m
        PROVE  Kept(new, m)
    <2>1. CASE id = r.id
      BY <1>1, <1>2, <1>4, <2>1 DEF Kept, SavedAs, Followup
    <2>2. CASE id # r.id
      BY <1>1, <1>4, <2>2 DEF Kept, SavedAs
    <2> QED BY <2>1, <2>2
  <1>5. Kept(new, m)
    BY <1>3, <1>4 DEF Kept
  <1> QED BY <1>5 DEF new

LEMMA SavedFollowups ==
    ASSUME NEW box, FollowupsMade(box), NEW r, NEW t
    PROVE  FollowupsMade(Saved(box, r, t, None))
  <1> DEFINE new == Saved(box, r, t, None)
             entry == Entry(r.target, t, Followup(box, r.id))
  <1>1. SavedAs(new, box, r.id, entry)
    BY SavedIs
  <1>2. entry.followup = Followup(box, r.id)
    BY DEF Entry
  <1> HIDE DEF new, entry
  <1>3. FollowupsMade(new)
    BY <1>1, <1>2 DEF FollowupsMade, SavedAs, Followup
  <1> QED BY <1>3 DEF new

LEMMA SavedDomain ==
    ASSUME NEW box, NEW r, NEW t, NEW followup
    PROVE  DOMAIN Saved(box, r, t, followup) = DOMAIN box \cup {r.id}
  BY DEF Saved, Put

LEMMA ClearedOK ==
    ASSUME NEW box, NEW id
    PROVE  /\ BoxOK(box) => BoxOK(Cleared(box, id))
           /\ FollowupsMade(box) => FollowupsMade(Cleared(box, id))
           /\ DOMAIN Cleared(box, id) = DOMAIN box \ {id}
  BY DEF Cleared, BoxOK, FollowupsMade

\* A message leaves the outbox with the entry it stands in.
LEMMA ClearedKeeps ==
    ASSUME NEW box, NEW id, NEW m, Kept(box, m), m # id, id \in DOMAIN box => box[id].followup # m
    PROVE  Kept(Cleared(box, id), m)
  BY DEF Kept, Cleared

\* What a tab reads back is a request of the outbox.
LEMMA PendingTyped ==
    ASSUME NEW box, BoxOK(box), NEW session, NEW t, NEW p \in PendingIn(box, session, t)
    PROVE  p \in Requests \cup {None}
  <1>1. CASE p = None
    BY <1>1
  <1>2. CASE p # None
    <2> PICK id \in DOMAIN box : p = Request(id, box[id].target)
      BY <1>2 DEF PendingIn, Shown
    <2>1. id \in Creates \cup Messages /\ box[id].target \in RemoteSessions \cup {None}
          /\ (box[id].target = None <=> id \in Creates)
      BY DEF BoxOK, Entries
    <2>2. CASE id \in Creates
      BY <2>1, <2>2, RequestMade
    <2>3. CASE id \notin Creates
      BY <2>1, <2>3, RequestMade
    <2> QED BY <2>2, <2>3
  <1> QED BY <1>1, <1>2

\* The first message of a create is in the outbox under its own id before the
\* create is dropped.
LEMMA WritesOK ==
    ASSUME NEW id \in Creates, NEW t \in Tabs, BoxOK(outbox), FollowupsMade(outbox)
    PROVE  \A n \in {1, 2} :
             /\ BoxOK(ReceiptWrites(id, t)[n]) /\ FollowupsMade(ReceiptWrites(id, t)[n])
             /\ \A m \in Messages : Kept(outbox, m) => Kept(ReceiptWrites(id, t)[n], m)
             /\ DOMAIN outbox \ {id} \subseteq DOMAIN ReceiptWrites(id, t)[n]
  <1> DEFINE next == Followup(outbox, id)
             kept == IF next = None THEN outbox ELSE Saved(outbox, Request(next, id), t, None)
  <1>1. ReceiptWrites(id, t)[1] = kept /\ ReceiptWrites(id, t)[2] = Cleared(kept, id)
    BY DEF ReceiptWrites
  <1>2. next \in Messages \cup {None}
    BY DEF Followup, BoxOK, Entries
  <1>3. next # None => Request(next, id) \in Requests /\ Request(next, id).id = next
    BY <1>2, RequestMade DEF RemoteSessions, Request
  <1>4. BoxOK(kept) /\ FollowupsMade(kept)
    BY <1>3, SavedOK, SavedFollowups
  <1>5. \A m \in Messages : Kept(outbox, m) => Kept(kept, m)
    BY SavedKeeps
  <1>6. /\ next = None => DOMAIN kept = DOMAIN outbox
        /\ next # None => DOMAIN kept = DOMAIN outbox \cup {next}
    <2>1. DOMAIN Saved(outbox, Request(next, id), t, None) = DOMAIN outbox \cup {Request(next, id).id}
      BY SavedDomain
    <2> QED BY <1>3, <2>1
  <1>7. DOMAIN outbox \subseteq DOMAIN kept /\ (next # None => next \in DOMAIN kept)
    BY <1>6
  <1>8. id \in DOMAIN kept => kept[id].followup = next
    <2>1. CASE next = None
      BY <2>1 DEF Followup
    <2>2. CASE next # None
      <3>1. SavedAs(Saved(outbox, Request(next, id), t, None), outbox, Request(next, id).id,
                    Entry(Request(next, id).target, t,
                          IF None = None THEN Followup(outbox, Request(next, id).id) ELSE None))
        BY SavedIs
      <3>2. next # id
        BY <1>2, <2>2, NoneIsNothing
      <3> QED BY <1>3, <2>2, <3>1, <3>2 DEF SavedAs, Followup
    <2> QED BY <2>1, <2>2
  <1> HIDE DEF next, kept
  <1>9. BoxOK(Cleared(kept, id)) /\ FollowupsMade(Cleared(kept, id)) /\ DOMAIN Cleared(kept, id) = DOMAIN kept \ {id}
    BY <1>4, ClearedOK
  <1>10. ASSUME NEW m \in Messages, Kept(kept, m)
         PROVE  Kept(Cleared(kept, id), m)
    <2>1. m # id
      BY NoneIsNothing
    <2>2. CASE id \in DOMAIN kept /\ kept[id].followup = m
      <3>1. m \in DOMAIN Cleared(kept, id)
        BY <1>7, <1>8, <1>9, <2>1, <2>2, NoneIsNothing
      <3> QED BY <3>1 DEF Kept
    <2>3. CASE ~(id \in DOMAIN kept /\ kept[id].followup = m)
      BY <1>10, <2>1, <2>3, ClearedKeeps
    <2> QED BY <2>2, <2>3
  <1> QED BY <1>1, <1>4, <1>5, <1>7, <1>9, <1>10

-----------------------------------------------------------------------------
(* The steps *)

\* Steps that write neither local storage nor what it is compared with.
LEMMA QuietForBox ==
    ASSUME BoxInv, UNCHANGED <<outbox, made, saved>>, DOMAIN receipts \subseteq DOMAIN receipts',
           UNCHANGED refused
    PROVE  BoxInv'
  <1>1. UNCHANGED <<outbox, made, saved, refused>>
    OBVIOUS
  <1>2. PastOK' /\ BoxOK(outbox)' /\ FollowupsMade(outbox)'
    BY <1>1 DEF BoxInv, PastOK, BoxOK, FollowupsMade
  <1>3. SavedIsKept'
    BY <1>1 DEF BoxInv, SavedIsKept
  <1> QED BY <1>2, <1>3 DEF BoxInv

\* A step of one tab: its job ends, or is one that fits the tab.
LEMMA JobOf ==
    ASSUME OutboxTypeOK, JobInv, NEW t \in Tabs, NEW j, job' = [job EXCEPT ![t] = j],
           \A u \in Tabs \ {t} : bound'[u] = bound[u],
           j # None => JobFits(j, bound'[t]) /\ (j.at = "ok" => j.request.id \in DOMAIN receipts),
           UNCHANGED receipts
    PROVE  JobInv'
  <1>1. job'[t] = j /\ \A u \in Tabs \ {t} : job'[u] = job[u]
    BY DEF OutboxTypeOK
  <1>2. JobOK'
    BY <1>1 DEF JobInv, JobOK
  <1>3. ReceiptIsTheHosts'
    BY <1>1 DEF JobInv, ReceiptIsTheHosts
  <1> QED BY <1>2, <1>3 DEF JobInv

LEMMA QuietForJobs ==
    ASSUME JobInv, UNCHANGED <<job, bound, receipts>>
    PROVE  JobInv'
  BY DEF JobInv, JobOK, ReceiptIsTheHosts

LEMMA QuietForHost ==
    ASSUME HostInv, UNCHANGED <<receipts, prompts>>
    PROVE  HostInv'
  BY DEF HostInv, PromptsHaveReceipts, PromptedOnce

\* Local storage after a step that keeps every message it saved.
LEMMA KeptBy ==
    ASSUME SavedIsKept, UNCHANGED <<receipts, made, saved>>, refused \subseteq refused',
           saved \subseteq Messages,
           \A m \in Messages : Kept(outbox, m) =>
               \/ Kept(outbox', m) \/ m \in DOMAIN receipts \/ m \in refused'
               \/ \E c \in refused' \cap DOMAIN made : made[c] = m
    PROVE  SavedIsKept'
  <1> SUFFICES ASSUME NEW m \in saved
               PROVE  \/ m \in DOMAIN receipts \cup DOMAIN outbox'
                      \/ \E id \in DOMAIN outbox' : outbox'[id].followup = m
                      \/ m \in refused' \/ \E c \in refused' \cap DOMAIN made : made[c] = m
    BY DEF SavedIsKept
  <1>1. CASE Kept(outbox, m)
    BY <1>1 DEF Kept
  <1>2. CASE ~Kept(outbox, m)
    BY <1>2 DEF Kept, SavedIsKept
  <1> QED BY <1>1, <1>2

LEMMA JobTyped ==
    ASSUME NEW kind \in {"start", "dispatch", "again", "retry"}, NEW msg \in Messages \cup {None},
           NEW r \in Requests \cup {None}, NEW at \in {"prepare", "asking", "ok", "no"}
    PROVE  Job(kind, msg, r, at) \in Jobs
  BY DEF Job, Jobs

\* A request leaves: what run writes up to its first await.
LEMMA AsksOK ==
    ASSUME OutboxTypeOK, BoxInv, NEW t \in Tabs, NEW kind \in {"start", "dispatch", "again", "retry"},
           NEW msg \in Messages \cup {None}, NEW r \in Requests, NEW followup \in Messages \cup {None},
           kind # "retry" => msg \in Messages, Asks(t, kind, msg, r, followup)
    PROVE  /\ BoxOK(outbox') /\ DOMAIN outbox' \subseteq Creates \cup Messages
           /\ \A id \in DOMAIN outbox' : outbox'[id] \in Entries
           /\ pending' \in [Tabs -> Requests \cup {None}] /\ unseen' \in [Tabs -> Messages \cup {None}]
           /\ wire' \in [Requests -> Nat] /\ job' \in [Tabs -> Jobs \cup {None}]
           /\ Job(kind, msg, r, "asking") # None
           /\ \A where : JobFits(Job(kind, msg, r, "asking"), where)
  <1>1. BoxOK(outbox')
    BY SavedOK DEF Asks, BoxInv
  <1>2. pending' \in [Tabs -> Requests \cup {None}]
    BY DEF Asks, OutboxTypeOK
  <1>3. unseen' \in [Tabs -> Messages \cup {None}]
    <2>1. ~IsCreate(r.id) => r.id \in Messages
      BY RequestParts
    <2> QED BY <2>1 DEF Asks, OutboxTypeOK
  <1>4. wire' \in [Requests -> Nat]
    BY DEF Asks, OutboxTypeOK
  <1>5. Job(kind, msg, r, "asking") \in Jobs
    BY JobTyped
  <1>6. job' \in [Tabs -> Jobs \cup {None}]
    BY <1>5 DEF Asks, OutboxTypeOK
  <1>7. Job(kind, msg, r, "asking") # None
    BY <1>5, JobsAssumption
  <1>8. \A where : JobFits(Job(kind, msg, r, "asking"), where)
    BY DEF JobFits, Job
  <1> QED BY <1>1, <1>2, <1>3, <1>4, <1>6, <1>7, <1>8 DEF BoxOK

\* Nothing but the tabs' memory changes.
LEMMA SubmitKeeps ==
    ASSUME OutboxInv, NEW t \in Tabs, NEW m \in Messages, Submit(t, m)
    PROVE  OutboxInv'
  <1> DEFINE j == Preparing(IF bound[t] = None THEN "start" ELSE "dispatch", m)
  <1>1. j \in Jobs /\ JobFits(j, bound[t]) /\ j.at = "prepare"
    BY JobTyped DEF Preparing, JobFits, Job
  <1> HIDE DEF j
  <1>2. job' = [job EXCEPT ![t] = j]
    BY DEF Submit, j
  <1>3. OutboxTypeOK'
    BY <1>1, <1>2 DEF OutboxInv, OutboxTypeOK, Submit, outboxStore, outboxHost, Starting
  <1>4. BoxInv' /\ HostInv'
    BY QuietForBox, QuietForHost DEF OutboxInv, Submit, outboxStore, outboxHost
  <1>5. JobInv'
    BY <1>1, <1>2, JobOf DEF OutboxInv, Submit, outboxStore, outboxHost
  <1> QED BY <1>3, <1>4, <1>5 DEF OutboxInv

LEMMA PreparedKeeps ==
    ASSUME OutboxInv, NEW t \in Tabs, Prepared(t)
    PROVE  OutboxInv'
  <1> USE DEF outboxHost
  <1>1. /\ job[t] # None /\ job[t].at = "prepare" /\ job[t].current /\ job[t] \in Jobs
        /\ JobFits(job[t], bound[t])
    BY DEF Prepared, OutboxInv, OutboxTypeOK, JobInv, JobOK
  <1>2. job[t].kind # "retry" /\ job[t].msg \in Messages /\ job[t].kind \in {"start", "dispatch", "again"}
    BY <1>1 DEF JobFits, Jobs
  <1>3. ASSUME NEW kind \in {"start", "dispatch", "again", "retry"}, NEW r \in Requests,
               NEW followup \in Messages \cup {None}, Asks(t, kind, job[t].msg, r, followup)
        PROVE  OutboxTypeOK' /\ JobInv' /\ HostInv' /\ BoxOK(outbox')
    <2>1. /\ BoxOK(outbox') /\ DOMAIN outbox' \subseteq Creates \cup Messages
          /\ \A id \in DOMAIN outbox' : outbox'[id] \in Entries
          /\ pending' \in [Tabs -> Requests \cup {None}] /\ unseen' \in [Tabs -> Messages \cup {None}]
          /\ wire' \in [Requests -> Nat] /\ job' \in [Tabs -> Jobs \cup {None}]
          /\ \A where : JobFits(Job(kind, job[t].msg, r, "asking"), where)
      BY <1>2, <1>3, AsksOK DEF OutboxInv
    <2>2. OutboxTypeOK'
      BY <2>1 DEF Prepared, OutboxInv, OutboxTypeOK
    <2>3. job' = [job EXCEPT ![t] = Job(kind, job[t].msg, r, "asking")]
      BY <1>3 DEF Asks
    <2>4. Job(kind, job[t].msg, r, "asking").at = "asking"
      BY DEF Job
    <2>5. UNCHANGED <<receipts, bound, prompts>>
      BY DEF Prepared
    <2>6. JobInv'
      BY <2>1, <2>3, <2>4, <2>5, JobOf DEF OutboxInv
    <2>7. HostInv'
      BY <2>5, QuietForHost DEF OutboxInv
    <2> QED BY <2>1, <2>2, <2>6, <2>7
  <1>4. UNCHANGED <<receipts, refused>> /\ saved' = saved \cup {job[t].msg}
    BY DEF Prepared
  <1>5. CASE job[t].kind = "start"
    <2> PICK c \in Creates \ DOMAIN made : Asks(t, "start", job[t].msg, Request(c, None), job[t].msg)
                                           /\ made' = Put(made, c, job[t].msg)
      BY <1>5 DEF Prepared
    <2>1. Request(c, None) \in Requests /\ Request(c, None).id = c
      BY RequestMade DEF Request
    <2>2. OutboxTypeOK' /\ JobInv' /\ HostInv' /\ BoxOK(outbox')
      BY <1>2, <1>3, <2>1
    <2> DEFINE entry == Entry(Request(c, None).target, t,
                              IF job[t].msg = None THEN Followup(outbox, c) ELSE job[t].msg)
    <2>3. outbox' = Saved(outbox, Request(c, None), t, job[t].msg)
      BY DEF Asks
    <2>4. SavedAs(outbox', outbox, c, entry)
      BY <2>1, <2>3, SavedIs
    <2>5. entry.followup = job[t].msg
      BY <1>2, NoneIsNothing DEF Entry
    <2> HIDE DEF entry
    <2>6. /\ DOMAIN made' = DOMAIN made \cup {c} /\ made'[c] = job[t].msg
          /\ \A d \in DOMAIN made : made'[d] = made[d]
      BY DEF Put
    <2>7. PastOK'
      BY <1>2, <1>4, <2>6 DEF OutboxInv, BoxInv, PastOK
    <2>8. FollowupsMade(outbox)'
      BY <2>4, <2>5, <2>6 DEF OutboxInv, BoxInv, FollowupsMade, SavedAs
    <2>9. c \notin DOMAIN outbox
      \/ outbox[c].followup = None
      BY DEF OutboxInv, BoxInv, FollowupsMade
    <2>10. SavedIsKept'
      <3> SUFFICES ASSUME NEW m \in saved'
                   PROVE  \/ m \in DOMAIN receipts \cup DOMAIN outbox'
                          \/ \E id \in DOMAIN outbox' : outbox'[id].followup = m
                          \/ m \in refused \/ \E d \in refused \cap DOMAIN made' : made'[d] = m
        BY <1>4 DEF SavedIsKept
      <3>1. CASE m = job[t].msg
        BY <2>4, <2>5, <3>1 DEF SavedAs
      <3>2. CASE m # job[t].msg
        <4>1. m \in saved /\ m \in Messages /\ m # None
          BY <1>4, <3>2, NoneIsNothing DEF OutboxInv, BoxInv, PastOK
        <4>2. \/ m \in DOMAIN receipts \cup DOMAIN outbox
              \/ \E id \in DOMAIN outbox : outbox[id].followup = m
              \/ m \in refused \/ \E d \in refused \cap DOMAIN made : made[d] = m
          BY <4>1 DEF OutboxInv, BoxInv, SavedIsKept
        <4>3. (\E id \in DOMAIN outbox : outbox[id].followup = m) =>
                  \E id \in DOMAIN outbox' : outbox'[id].followup = m
          BY <2>4, <2>9, <4>1 DEF SavedAs
        <4>4. DOMAIN outbox \subseteq DOMAIN outbox'
          BY <2>4 DEF SavedAs
        <4> QED BY <4>2, <4>3, <4>4, <2>6
      <3> QED BY <3>1, <3>2
    <2> QED BY <2>2, <2>7, <2>8, <2>10 DEF OutboxInv, BoxInv
  <1>6. CASE job[t].kind # "start"
    <2> DEFINE r == Request(job[t].msg, bound[t])
    <2>1. Asks(t, job[t].kind, job[t].msg, r, None) /\ UNCHANGED made
      BY <1>6 DEF Prepared
    <2>2. bound[t] \in RemoteSessions
      BY <1>1, <1>6 DEF JobFits, OutboxInv, OutboxTypeOK
    <2>3. r \in Requests /\ r.id = job[t].msg
      BY <1>2, <2>2, RequestMade DEF Request
    <2> HIDE DEF r
    <2>4. OutboxTypeOK' /\ JobInv' /\ HostInv' /\ BoxOK(outbox')
      BY <1>2, <1>3, <2>1, <2>3
    <2>5. outbox' = Saved(outbox, r, t, None)
      BY <2>1 DEF Asks
    <2>6. FollowupsMade(outbox')
      BY <2>5, SavedFollowups DEF OutboxInv, BoxInv
    <2>7. PastOK' /\ FollowupsMade(outbox)'
      BY <1>2, <1>4, <2>1, <2>6 DEF OutboxInv, BoxInv, PastOK, FollowupsMade
    <2>8. job[t].msg \in DOMAIN outbox'
      <3>1. DOMAIN Saved(outbox, r, t, None) = DOMAIN outbox \cup {r.id}
        BY SavedDomain
      <3> QED BY <2>3, <2>5, <3>1
    <2>9. \A m \in Messages : Kept(outbox, m) => Kept(outbox', m)
      BY <2>5, SavedKeeps DEF OutboxInv, BoxInv
    <2>10. SavedIsKept'
      <3> SUFFICES ASSUME NEW m \in saved'
                   PROVE  \/ m \in DOMAIN receipts \/ Kept(outbox', m)
                          \/ m \in refused \/ \E d \in refused \cap DOMAIN made : made[d] = m
        BY <1>4, <2>1 DEF SavedIsKept, Kept
      <3>1. CASE m = job[t].msg
        BY <2>8, <3>1 DEF Kept
      <3>2. CASE m # job[t].msg
        <4>1. m \in saved /\ m \in Messages
          BY <1>4, <3>2 DEF OutboxInv, BoxInv, PastOK
        <4>2. \/ m \in DOMAIN receipts \/ Kept(outbox, m)
              \/ m \in refused \/ \E d \in refused \cap DOMAIN made : made[d] = m
          BY <4>1 DEF OutboxInv, BoxInv, SavedIsKept, Kept
        <4> QED BY <2>9, <4>1, <4>2
      <3> QED BY <3>1, <3>2
    <2> QED BY <2>4, <2>7, <2>10 DEF OutboxInv, BoxInv, BoxOK
  <1> QED BY <1>5, <1>6

\* The job of a tab ends and its message is marked, or not.
LEMMA EndOfJobKeeps ==
    ASSUME OutboxInv, NEW t \in Tabs, job' = [job EXCEPT ![t] = None],
           starting' \in [Tabs -> Starting \cup {None}],
           UNCHANGED <<outbox, bound, pending, unseen, snapshot, wire, receipts, prompts, turnOn,
                       origin, made, saved, refused>>
    PROVE  OutboxInv'
  <1>1. OutboxTypeOK'
    BY DEF OutboxInv, OutboxTypeOK
  <1>2. BoxInv' /\ HostInv'
    BY QuietForBox, QuietForHost DEF OutboxInv
  <1>3. JobInv'
    BY JobOf DEF OutboxInv
  <1> QED BY <1>1, <1>2, <1>3 DEF OutboxInv

LEMMA FailedTyped ==
    ASSUME OutboxTypeOK, NEW t \in Tabs, NEW m \in Messages
    PROVE  [starting EXCEPT ![t] = Failed(m)] \in [Tabs -> Starting \cup {None}]
  BY DEF OutboxTypeOK, Failed, Starting

LEMMA ShowsTyped ==
    ASSUME OutboxInv, NEW t \in Tabs, job[t] # None, Shows(t, job[t], TRUE)
    PROVE  starting' \in [Tabs -> Starting \cup {None}]
  <1>1. JobFits(job[t], bound[t])
    BY DEF OutboxInv, JobInv, JobOK
  <1>2. CASE job[t].kind = "again" \/ (job[t].current /\ job[t].kind # "retry")
    <2>1. job[t].msg \in Messages
      BY <1>1, <1>2 DEF JobFits
    <2>2. starting' = [starting EXCEPT ![t] = Failed(job[t].msg)]
      BY <1>2 DEF Shows
    <2> QED BY <2>1, <2>2, FailedTyped DEF OutboxInv
  <1>3. CASE ~(job[t].kind = "again" \/ (job[t].current /\ job[t].kind # "retry"))
    BY <1>3 DEF Shows, OutboxInv, OutboxTypeOK
  <1> QED BY <1>2, <1>3

LEMMA EndingsKeep ==
    ASSUME OutboxInv, NEW t \in Tabs, PreparationFails(t) \/ AgainGivesUp(t) \/ LoseAnswer(t)
    PROVE  OutboxInv'
  <1>1. job[t] # None /\ JobFits(job[t], bound[t])
    BY DEF OutboxInv, JobInv, JobOK, PreparationFails, AgainGivesUp, LoseAnswer
  <1>2. starting' \in [Tabs -> Starting \cup {None}]
    <2>1. CASE PreparationFails(t) \/ AgainGivesUp(t)
      <3>1. job[t].msg \in Messages
        BY <1>1, <2>1 DEF JobFits, PreparationFails, AgainGivesUp
      <3>2. starting' = [starting EXCEPT ![t] = Failed(job[t].msg)]
        BY <2>1 DEF PreparationFails, AgainGivesUp
      <3> QED BY <3>1, <3>2, FailedTyped DEF OutboxInv
    <2>2. CASE LoseAnswer(t)
      BY <1>1, <2>2, ShowsTyped DEF LoseAnswer
    <2> QED BY <2>1, <2>2
  <1>3. /\ job' = [job EXCEPT ![t] = None]
        /\ UNCHANGED <<outbox, bound, pending, unseen, snapshot, wire, receipts, prompts, turnOn,
                       origin, made, saved, refused>>
    BY DEF PreparationFails, AgainGivesUp, LoseAnswer, outboxStore, outboxHost, outboxPast, outboxBounds
  <1> QED BY <1>2, <1>3, EndOfJobKeeps

LEMMA RetryKeeps ==
    ASSUME OutboxInv, NEW t \in Tabs, Retry(t)
    PROVE  OutboxInv'
  <1> DEFINE r == pending[t]
  <1>1. r \in Requests /\ Asks(t, "retry", None, r, None)
    BY DEF Retry, OutboxInv, OutboxTypeOK
  <1>2. UNCHANGED <<bound, snapshot, receipts, prompts, turnOn, made, saved, refused>>
    BY DEF Retry, outboxHost, outboxPast
  <1> HIDE DEF r
  <1>3. /\ BoxOK(outbox') /\ DOMAIN outbox' \subseteq Creates \cup Messages
        /\ \A id \in DOMAIN outbox' : outbox'[id] \in Entries
        /\ pending' \in [Tabs -> Requests \cup {None}] /\ unseen' \in [Tabs -> Messages \cup {None}]
        /\ wire' \in [Requests -> Nat] /\ job' \in [Tabs -> Jobs \cup {None}]
        /\ \A where : JobFits(Job("retry", None, r, "asking"), where)
    BY <1>1, AsksOK DEF OutboxInv
  <1>4. starting' \in [Tabs -> Starting \cup {None}]
    <2>1. starting \in [Tabs -> Starting \cup {None}]
      BY DEF OutboxInv, OutboxTypeOK
    <2> DEFINE shown == IF starting[t] = None THEN None ELSE [starting[t] EXCEPT !.failed = FALSE]
    <2>2. shown \in Starting \cup {None}
      BY <2>1 DEF Starting
    <2>3. starting' = [starting EXCEPT ![t] = shown]
      BY DEF Retry
    <2> HIDE DEF shown
    <2> QED BY <2>1, <2>2, <2>3
  <1>5. OutboxTypeOK'
    BY <1>2, <1>3, <1>4 DEF OutboxInv, OutboxTypeOK
  <1>6. job' = [job EXCEPT ![t] = Job("retry", None, r, "asking")]
        /\ Job("retry", None, r, "asking").at = "asking"
    BY <1>1 DEF Asks, Job
  <1>7. JobInv'
    BY <1>2, <1>3, <1>6, JobOf DEF OutboxInv
  <1>8. HostInv'
    BY <1>2, QuietForHost DEF OutboxInv
  <1>9. outbox' = Saved(outbox, r, t, None)
    BY <1>1 DEF Asks
  <1>10. FollowupsMade(outbox')
    BY <1>9, SavedFollowups DEF OutboxInv, BoxInv
  <1>11. PastOK' /\ FollowupsMade(outbox)' /\ BoxOK(outbox)'
    BY <1>2, <1>3, <1>10 DEF OutboxInv, BoxInv, PastOK, FollowupsMade, BoxOK
  <1>12. \A m \in Messages : Kept(outbox, m) => Kept(outbox', m)
    BY <1>9, SavedKeeps DEF OutboxInv, BoxInv
  <1>13. SavedIsKept'
    BY <1>2, <1>12, KeptBy DEF OutboxInv, BoxInv, PastOK
  <1> QED BY <1>5, <1>7, <1>8, <1>11, <1>13 DEF OutboxInv, BoxInv

LEMMA TryAgainKeeps ==
    ASSUME OutboxInv, NEW t \in Tabs, TryAgain(t)
    PROVE  OutboxInv'
  <1> DEFINE j == Preparing(IF bound[t] = None THEN "start" ELSE "again", starting[t].msg)
  <1>1. starting[t] \in Starting
    BY DEF TryAgain, OutboxInv, OutboxTypeOK
  <1>2. j \in Jobs /\ JobFits(j, bound[t]) /\ j.at = "prepare"
    BY <1>1, JobTyped DEF Preparing, JobFits, Job, Starting
  <1> HIDE DEF j
  <1>3. job' = [job EXCEPT ![t] = j]
    BY DEF TryAgain, j
  <1>4. starting' \in [Tabs -> Starting \cup {None}]
    BY <1>1 DEF TryAgain, OutboxInv, OutboxTypeOK, Starting
  <1>5. OutboxTypeOK'
    BY <1>2, <1>3, <1>4 DEF OutboxInv, OutboxTypeOK, TryAgain, outboxStore, outboxHost
  <1>6. BoxInv' /\ HostInv'
    BY QuietForBox, QuietForHost DEF OutboxInv, TryAgain, outboxStore, outboxHost, outboxPast
  <1>7. JobInv'
    BY <1>2, <1>3, JobOf DEF OutboxInv, TryAgain, outboxStore, outboxHost
  <1> QED BY <1>5, <1>6, <1>7 DEF OutboxInv

LEMMA SyncKeeps ==
    ASSUME OutboxInv, NEW t \in Tabs, Sync(t)
    PROVE  OutboxInv'
  <1>1. Prompted(bound[t]) \in SUBSET Messages
    BY DEF Prompted
  <1>2. [blocks |-> Prompted(bound[t]), busy |-> bound[t] \in turnOn] \in Snapshots
    BY <1>1 DEF Snapshots
  <1>3. snapshot' \in [Tabs -> Snapshots \cup {None}]
    BY <1>2 DEF Sync, OutboxInv, OutboxTypeOK
  <1>4. /\ starting' \in [Tabs -> Starting \cup {None}] /\ unseen' \in [Tabs -> Messages \cup {None}]
    BY DEF Sync, OutboxInv, OutboxTypeOK
  <1>5. UNCHANGED <<outbox, bound, pending, job, wire, receipts, prompts, turnOn, made, saved, refused>>
    BY DEF Sync, outboxStore, outboxHost, outboxPast
  <1>6. OutboxTypeOK'
    BY <1>3, <1>4, <1>5 DEF OutboxInv, OutboxTypeOK
  <1>7. BoxInv' /\ HostInv' /\ JobInv'
    BY <1>5, QuietForBox, QuietForHost, QuietForJobs DEF OutboxInv
  <1> QED BY <1>6, <1>7 DEF OutboxInv

\* An answer empties an entry of the outbox.
LEMMA ClearedBy ==
    ASSUME OutboxInv, NEW id, outbox' = Cleared(outbox, id), UNCHANGED <<receipts, made, saved>>,
           refused \subseteq refused', id \in DOMAIN receipts \cup refused',
           id \in Creates => id \in refused'
    PROVE  BoxInv' /\ BoxOK(outbox') /\ DOMAIN outbox' = DOMAIN outbox \ {id}
  <1>1. BoxOK(outbox') /\ FollowupsMade(outbox') /\ DOMAIN outbox' = DOMAIN outbox \ {id}
    BY ClearedOK DEF OutboxInv, BoxInv
  <1>2. PastOK' /\ FollowupsMade(outbox)' /\ BoxOK(outbox)'
    BY <1>1 DEF OutboxInv, BoxInv, PastOK, FollowupsMade, BoxOK
  <1>3. ASSUME NEW m \in Messages, Kept(outbox, m)
        PROVE  \/ Kept(outbox', m) \/ m \in DOMAIN receipts \/ m \in refused'
               \/ \E c \in refused' \cap DOMAIN made : made[c] = m
    <2>1. CASE m = id
      BY <2>1
    <2>2. CASE id \in DOMAIN outbox /\ outbox[id].followup = m
      <3>1. id \in DOMAIN made /\ made[id] = m /\ id \in Creates
        BY <2>2, NoneIsNothing DEF OutboxInv, BoxInv, FollowupsMade, PastOK
      <3> QED BY <3>1
    <2>3. CASE m # id /\ ~(id \in DOMAIN outbox /\ outbox[id].followup = m)
      BY <1>3, <2>3, ClearedKeeps
    <2> QED BY <2>1, <2>2, <2>3
  <1>4. SavedIsKept'
    BY <1>3, KeptBy DEF OutboxInv, BoxInv, PastOK
  <1> QED BY <1>1, <1>2, <1>4 DEF BoxInv

LEMMA RefusalKeeps ==
    ASSUME OutboxInv, NEW t \in Tabs, RefusalArrives(t)
    PROVE  OutboxInv'
  <1> DEFINE j == job[t]
             id == job[t].request.id
  <1>1. j # None /\ j.at = "no" /\ JobFits(j, bound[t])
    BY DEF RefusalArrives, OutboxInv, JobInv, JobOK
  <1>2. starting' \in [Tabs -> Starting \cup {None}]
    BY <1>1, ShowsTyped DEF RefusalArrives
  <1>3. /\ job' = [job EXCEPT ![t] = None]
        /\ UNCHANGED <<bound, snapshot, wire, receipts, prompts, turnOn, made, saved>>
    BY DEF RefusalArrives, outboxHost
  <1>4. JobInv' /\ HostInv'
    BY <1>3, JobOf, QuietForHost DEF OutboxInv
  <1>5. CASE j.current
    <2>1. /\ outbox' = Cleared(outbox, id) /\ refused' = refused \cup {id}
          /\ unseen' = [unseen EXCEPT ![t] = IF @ = id THEN None ELSE @]
      BY <1>5 DEF RefusalArrives
    <2> PICK p \in PendingIn(outbox', bound[t], t) : pending' = [pending EXCEPT ![t] = p]
      BY <1>5 DEF RefusalArrives
    <2> HIDE DEF id
    <2>2. BoxInv' /\ BoxOK(outbox')
      BY <1>3, <2>1, ClearedBy
    <2>3. p \in Requests \cup {None}
      BY <2>2, PendingTyped
    <2>4. OutboxTypeOK'
      BY <1>2, <1>3, <2>1, <2>2, <2>3 DEF OutboxInv, OutboxTypeOK, BoxOK
    <2> QED BY <1>4, <2>2, <2>4 DEF OutboxInv
  <1>6. CASE ~j.current
    <2>1. UNCHANGED <<outbox, unseen, pending, refused>>
      BY <1>6 DEF RefusalArrives
    <2>2. OutboxTypeOK'
      BY <1>2, <1>3, <2>1 DEF OutboxInv, OutboxTypeOK
    <2>3. BoxInv'
      BY <1>3, <2>1, QuietForBox DEF OutboxInv
    <2> QED BY <1>4, <2>2, <2>3 DEF OutboxInv
  <1> QED BY <1>5, <1>6

LEMMA SendReceiptKeeps ==
    ASSUME OutboxInv, NEW t \in Tabs, SendReceipt(t)
    PROVE  OutboxInv'
  <1> DEFINE id == job[t].request.id
  <1>1. /\ job[t] # None /\ job[t].at = "ok" /\ ~IsCreate(id)
        /\ job' = [job EXCEPT ![t] = None] /\ outbox' = Cleared(outbox, id)
        /\ UNCHANGED <<bound, starting, unseen, snapshot, wire, receipts, prompts, turnOn, made, saved, refused>>
    BY DEF SendReceipt, outboxHost, outboxPast
  <1>2. id \in DOMAIN receipts
    BY <1>1 DEF OutboxInv, JobInv, ReceiptIsTheHosts
  <1> HIDE DEF id
  <1>3. JobInv' /\ HostInv'
    BY <1>1, JobOf, QuietForHost DEF OutboxInv
  <1>4. BoxInv' /\ BoxOK(outbox')
    BY <1>1, <1>2, ClearedBy DEF IsCreate
  <1>5. pending' \in [Tabs -> Requests \cup {None}]
    <2>1. CASE job[t].current
      <3> PICK p \in PendingIn(outbox', bound[t], t) : pending' = [pending EXCEPT ![t] = p]
        BY <2>1 DEF SendReceipt
      <3>1. p \in Requests \cup {None}
        BY <1>4, PendingTyped
      <3> QED BY <3>1 DEF OutboxInv, OutboxTypeOK
    <2>2. CASE ~job[t].current
      BY <2>2 DEF SendReceipt, OutboxInv, OutboxTypeOK
    <2> QED BY <2>1, <2>2
  <1>6. OutboxTypeOK'
    BY <1>1, <1>4, <1>5 DEF OutboxInv, OutboxTypeOK, BoxOK
  <1> QED BY <1>3, <1>4, <1>6 DEF OutboxInv

\* The app starts again from a local storage that keeps every message.
LEMMA RestartedKeeps ==
    ASSUME OutboxInv, NEW box, Restarted(box), BoxOK(box), FollowupsMade(box),
           \A m \in Messages : Kept(outbox, m) => Kept(box, m)
    PROVE  OutboxInv'
  <1>1. /\ outbox' = box /\ job' = [u \in Tabs |-> None]
        /\ starting' = [u \in Tabs |-> None] /\ unseen' = [u \in Tabs |-> None] /\ snapshot' = [u \in Tabs |-> None]
        /\ UNCHANGED <<bound, wire, receipts, prompts, turnOn, made, saved, refused>>
        /\ pending' \in [Tabs -> Requests \cup {None}]
    BY DEF Restarted, Readings, outboxHost, outboxPast
  <1>2. OutboxTypeOK'
    BY <1>1 DEF OutboxInv, OutboxTypeOK, BoxOK
  <1>3. JobInv'
    BY <1>1 DEF JobInv, JobOK, ReceiptIsTheHosts
  <1>4. HostInv'
    BY <1>1, QuietForHost DEF OutboxInv
  <1>5. PastOK' /\ FollowupsMade(outbox)' /\ BoxOK(outbox)'
    BY <1>1 DEF OutboxInv, BoxInv, PastOK, FollowupsMade, BoxOK
  <1>6. SavedIsKept'
    BY <1>1, KeptBy DEF OutboxInv, BoxInv, PastOK
  <1> QED BY <1>2, <1>3, <1>4, <1>5, <1>6 DEF OutboxInv, BoxInv

LEMMA RestartsKeep ==
    ASSUME OutboxInv, Restart \/ \E t \in Tabs : DiesDuringReceipt(t)
    PROVE  OutboxInv'
  <1>1. CASE Restart
    BY <1>1, RestartedKeeps DEF Restart, OutboxInv, BoxInv
  <1>2. ASSUME NEW t \in Tabs, DiesDuringReceipt(t)
        PROVE  OutboxInv'
    <2> DEFINE id == job[t].request.id
               box == ReceiptWrites(id, t)[1]
    <2>1. id \in Creates /\ Restarted(box)
      BY <1>2 DEF DiesDuringReceipt, IsCreate
    <2>2. BoxOK(box) /\ FollowupsMade(box) /\ \A m \in Messages : Kept(outbox, m) => Kept(box, m)
      BY <2>1, WritesOK DEF OutboxInv, BoxInv
    <2> HIDE DEF box
    <2> QED BY <2>1, <2>2, RestartedKeeps
  <1> QED BY <1>1, <1>2

\* A new local storage that keeps every message.
LEMMA BoxReplaced ==
    ASSUME OutboxInv, BoxOK(outbox'), FollowupsMade(outbox'), UNCHANGED <<receipts, made, saved, refused>>,
           \A m \in Messages : Kept(outbox, m) => Kept(outbox', m)
    PROVE  BoxInv'
  <1>1. PastOK' /\ FollowupsMade(outbox)' /\ BoxOK(outbox)'
    BY DEF OutboxInv, BoxInv, PastOK, FollowupsMade, BoxOK
  <1>2. SavedIsKept'
    BY KeptBy DEF OutboxInv, BoxInv, PastOK
  <1> QED BY <1>1, <1>2 DEF BoxInv

LEMMA CreateReceiptKeeps ==
    ASSUME OutboxInv, NEW t \in Tabs, CreateReceipt(t)
    PROVE  OutboxInv'
  <1> DEFINE j == job[t]
             s == job[t].request.id
             writes == ReceiptWrites(s, t)
  <1>1. /\ j # None /\ s \in Creates /\ j \in Jobs /\ JobFits(j, bound[t])
        /\ UNCHANGED <<starting, snapshot, receipts, prompts, turnOn, made, saved, refused>>
    BY DEF CreateReceipt, IsCreate, outboxHost, outboxPast, OutboxInv, OutboxTypeOK, JobInv, JobOK
  <1>2. s \in RemoteSessions
    BY <1>1 DEF RemoteSessions
  <1>3. \A n \in {1, 2} : /\ BoxOK(writes[n]) /\ FollowupsMade(writes[n])
                          /\ \A m \in Messages : Kept(outbox, m) => Kept(writes[n], m)
    BY <1>1, WritesOK DEF OutboxInv, BoxInv
  <1>4. HostInv'
    BY <1>1, QuietForHost DEF OutboxInv
  <1>5. CASE ~j.current
    <2>1. outbox' = writes[2] /\ job' = [job EXCEPT ![t] = None] /\ UNCHANGED <<bound, pending, unseen, wire>>
      BY <1>5 DEF CreateReceipt
    <2>2. BoxInv'
      BY <1>1, <1>3, <2>1, BoxReplaced
    <2>3. JobInv'
      BY <1>1, <2>1, JobOf DEF OutboxInv
    <2>4. OutboxTypeOK'
      BY <1>1, <1>3, <2>1 DEF OutboxInv, OutboxTypeOK, BoxOK
    <2> QED BY <1>4, <2>2, <2>3, <2>4 DEF OutboxInv
  <1>6. CASE j.current
    <2> PICK others1 \in Readings(writes[1], bound'), p \in PendingIn(writes[2], s, t) :
              LET next == IF j.kind = "start" THEN Request(j.msg, s) ELSE p
              IN IF next = None
                 THEN /\ outbox' = writes[2] /\ pending' = [others1 EXCEPT ![t] = None]
                      /\ job' = [job EXCEPT ![t] = None] /\ UNCHANGED <<unseen, wire>>
                 ELSE /\ outbox' = Saved(writes[2], next, t, None)
                      /\ pending' = [others1 EXCEPT ![t] = next]
                      /\ unseen' = [unseen EXCEPT ![t] = next.id]
                      /\ wire' = [wire EXCEPT ![next] = @ + 1]
                      /\ job' = [job EXCEPT ![t] =
                             Job(IF j.kind = "start" THEN "dispatch" ELSE "retry", j.msg, next, "asking")]
      BY <1>6 DEF CreateReceipt
    <2> DEFINE next == IF j.kind = "start" THEN Request(j.msg, s) ELSE p
               kind == IF j.kind = "start" THEN "dispatch" ELSE "retry"
               box  == writes[2]
    <2>1. bound' = [bound EXCEPT ![t] = s]
      BY <1>6 DEF CreateReceipt
    <2>2. bound' \in [Tabs -> RemoteSessions \cup {None}] /\ \A u \in Tabs \ {t} : bound'[u] = bound[u]
      BY <1>2, <2>1 DEF OutboxInv, OutboxTypeOK
    <2>3. others1 \in [Tabs -> Requests \cup {None}]
      BY DEF Readings
    <2>4. BoxOK(box) /\ FollowupsMade(box) /\ \A m \in Messages : Kept(outbox, m) => Kept(box, m)
      BY <1>3
    <2>5. p \in Requests \cup {None} /\ (p # None => p.id \in Messages)
      <3>1. p \in Requests \cup {None}
        BY <2>4, PendingTyped
      <3>2. s # None
        BY <1>1, NoneIsNothing
      <3>3. p # None => ~IsCreate(p.id)
        BY <3>2 DEF PendingIn, Shown, Request
      <3>4. p # None => p.id \in Messages
        BY <3>1, <3>3, RequestParts
      <3> QED BY <3>1, <3>4
    <2>6. j.kind = "start" => Request(j.msg, s) \in Requests /\ j.msg \in Messages /\ Request(j.msg, s).id = j.msg
      BY <1>1, <1>2, RequestMade DEF JobFits, Request
    <2>7. next \in Requests \cup {None} /\ (next # None => next.id \in Messages)
      BY <2>5, <2>6
    <2>8. j.msg \in Messages \cup {None} /\ kind \in {"start", "dispatch", "again", "retry"}
          /\ (kind # "retry" => j.msg \in Messages)
      BY <1>1, <2>6 DEF Jobs
    <2> HIDE DEF box, next
    <2>9. CASE next = None
      <3>1. /\ outbox' = box /\ pending' = [others1 EXCEPT ![t] = None]
            /\ job' = [job EXCEPT ![t] = None] /\ UNCHANGED <<unseen, wire>>
        BY <2>9 DEF next, box
      <3>2. BoxInv'
        BY <1>1, <2>4, <3>1, BoxReplaced
      <3>3. JobInv'
        BY <1>1, <2>2, <3>1, JobOf DEF OutboxInv
      <3>4. OutboxTypeOK'
        BY <1>1, <2>2, <2>3, <2>4, <3>1 DEF OutboxInv, OutboxTypeOK, BoxOK
      <3> QED BY <1>4, <3>2, <3>3, <3>4 DEF OutboxInv
    <2>10. CASE next # None
      <3> DEFINE k == Job(kind, j.msg, next, "asking")
      <3>1. next \in Requests
        BY <2>7, <2>10
      <3>2. /\ outbox' = Saved(box, next, t, None) /\ pending' = [others1 EXCEPT ![t] = next]
            /\ unseen' = [unseen EXCEPT ![t] = next.id] /\ wire' = [wire EXCEPT ![next] = @ + 1]
            /\ job' = [job EXCEPT ![t] = k]
        BY <2>10 DEF next, box
      <3>3. BoxOK(outbox') /\ FollowupsMade(outbox')
        BY <2>4, <3>1, <3>2, SavedOK, SavedFollowups
      <3>4. \A m \in Messages : Kept(box, m) => Kept(outbox', m)
        BY <2>4, <3>2, SavedKeeps
      <3>5. BoxInv'
        BY <1>1, <2>4, <3>3, <3>4, BoxReplaced
      <3>6. k \in Jobs
        BY <2>8, <3>1, JobTyped
      <3>7. k.at = "asking" /\ JobFits(k, bound'[t])
        BY <2>8, <3>1 DEF Job, JobFits
      <3> HIDE DEF k
      <3>8. JobInv'
        BY <1>1, <2>2, <3>2, <3>7, JobOf DEF OutboxInv
      <3>9. pending' \in [Tabs -> Requests \cup {None}] /\ unseen' \in [Tabs -> Messages \cup {None}]
        BY <2>3, <2>7, <2>10, <3>1, <3>2 DEF OutboxInv, OutboxTypeOK
      <3>10. wire' \in [Requests -> Nat]
        BY <3>1, <3>2 DEF OutboxInv, OutboxTypeOK
      <3>11. OutboxTypeOK'
        BY <1>1, <2>2, <3>2, <3>3, <3>6, <3>9, <3>10 DEF OutboxInv, OutboxTypeOK, BoxOK
      <3> QED BY <1>4, <3>5, <3>8, <3>11 DEF OutboxInv
    <2> QED BY <2>9, <2>10
  <1> QED BY <1>5, <1>6

LEMMA SwitchKeeps ==
    ASSUME OutboxInv, NEW t \in Tabs, NEW s \in RemoteSessions \cup {None}, Switch(t, s)
    PROVE  OutboxInv'
  <1>1. /\ bound' = [bound EXCEPT ![t] = s] /\ starting' = [starting EXCEPT ![t] = None]
        /\ unseen' = [unseen EXCEPT ![t] = None] /\ snapshot' = [snapshot EXCEPT ![t] = None]
        /\ job' = [job EXCEPT ![t] = Late(job[t])] /\ pending' \in [Tabs -> Requests \cup {None}]
        /\ UNCHANGED <<outbox, wire, receipts, prompts, turnOn, made, saved, refused>>
    BY DEF Switch, Readings, outboxHost, outboxPast
  <1> DEFINE k == Late(job[t])
  <1>2. job[t] \in Jobs \cup {None}
    BY DEF OutboxInv, OutboxTypeOK
  <1>3. k \in Jobs \cup {None}
    BY <1>2 DEF Late, Jobs
  <1>4. job[t] # None => JobFits(job[t], bound[t]) /\ (job[t].at = "ok" => job[t].request.id \in DOMAIN receipts)
    BY DEF OutboxInv, JobInv, JobOK, ReceiptIsTheHosts
  <1>5. ASSUME k # None
        PROVE  JobFits(k, bound'[t]) /\ (k.at = "ok" => k.request.id \in DOMAIN receipts)
    <2>1. job[t] # None /\ k = [job[t] EXCEPT !.current = FALSE]
      BY <1>5 DEF Late
    <2>2. /\ k.kind = job[t].kind /\ k.msg = job[t].msg /\ k.request = job[t].request /\ k.at = job[t].at
          /\ ~k.current
      BY <1>2, <2>1 DEF Jobs
    <2> HIDE DEF k
    <2> QED BY <1>4, <2>1, <2>2 DEF JobFits
  <1> HIDE DEF k
  <1>6. job' = [job EXCEPT ![t] = k]
    BY <1>1 DEF k
  <1>7. OutboxTypeOK'
    BY <1>1, <1>3, <1>6 DEF OutboxInv, OutboxTypeOK
  <1>8. \A u \in Tabs \ {t} : bound'[u] = bound[u]
    BY <1>1 DEF OutboxInv, OutboxTypeOK
  <1>9. JobInv'
    BY <1>1, <1>5, <1>6, <1>8, JobOf DEF OutboxInv
  <1>10. BoxInv' /\ HostInv'
    BY <1>1, QuietForBox, QuietForHost DEF OutboxInv
  <1> QED BY <1>7, <1>9, <1>10 DEF OutboxInv

\* What the host does with a request it accepts: one receipt, one turn.
LEMMA ExecutedOK ==
    ASSUME OutboxInv, NEW r \in Requests, Executed(r)
    PROVE  /\ HostInv' /\ DOMAIN receipts' = DOMAIN receipts \cup {r.id}
           /\ DOMAIN receipts' \subseteq Creates \cup Messages
           /\ \A id \in DOMAIN receipts' : receipts'[id] \in Requests
           /\ prompts' \in Seq(Messages \X RemoteSessions) /\ turnOn' \subseteq RemoteSessions
  <1>1. CASE r.id \in DOMAIN receipts
    <2>1. UNCHANGED <<receipts, prompts, turnOn>>
      BY <1>1 DEF Executed, outboxHost
    <2>2. HostInv'
      BY <2>1, QuietForHost DEF OutboxInv
    <2> QED BY <1>1, <2>1, <2>2 DEF OutboxInv, OutboxTypeOK
  <1>2. CASE r.id \notin DOMAIN receipts
    <2>1. /\ receipts' = Put(receipts, r.id, r)
          /\ prompts' = IF IsCreate(r.id) THEN prompts ELSE Append(prompts, <<r.id, r.target>>)
          /\ turnOn' = IF IsCreate(r.id) THEN turnOn ELSE turnOn \cup {r.target}
      BY <1>2 DEF Executed
    <2>2. /\ DOMAIN receipts' = DOMAIN receipts \cup {r.id}
          /\ \A id \in DOMAIN receipts' : receipts'[id] = IF id = r.id THEN r ELSE receipts[id]
      BY <2>1 DEF Put
    <2>3. /\ r.id \in Creates \cup Messages
          /\ ~IsCreate(r.id) => r.id \in Messages /\ r.target \in RemoteSessions
      BY RequestParts
    <2>4. prompts \in Seq(Messages \X RemoteSessions) /\ turnOn \subseteq RemoteSessions
      BY DEF OutboxInv, OutboxTypeOK
    <2>5. prompts' \in Seq(Messages \X RemoteSessions) /\ turnOn' \subseteq RemoteSessions
      BY <2>1, <2>3, <2>4
    <2>6. \A i \in DOMAIN prompts : prompts[i][1] \in DOMAIN receipts
      BY DEF OutboxInv, HostInv, PromptsHaveReceipts
    <2>7. \A i, k \in DOMAIN prompts : prompts[i][1] = prompts[k][1] => i = k
      BY DEF OutboxInv, HostInv, PromptedOnce
    <2>8. CASE IsCreate(r.id)
      <3>1. prompts' = prompts
        BY <2>1, <2>8
      <3>2. PromptsHaveReceipts' /\ PromptedOnce'
        BY <2>2, <2>6, <2>7, <3>1 DEF PromptsHaveReceipts, PromptedOnce
      <3> QED BY <2>2, <2>3, <2>5, <3>2 DEF HostInv, OutboxInv, OutboxTypeOK
    <2>9. CASE ~IsCreate(r.id)
      <3>1. prompts' = Append(prompts, <<r.id, r.target>>)
        BY <2>1, <2>9
      <3>2. /\ DOMAIN prompts' = 1..(Len(prompts) + 1) /\ DOMAIN prompts = 1..Len(prompts)
            /\ \A i \in DOMAIN prompts : prompts'[i] = prompts[i]
            /\ prompts'[Len(prompts) + 1] = <<r.id, r.target>> /\ Len(prompts) \in Nat
        BY <2>4, <3>1
      <3>3. \A i \in DOMAIN prompts' : i \in DOMAIN prompts \/ i = Len(prompts) + 1
        BY <3>2
      <3>4. prompts'[Len(prompts) + 1][1] = r.id
        BY <3>2
      <3>5. \A i \in DOMAIN prompts : prompts'[i][1] # r.id
        BY <1>2, <2>6, <3>2
      <3>6. PromptsHaveReceipts'
        BY <2>2, <2>6, <3>2, <3>3, <3>4 DEF PromptsHaveReceipts
      <3>7. PromptedOnce'
        BY <2>7, <3>2, <3>3, <3>4, <3>5 DEF PromptedOnce
      <3> QED BY <2>2, <2>3, <2>5, <3>6, <3>7 DEF HostInv, OutboxInv, OutboxTypeOK
    <2> QED BY <2>8, <2>9
  <1> QED BY <1>1, <1>2

LEMMA HostHandlesKeeps ==
    ASSUME OutboxInv, NEW r \in Requests, HostHandles(r)
    PROVE  OutboxInv'
  <1>1. /\ wire' = [wire EXCEPT ![r] = @ - 1] /\ wire[r] > 0
        /\ UNCHANGED <<outbox, bound, starting, pending, unseen, snapshot, made, saved, refused>>
    BY DEF HostHandles, outboxStore, outboxPast
  <1>2. wire' \in [Requests -> Nat]
    BY <1>1 DEF OutboxInv, OutboxTypeOK
  <1> PICK at \in {"ok", "no"} :
            /\ IF at = "ok" THEN Accepts(r) /\ Executed(r) ELSE Rejects(r) /\ UNCHANGED outboxHost
            /\ \/ \E t \in Tabs : Awaits(t, r) /\ job' = [job EXCEPT ![t].at = at]
               \/ UNCHANGED job
    BY DEF HostHandles
  <1>3. /\ HostInv' /\ DOMAIN receipts \subseteq DOMAIN receipts' /\ (at = "ok" => r.id \in DOMAIN receipts')
        /\ DOMAIN receipts' \subseteq Creates \cup Messages
        /\ \A id \in DOMAIN receipts' : receipts'[id] \in Requests
        /\ prompts' \in Seq(Messages \X RemoteSessions) /\ turnOn' \subseteq RemoteSessions
    <2>1. CASE at = "ok"
      BY <2>1, ExecutedOK
    <2>2. CASE at # "ok"
      <3>1. UNCHANGED <<receipts, prompts, turnOn>>
        BY <2>2 DEF outboxHost
      <3> QED BY <2>2, <3>1, QuietForHost DEF OutboxInv, OutboxTypeOK
    <2> QED BY <2>1, <2>2
  <1>4. BoxInv'
    BY <1>1, <1>3, QuietForBox DEF OutboxInv
  <1>5. job' \in [Tabs -> Jobs \cup {None}] /\ JobInv'
    <2>1. CASE UNCHANGED job
      BY <1>1, <1>3, <2>1 DEF OutboxInv, OutboxTypeOK, JobInv, JobOK, ReceiptIsTheHosts
    <2>2. ASSUME NEW t \in Tabs, Awaits(t, r), job' = [job EXCEPT ![t].at = at]
          PROVE  job' \in [Tabs -> Jobs \cup {None}] /\ JobInv'
      <3>1. job[t] # None /\ job[t] \in Jobs /\ job[t].at = "asking" /\ job[t].request = r
        BY <2>2 DEF Awaits, OutboxInv, OutboxTypeOK
      <3> DEFINE k == [job[t] EXCEPT !.at = at]
      <3>2. /\ k \in Jobs /\ k.kind = job[t].kind /\ k.msg = job[t].msg /\ k.request = r /\ k.at = at
        BY <3>1 DEF Jobs
      <3>3. job' = [job EXCEPT ![t] = k]
        BY <2>2
      <3>4. JobFits(job[t], bound[t])
        BY <3>1 DEF OutboxInv, JobInv, JobOK
      <3> HIDE DEF k
      <3>5. JobFits(k, bound'[t])
        BY <1>1, <3>1, <3>2, <3>4 DEF JobFits
      <3>6. job'[t] = k /\ \A u \in Tabs \ {t} : job'[u] = job[u]
        BY <3>3 DEF OutboxInv, OutboxTypeOK
      <3>7. JobOK'
        BY <1>1, <3>5, <3>6 DEF OutboxInv, JobInv, JobOK
      <3>8. ReceiptIsTheHosts'
        BY <1>3, <3>2, <3>6 DEF OutboxInv, JobInv, ReceiptIsTheHosts
      <3> QED BY <3>2, <3>3, <3>7, <3>8 DEF OutboxInv, OutboxTypeOK, JobInv
    <2> QED BY <2>1, <2>2
  <1>6. OutboxTypeOK'
    BY <1>1, <1>2, <1>3, <1>5 DEF OutboxInv, OutboxTypeOK
  <1> QED BY <1>3, <1>4, <1>5, <1>6 DEF OutboxInv

LEMMA TurnsKeep ==
    ASSUME OutboxInv, NEW s \in RemoteSessions, HostTurnEnds(s) \/ OtherClient(s)
    PROVE  OutboxInv'
  <1>1. /\ turnOn' \subseteq turnOn \cup {s}
        /\ UNCHANGED <<outbox, bound, starting, pending, unseen, snapshot, job, wire, receipts, prompts,
                       made, saved, refused>>
    BY DEF HostTurnEnds, OtherClient, outboxStore, outboxTab, outboxPast
  <1>2. OutboxTypeOK'
    BY <1>1 DEF OutboxInv, OutboxTypeOK
  <1>3. BoxInv' /\ HostInv' /\ JobInv'
    BY <1>1, QuietForBox, QuietForHost, QuietForJobs DEF OutboxInv
  <1> QED BY <1>2, <1>3 DEF OutboxInv

LEMMA StutterKeeps ==
    ASSUME OutboxInv, UNCHANGED outboxVars
    PROVE  OutboxInv'
  <1>1. UNCHANGED <<outbox, bound, starting, pending, unseen, snapshot, job, wire, receipts, prompts, turnOn,
                    made, saved, refused>>
    BY DEF outboxVars, outboxStore, outboxTab, outboxHost, outboxPast
  <1>2. OutboxTypeOK'
    BY <1>1 DEF OutboxInv, OutboxTypeOK
  <1>3. BoxInv' /\ HostInv' /\ JobInv'
    BY <1>1, QuietForBox, QuietForHost, QuietForJobs DEF OutboxInv
  <1> QED BY <1>2, <1>3 DEF OutboxInv

LEMMA OutboxInvStarts == OutboxInit => OutboxInv
  <1> SUFFICES ASSUME OutboxInit
               PROVE  OutboxInv
    OBVIOUS
  <1>1. OutboxTypeOK
    BY DEF OutboxInit, OutboxTypeOK, RemoteSessions
  <1>2. BoxInv
    BY DEF OutboxInit, BoxInv, PastOK, BoxOK, FollowupsMade, SavedIsKept
  <1>3. JobInv /\ HostInv
    BY DEF OutboxInit, JobInv, JobOK, ReceiptIsTheHosts, HostInv, PromptsHaveReceipts, PromptedOnce
  <1> QED BY <1>1, <1>2, <1>3 DEF OutboxInv

LEMMA OutboxInvKept == OutboxInv /\ [OutboxNext]_outboxVars => OutboxInv'
  <1> SUFFICES ASSUME OutboxInv, [OutboxNext]_outboxVars
               PROVE  OutboxInv'
    OBVIOUS
  <1>1. ASSUME NEW t \in Tabs, NEW m \in Messages, Submit(t, m)
        PROVE  OutboxInv'
    BY <1>1, SubmitKeeps
  <1>2. ASSUME NEW t \in Tabs, Prepared(t)
        PROVE  OutboxInv'
    BY <1>2, PreparedKeeps
  <1>3. ASSUME NEW t \in Tabs, PreparationFails(t) \/ AgainGivesUp(t) \/ LoseAnswer(t)
        PROVE  OutboxInv'
    BY <1>3, EndingsKeep
  <1>4. ASSUME NEW t \in Tabs, Retry(t) \/ TryAgain(t) \/ Sync(t)
        PROVE  OutboxInv'
    BY <1>4, RetryKeeps, TryAgainKeeps, SyncKeeps
  <1>5. ASSUME NEW t \in Tabs, RefusalArrives(t) \/ SendReceipt(t) \/ CreateReceipt(t)
        PROVE  OutboxInv'
    BY <1>5, RefusalKeeps, SendReceiptKeeps, CreateReceiptKeeps
  <1>6. ASSUME NEW t \in Tabs, NEW s \in RemoteSessions \cup {None}, Switch(t, s)
        PROVE  OutboxInv'
    BY <1>6, SwitchKeeps
  <1>7. CASE Restart \/ \E t \in Tabs : DiesDuringReceipt(t)
    BY <1>7, RestartsKeep
  <1>8. ASSUME NEW r \in Requests, HostHandles(r)
        PROVE  OutboxInv'
    BY <1>8, HostHandlesKeeps
  <1>9. ASSUME NEW s \in RemoteSessions, HostTurnEnds(s) \/ OtherClient(s)
        PROVE  OutboxInv'
    BY <1>9, TurnsKeep
  <1>10. CASE UNCHANGED outboxVars
    BY <1>10, StutterKeeps
  <1> QED BY <1>1, <1>2, <1>3, <1>4, <1>5, <1>6, <1>7, <1>8, <1>9, <1>10 DEF OutboxNext

\* What leaves local storage in a step: commands the host has, or that this
\* tab was told were refused.
Erased == DOMAIN outbox \ DOMAIN outbox' \subseteq DOMAIN receipts \cup refused'

LEMMA AsksErasesNothing ==
    ASSUME NEW t, NEW kind, NEW msg, NEW r, NEW followup, Asks(t, kind, msg, r, followup)
    PROVE  Erased
  <1>1. DOMAIN Saved(outbox, r, t, followup) = DOMAIN outbox \cup {r.id}
    BY SavedDomain
  <1> QED BY <1>1 DEF Asks, Erased

LEMMA StepErases ==
    ASSUME OutboxInv, [OutboxNext]_outboxVars
    PROVE  Erased
  <1>1. ASSUME UNCHANGED outbox
        PROVE  Erased
    BY <1>1 DEF Erased
  <1>2. ASSUME NEW t \in Tabs, Prepared(t) \/ Retry(t)
        PROVE  Erased
    BY <1>2, AsksErasesNothing DEF Prepared, Retry
  <1>3. ASSUME NEW t \in Tabs, RefusalArrives(t)
        PROVE  Erased
    <2> DEFINE id == job[t].request.id
    <2>1. DOMAIN Cleared(outbox, id) = DOMAIN outbox \ {id}
      BY ClearedOK
    <2>2. \/ UNCHANGED outbox
          \/ outbox' = Cleared(outbox, id) /\ refused' = refused \cup {id}
      BY <1>3 DEF RefusalArrives
    <2> QED BY <2>1, <2>2 DEF Erased
  <1>4. ASSUME NEW t \in Tabs, SendReceipt(t) \/ CreateReceipt(t)
        PROVE  Erased
    <2> DEFINE id == job[t].request.id
    <2>1. id \in DOMAIN receipts
      BY <1>4 DEF SendReceipt, CreateReceipt, OutboxInv, JobInv, ReceiptIsTheHosts
    <2>2. DOMAIN outbox \ {id} \subseteq DOMAIN outbox'
      <3>1. CASE SendReceipt(t)
        <4>1. DOMAIN Cleared(outbox, id) = DOMAIN outbox \ {id}
          BY ClearedOK
        <4> QED BY <3>1, <4>1 DEF SendReceipt
      <3>2. CASE CreateReceipt(t)
        <4> DEFINE box == ReceiptWrites(id, t)[2]
        <4>1. DOMAIN outbox \ {id} \subseteq DOMAIN box
          BY <3>2, WritesOK DEF CreateReceipt, IsCreate, OutboxInv, BoxInv
        <4>2. outbox' = box \/ \E next : outbox' = Saved(box, next, t, None)
          BY <3>2 DEF CreateReceipt
        <4>3. \A next : DOMAIN Saved(box, next, t, None) = DOMAIN box \cup {next.id}
          BY SavedDomain
        <4> HIDE DEF box, id
        <4> QED BY <4>1, <4>2, <4>3
      <3> QED BY <1>4, <3>1, <3>2
    <2> QED BY <2>1, <2>2 DEF Erased
  <1>5. ASSUME NEW t \in Tabs, NEW m \in Messages, Submit(t, m)
        PROVE  UNCHANGED outbox
    BY <1>5 DEF Submit, outboxStore
  <1>6. ASSUME NEW t \in Tabs,
               PreparationFails(t) \/ AgainGivesUp(t) \/ LoseAnswer(t) \/ TryAgain(t) \/ Sync(t)
        PROVE  UNCHANGED outbox
    BY <1>6 DEF PreparationFails, AgainGivesUp, LoseAnswer, TryAgain, Sync, outboxStore
  <1>7. ASSUME NEW t \in Tabs, NEW s, Switch(t, s)
        PROVE  UNCHANGED outbox
    BY <1>7 DEF Switch
  <1>8. CASE Restart
    BY <1>1, <1>8 DEF Restart, Restarted
  <1>9. ASSUME NEW t \in Tabs, DiesDuringReceipt(t)
        PROVE  Erased
    <2> DEFINE id == job[t].request.id
    <2>1. id \in DOMAIN receipts /\ id \in Creates /\ outbox' = ReceiptWrites(id, t)[1]
      BY <1>9 DEF DiesDuringReceipt, Restarted, IsCreate, OutboxInv, JobInv, ReceiptIsTheHosts
    <2>2. DOMAIN outbox \ {id} \subseteq DOMAIN ReceiptWrites(id, t)[1]
      BY <2>1, WritesOK DEF OutboxInv, BoxInv
    <2> QED BY <2>1, <2>2 DEF Erased
  <1>10. ASSUME NEW r, HostHandles(r)
         PROVE  UNCHANGED outbox
    BY <1>10 DEF HostHandles, outboxStore
  <1>11. ASSUME NEW s, HostTurnEnds(s) \/ OtherClient(s)
         PROVE  UNCHANGED outbox
    BY <1>11 DEF HostTurnEnds, OtherClient, outboxStore
  <1>12. CASE UNCHANGED outboxVars
    BY <1>1, <1>12 DEF outboxVars, outboxStore
  <1> QED
    BY <1>1, <1>2, <1>3, <1>4, <1>5, <1>6, <1>7, <1>8, <1>9, <1>10, <1>11, <1>12 DEF OutboxNext

LEMMA OutboxInvAlways == OutboxSpec => []OutboxInv
  BY OutboxInvStarts, OutboxInvKept, PTL DEF OutboxSpec

\* Whatever is lost, retried, tried again or handled late, the host starts one
\* turn for a message (executeCommand's receipts).
THEOREM MessagesArePromptedOnce == OutboxSpec => []PromptedOnce
  <1>1. OutboxInv => PromptedOnce
    BY DEF OutboxInv, HostInv
  <1> QED BY <1>1, OutboxInvAlways, PTL

\* Local storage is in order, and a message that was saved stays in it until
\* the host has its command or the tab was told of a refusal.
THEOREM NoMessageIsForgotten == OutboxSpec => []OutboxConsistent
  <1>1. OutboxInv => OutboxConsistent
    BY DEF OutboxInv, BoxInv, OutboxConsistent
  <1> QED BY <1>1, OutboxInvAlways, PTL

\* An entry of the outbox goes away with its own answer only.
THEOREM AnswersEraseTheirOwn == OutboxSpec => OnlyItsAnswerErases
  <1>1. OutboxInv /\ [OutboxNext]_outboxVars =>
          [\A id \in DOMAIN outbox \ DOMAIN outbox' : id \in DOMAIN receipts \cup refused']_outboxVars
    BY StepErases DEF Erased
  <1> QED BY <1>1, OutboxInvAlways, PTL DEF OutboxSpec, OnlyItsAnswerErases

-----------------------------------------------------------------------------
(***************************************************************************)
(* One conversation for a message.  A message is open while the host has    *)
(* not answered it; the creates made for it that were not refused are live. *)
(* Everything that still refers to an open message belongs to the tab it    *)
(* was written in, and while a create of it is live the tab has something   *)
(* to retry, so that its Try again is not offered.                          *)
(***************************************************************************)
Open(m) == m \in DOMAIN origin /\ origin[m].session = None /\ m \notin refused \cup DOMAIN receipts
Live(m) == {c \in DOMAIN made : made[c] = m /\ c \notin refused}

\* A create that was not refused, made for a message of this tab.
CreateOf(c, t) == c \in DOMAIN made \ refused /\ origin[made[c]].tab = t

HistoryOK ==
    /\ DOMAIN origin \subseteq Messages /\ \A m \in DOMAIN origin : origin[m].tab \in Tabs
    /\ \A c \in DOMAIN made : made[c] \in DOMAIN origin
    /\ refused \cap Creates \subseteq DOMAIN made
ReceiptsMatch == \A id \in DOMAIN receipts : receipts[id].id = id
BoxOwned ==
    \A id \in DOMAIN outbox : IF IsCreate(id) THEN CreateOf(id, outbox[id].tab) ELSE id \in DOMAIN origin

\* A request of a tab is for a create of its own, or for a message that goes
\* where local storage says.
RequestOwned(r, t) ==
    IF IsCreate(r.id) THEN CreateOf(r.id, t)
    ELSE r.id \in DOMAIN origin /\ (Open(r.id) => r.id \in DOMAIN outbox /\ outbox[r.id].target = r.target)

\* A new conversation shows a create it still has in local storage.
PendingFits(t) ==
    /\ pending[t] # None => RequestOwned(pending[t], t) /\ (IsCreate(pending[t].id) => bound[t] = None)
    /\ bound[t] = None /\ pending[t] = None => \A id \in DOMAIN outbox : IsCreate(id) => outbox[id].tab # t

\* The message shown ahead of the host: in a new conversation every create of
\* the tab is for it, in one that was created for it the tab can retry it.
AheadFits(t) ==
    starting[t] # None =>
      /\ starting[t].msg \in DOMAIN origin /\ origin[starting[t].msg].tab = t
      /\ Open(starting[t].msg) /\ bound[t] = None =>
           /\ starting[t].msg \notin DOMAIN outbox
           /\ \A id \in DOMAIN outbox : IsCreate(id) /\ outbox[id].tab = t => made[id] = starting[t].msg
           /\ pending[t] # None /\ IsCreate(pending[t].id) => made[pending[t].id] = starting[t].msg
      /\ Open(starting[t].msg) /\ bound[t] # None =>
           /\ starting[t].msg \in DOMAIN outbox /\ outbox[starting[t].msg].target = bound[t]
           /\ pending[t] # None

\* What a job has asked for.
AskedFits(t) ==
    job[t] # None /\ job[t].at # "prepare" =>
      /\ RequestOwned(job[t].request, t)
      /\ job[t].kind \in {"dispatch", "again"} => ~IsCreate(job[t].request.id)
      /\ job[t].kind = "start" => IsCreate(job[t].request.id) /\ made[job[t].request.id] = job[t].msg
      /\ IsCreate(job[t].request.id) =>
           /\ job[t].current =>
                /\ bound[t] = None
                /\ starting[t] # None /\ Open(starting[t].msg) => made[job[t].request.id] = starting[t].msg
           /\ job[t].at = "no" /\ Open(made[job[t].request.id]) => made[job[t].request.id] \notin DOMAIN outbox

\* What a job says of its message.
MessageOfJobFits(t) ==
    job[t] # None =>
      /\ job[t].msg # None => job[t].msg \in DOMAIN origin /\ origin[job[t].msg].tab = t
      /\ job[t].kind = "retry" => job[t].msg = None
      /\ ~job[t].current => starting[t] = None
      /\ job[t].kind = "start" /\ job[t].current =>
           bound[t] = None /\ starting[t] # None /\ starting[t].msg = job[t].msg
      /\ job[t].msg # None /\ Open(job[t].msg) =>
           /\ job[t].kind \in {"start", "dispatch"}
           /\ job[t].at = "prepare" => job[t].kind = "start" /\ job[t].current /\ Live(job[t].msg) = {}
           /\ job[t].current => starting[t] # None /\ starting[t].msg = job[t].msg

TabFits(t) == PendingFits(t) /\ AheadFits(t) /\ AskedFits(t) /\ MessageOfJobFits(t)

MessageFits(m) ==
    Open(m) =>
      /\ \A c, d \in Live(m) : c = d
      /\ \A c \in Live(m) : \/ c \in DOMAIN outbox /\ outbox[c].followup = m
                            \/ m \in DOMAIN outbox
      /\ m \in DOMAIN outbox => outbox[m].target \in Live(m) \cap DOMAIN receipts

ConversationInv ==
    /\ OutboxInv /\ HistoryOK /\ ReceiptsMatch /\ BoxOwned
    /\ \A t \in Tabs : TabFits(t)
    /\ \A m \in DOMAIN origin : MessageFits(m)

\* What a tab has just read back from local storage.
PendingFresh(t) ==
    /\ pending[t] # None =>
         /\ pending[t].id \in DOMAIN outbox
         /\ ~IsCreate(pending[t].id) /\ Open(pending[t].id) => outbox[pending[t].id].target = pending[t].target
         /\ IsCreate(pending[t].id) => outbox[pending[t].id].tab = t /\ bound[t] = None
    /\ pending[t] = None =>
         \A id \in DOMAIN outbox : /\ bound[t] = None /\ IsCreate(id) => outbox[id].tab # t
                                   /\ bound[t] # None /\ ~IsCreate(id) /\ Open(id) => outbox[id].target # bound[t]

\* A step of other parts of the system, as a tab sees it.
Elsewhere(u) ==
    /\ starting'[u] = starting[u] /\ job'[u] = job[u] /\ bound'[u] = bound[u]
    /\ pending'[u] = pending[u] \/ PendingFresh(u)'
    /\ \A m \in DOMAIN origin : m \in DOMAIN origin' /\ origin'[m] = origin[m]
    /\ \A c \in DOMAIN made : c \in DOMAIN made' /\ made'[c] = made[c]
    /\ \A c \in DOMAIN made' \ DOMAIN made : origin'[made'[c]].tab # u
    /\ \A c \in (refused' \ refused) \cap DOMAIN made : origin[made[c]].tab # u
    /\ refused \subseteq refused' /\ DOMAIN receipts \subseteq DOMAIN receipts'
    /\ \A id \in DOMAIN outbox' : IsCreate(id) /\ outbox'[id].tab = u => id \in DOMAIN outbox /\ outbox[id].tab = u
    /\ \A m \in DOMAIN outbox \cap Messages :
           Open(m)' => m \in DOMAIN outbox' /\ outbox'[m].target = outbox[m].target
    /\ \A m \in (DOMAIN outbox' \ DOMAIN outbox) \cap Messages : Open(m)' => origin'[m].tab # u

\* A tab that a step is not about still fits.
LEMMA ElsewhereFits ==
    ASSUME ConversationInv, OutboxInv', BoxOwned', NEW u \in Tabs, Elsewhere(u)
    PROVE  TabFits(u)'
  <1>1. TabFits(u) /\ HistoryOK /\ BoxOwned
    BY DEF ConversationInv
  <1>2. \A m \in DOMAIN origin : m \in DOMAIN origin' /\ origin'[m] = origin[m] /\ m \in Messages
                                 /\ (Open(m)' => Open(m))
    BY <1>1 DEF Elsewhere, Open, HistoryOK
  <1>3. \A c : CreateOf(c, u) => CreateOf(c, u)' /\ made'[c] = made[c] /\ made[c] \in DOMAIN origin
                                 /\ origin[made[c]].tab = u
    BY <1>1, <1>2 DEF Elsewhere, CreateOf, HistoryOK
  <1>4. \A r : RequestOwned(r, u) => RequestOwned(r, u)'
    BY <1>2, <1>3 DEF RequestOwned, Elsewhere
  <1>5. \A id \in DOMAIN outbox' : IsCreate(id) /\ outbox'[id].tab = u =>
            id \in DOMAIN outbox /\ outbox[id].tab = u /\ made'[id] = made[id]
    BY <1>1, <1>3 DEF Elsewhere, BoxOwned
  <1>6. \A m \in DOMAIN origin : origin[m].tab = u /\ Open(m)' =>
            /\ m \in DOMAIN outbox <=> m \in DOMAIN outbox'
            /\ m \in DOMAIN outbox => outbox'[m].target = outbox[m].target
    BY <1>2 DEF Elsewhere
  <1>7. \A m \in DOMAIN origin : origin[m].tab = u /\ Live(m) = {} => Live(m)' = {}
    BY <1>1, <1>2 DEF Elsewhere, Live, HistoryOK
  <1>8. PendingFits(u)'
    <2>1. CASE pending'[u] = pending[u]
      BY <1>1, <1>4, <1>5, <2>1 DEF TabFits, PendingFits, Elsewhere
    <2>2. CASE PendingFresh(u)'
      <3>1. pending'[u] # None => RequestOwned(pending[u], u)' /\ (IsCreate(pending'[u].id) => bound'[u] = None)
        BY <2>2 DEF PendingFresh, BoxOwned, RequestOwned
      <3> QED BY <2>2, <3>1 DEF PendingFits, PendingFresh
    <2> QED BY <2>1, <2>2 DEF Elsewhere
  <1>9. AheadFits(u)'
    <2> SUFFICES ASSUME starting'[u] # None
                 PROVE  AheadFits(u)'
      BY DEF AheadFits
    <2> PICK m : m = starting[u].msg
      OBVIOUS
    <2>1. starting[u] # None /\ starting'[u].msg = m /\ bound'[u] = bound[u]
      BY DEF Elsewhere
    <2>2. m \in DOMAIN origin /\ origin[m].tab = u /\ m \in DOMAIN origin' /\ origin'[m].tab = u
      BY <1>1, <1>2, <2>1 DEF TabFits, AheadFits
    <2>3. ASSUME Open(m)', bound[u] = None
          PROVE  /\ m \notin DOMAIN outbox'
                 /\ \A id \in DOMAIN outbox' : IsCreate(id) /\ outbox'[id].tab = u => made'[id] = m
                 /\ pending'[u] # None /\ IsCreate(pending'[u].id) => made'[pending'[u].id] = m
      <3>1. /\ m \notin DOMAIN outbox
            /\ \A id \in DOMAIN outbox : IsCreate(id) /\ outbox[id].tab = u => made[id] = m
            /\ pending[u] # None /\ IsCreate(pending[u].id) => made[pending[u].id] = m
        BY <1>1, <1>2, <2>1, <2>2, <2>3 DEF TabFits, AheadFits
      <3>2. m \notin DOMAIN outbox'
        BY <1>6, <2>2, <2>3, <3>1
      <3>3. \A id \in DOMAIN outbox' : IsCreate(id) /\ outbox'[id].tab = u => made'[id] = m
        BY <1>5, <3>1
      <3>4. pending'[u] # None /\ IsCreate(pending'[u].id) => made'[pending'[u].id] = m
        <4>1. CASE pending'[u] = pending[u]
          BY <1>1, <1>3, <3>1, <4>1 DEF TabFits, PendingFits, RequestOwned
        <4>2. CASE PendingFresh(u)'
          BY <3>3, <4>2 DEF PendingFresh
        <4> QED BY <4>1, <4>2 DEF Elsewhere
      <3> QED BY <3>2, <3>3, <3>4
    <2>4. ASSUME Open(m)', bound[u] # None
          PROVE  m \in DOMAIN outbox' /\ outbox'[m].target = bound[u] /\ pending'[u] # None
      <3>1. m \in DOMAIN outbox /\ outbox[m].target = bound[u] /\ pending[u] # None
        BY <1>1, <1>2, <2>1, <2>2, <2>4 DEF TabFits, AheadFits
      <3>2. m \in DOMAIN outbox' /\ outbox'[m].target = bound[u]
        BY <1>6, <2>2, <2>4, <3>1
      <3>3. ~IsCreate(m)
        BY <1>2, <2>2, NoneIsNothing DEF IsCreate
      <3>4. pending'[u] # None
        BY <2>1, <2>4, <3>1, <3>2, <3>3 DEF Elsewhere, PendingFresh
      <3> QED BY <3>2, <3>4
    <2> QED BY <2>1, <2>2, <2>3, <2>4 DEF AheadFits
  <1>10. AskedFits(u)'
    <2> SUFFICES ASSUME job'[u] # None, job'[u].at # "prepare"
                 PROVE  AskedFits(u)'
      BY DEF AskedFits
    <2> PICK j : j = job[u]
      OBVIOUS
    <2>1. job'[u] = j /\ starting'[u] = starting[u] /\ bound'[u] = bound[u] /\ AskedFits(u)
      BY <1>1 DEF Elsewhere, TabFits
    <2>2. RequestOwned(j.request, u) /\ RequestOwned(j.request, u)'
      BY <1>4, <2>1 DEF AskedFits
    <2>3. IsCreate(j.request.id) =>
            /\ made'[j.request.id] = made[j.request.id] /\ made[j.request.id] \in DOMAIN origin
            /\ origin[made[j.request.id]].tab = u
      BY <1>3, <2>2 DEF RequestOwned
    <2>4. starting[u] # None => starting[u].msg \in DOMAIN origin
      BY <1>1 DEF TabFits, AheadFits
    <2>5. j.kind \in {"dispatch", "again"} => ~IsCreate(j.request.id)
      BY <2>1 DEF AskedFits
    <2>6. j.kind = "start" => IsCreate(j.request.id) /\ made'[j.request.id] = j.msg
      BY <2>1, <2>3 DEF AskedFits
    <2>7. ASSUME IsCreate(j.request.id), j.current
          PROVE  bound[u] = None
                 /\ (starting[u] # None /\ Open(starting[u].msg)' => made'[j.request.id] = starting[u].msg)
      BY <1>2, <2>1, <2>3, <2>4, <2>7 DEF AskedFits
    <2>8. ASSUME IsCreate(j.request.id), j.at = "no", Open(made[j.request.id])'
          PROVE  made[j.request.id] \notin DOMAIN outbox'
      BY <1>2, <1>6, <2>1, <2>3, <2>8 DEF AskedFits
    <2> QED BY <2>1, <2>2, <2>3, <2>5, <2>6, <2>7, <2>8 DEF AskedFits
  <1>11. MessageOfJobFits(u)'
    <2> PICK j : j = job[u]
      OBVIOUS
    <2>1. job'[u] = j /\ starting'[u] = starting[u] /\ bound'[u] = bound[u] /\ MessageOfJobFits(u)
      BY <1>1 DEF Elsewhere, TabFits
    <2> QED BY <1>2, <1>7, <2>1 DEF MessageOfJobFits
  <1> QED BY <1>8, <1>9, <1>10, <1>11 DEF TabFits

\* A message whose entries stay, or that is no longer open, fits.
LEMMA MessagesKept ==
    ASSUME ConversationInv, UNCHANGED <<origin, made, refused>>, DOMAIN receipts \subseteq DOMAIN receipts',
           \A m \in DOMAIN origin : Open(m)' =>
             /\ \A c \in Live(m) : c \in DOMAIN outbox /\ outbox[c].followup = m =>
                    (c \in DOMAIN outbox' /\ outbox'[c].followup = m) \/ m \in DOMAIN outbox'
             /\ m \in DOMAIN outbox => m \in DOMAIN outbox'
             /\ m \in DOMAIN outbox' => outbox'[m].target \in Live(m) \cap DOMAIN receipts'
    PROVE  \A m \in DOMAIN origin' : MessageFits(m)'
  <1> SUFFICES ASSUME NEW m \in DOMAIN origin, Open(m)'
               PROVE  MessageFits(m)'
    BY DEF MessageFits
  <1>1. Open(m) /\ Live(m)' = Live(m) /\ MessageFits(m)
    BY DEF Open, Live, ConversationInv
  <1> QED BY <1>1 DEF MessageFits

\* A step of one tab that leaves the rest of the system alone.
LEMMA TabSteps ==
    ASSUME ConversationInv, OutboxInv', NEW t \in Tabs,
           UNCHANGED <<outbox, bound, pending, receipts, origin, made, refused>>,
           \A u \in Tabs \ {t} : starting'[u] = starting[u] /\ job'[u] = job[u],
           AheadFits(t)', AskedFits(t)', MessageOfJobFits(t)'
    PROVE  ConversationInv'
  <1>1. HistoryOK' /\ ReceiptsMatch' /\ BoxOwned'
    BY DEF ConversationInv, HistoryOK, ReceiptsMatch, BoxOwned, CreateOf
  <1>2. \A u \in Tabs \ {t} : Elsewhere(u)
    BY DEF Elsewhere
  <1>3. \A u \in Tabs \ {t} : TabFits(u)'
    BY <1>1, <1>2, ElsewhereFits
  <1>4. PendingFits(t)
    BY DEF ConversationInv, TabFits
  <1>5. PendingFits(t)'
    BY <1>4 DEF PendingFits, RequestOwned, CreateOf, Open
  <1>6. \A m \in DOMAIN origin' : MessageFits(m)'
    BY DEF ConversationInv, MessageFits, Open, Live
  <1> QED BY <1>1, <1>3, <1>5, <1>6 DEF ConversationInv, TabFits

LEMMA AloneIsQuiet ==
    ASSUME ConversationInv, OutboxInv',
           UNCHANGED <<outbox, bound, pending, receipts, origin, made, refused, starting, job>>
    PROVE  ConversationInv'
  <1>1. HistoryOK' /\ ReceiptsMatch' /\ BoxOwned'
    BY DEF ConversationInv, HistoryOK, ReceiptsMatch, BoxOwned, CreateOf
  <1>2. \A u \in Tabs : Elsewhere(u)
    BY DEF Elsewhere
  <1>3. \A u \in Tabs : TabFits(u)'
    BY <1>1, <1>2, ElsewhereFits
  <1>4. \A m \in DOMAIN origin' : MessageFits(m)'
    BY DEF ConversationInv, MessageFits, Open, Live
  <1> QED BY <1>1, <1>3, <1>4 DEF ConversationInv

\* What a tab shows when its job ends: what it did, or the message of the job,
\* which is the same while it is open.
Marked(t) ==
    \/ starting'[t] = starting[t]
    \/ /\ starting'[t] # None /\ starting'[t].msg \in DOMAIN origin /\ origin[starting'[t].msg].tab = t
       /\ Open(starting'[t].msg) => starting[t] # None /\ starting[t].msg = starting'[t].msg

LEMMA MarkedIs ==
    ASSUME ConversationInv, NEW t \in Tabs, job[t] # None,
           \/ UNCHANGED starting
           \/ /\ starting' = [starting EXCEPT ![t] = Failed(job[t].msg)] /\ job[t].msg # None
              /\ job[t].at # "prepare" => job[t].current \/ job[t].kind = "again"
    PROVE  Marked(t) /\ \A u \in Tabs \ {t} : starting'[u] = starting[u]
  <1>1. CASE UNCHANGED starting
    BY <1>1 DEF Marked
  <1>2. CASE /\ starting' = [starting EXCEPT ![t] = Failed(job[t].msg)] /\ job[t].msg # None
             /\ job[t].at # "prepare" => job[t].current \/ job[t].kind = "again"
    <2> PICK m : m = job[t].msg
      OBVIOUS
    <2>1. MessageOfJobFits(t)
      BY DEF ConversationInv, TabFits
    <2>2. m \in DOMAIN origin /\ origin[m].tab = t
          /\ (Open(m) => starting[t] # None /\ starting[t].msg = m)
      BY <1>2, <2>1 DEF MessageOfJobFits
    <2>3. m \in Messages
      BY <2>2 DEF ConversationInv, HistoryOK
    <2>4. starting'[t] = Failed(m) /\ \A u \in Tabs \ {t} : starting'[u] = starting[u]
      BY <1>2 DEF ConversationInv, OutboxInv, OutboxTypeOK
    <2>5. Failed(m) \in Starting /\ Failed(m).msg = m
      BY <2>3 DEF Failed, Starting
    <2>6. starting'[t] # None /\ starting'[t].msg = m
      BY <2>4, <2>5, JobsAssumption
    <2> QED BY <2>2, <2>4, <2>6 DEF Marked
  <1> QED BY <1>1, <1>2

\* A job ends; its message is marked failed, or what is shown stays.
LEMMA JobEnds ==
    ASSUME ConversationInv, OutboxInv', NEW t \in Tabs, job[t] # None,
           UNCHANGED <<outbox, bound, pending, receipts, origin, made, refused>>,
           job' = [job EXCEPT ![t] = None],
           \/ UNCHANGED starting
           \/ /\ starting' = [starting EXCEPT ![t] = Failed(job[t].msg)] /\ job[t].msg # None
              /\ job[t].at # "prepare" => job[t].current \/ job[t].kind = "again"
    PROVE  ConversationInv'
  <1>1. job'[t] = None /\ \A u \in Tabs \ {t} : job'[u] = job[u]
    BY DEF ConversationInv, OutboxInv, OutboxTypeOK
  <1>2. AskedFits(t)' /\ MessageOfJobFits(t)'
    BY <1>1 DEF AskedFits, MessageOfJobFits
  <1>3. Marked(t) /\ \A u \in Tabs \ {t} : starting'[u] = starting[u]
    BY MarkedIs
  <1>4. AheadFits(t)'
    <2>1. AheadFits(t)
      BY DEF ConversationInv, TabFits
    <2>2. \A n : Open(n)' <=> Open(n)
      BY DEF Open
    <2> QED BY <1>3, <2>1, <2>2 DEF Marked, AheadFits
  <1> QED BY <1>1, <1>2, <1>3, <1>4, TabSteps

LEMMA ShowsWhat ==
    ASSUME OutboxTypeOK, NEW t \in Tabs, NEW failed, Shows(t, job[t], failed)
    PROVE  \/ UNCHANGED starting
           \/ /\ starting' = [starting EXCEPT ![t] = Failed(job[t].msg)] /\ job[t].kind # "retry"
              /\ job[t].current \/ job[t].kind = "again"
  <1>1. CASE failed /\ (job[t].kind = "again" \/ (job[t].current /\ job[t].kind # "retry"))
    BY <1>1 DEF Shows
  <1>2. CASE ~(failed /\ (job[t].kind = "again" \/ (job[t].current /\ job[t].kind # "retry")))
    BY <1>2 DEF Shows, OutboxTypeOK
  <1> QED BY <1>1, <1>2

LEMMA EndingsConverse ==
    ASSUME ConversationInv, OutboxInv', NEW t \in Tabs, PreparationFails(t) \/ AgainGivesUp(t) \/ LoseAnswer(t)
    PROVE  ConversationInv'
  <1>1. /\ job[t] # None /\ job' = [job EXCEPT ![t] = None]
        /\ UNCHANGED <<outbox, bound, pending, receipts, origin, made, refused>>
    BY DEF PreparationFails, AgainGivesUp, LoseAnswer, outboxStore, outboxHost, outboxPast
  <1>2. JobFits(job[t], bound[t]) /\ OutboxTypeOK
    BY <1>1 DEF ConversationInv, OutboxInv, JobInv, JobOK
  <1>3. \/ UNCHANGED starting
        \/ /\ starting' = [starting EXCEPT ![t] = Failed(job[t].msg)] /\ job[t].kind # "retry"
           /\ job[t].at # "prepare" => job[t].current \/ job[t].kind = "again"
    <2>1. CASE PreparationFails(t) \/ AgainGivesUp(t)
      BY <1>2, <2>1 DEF PreparationFails, AgainGivesUp, JobFits
    <2>2. CASE LoseAnswer(t)
      BY <1>2, <2>2, ShowsWhat DEF LoseAnswer
    <2> QED BY <2>1, <2>2
  <1>4. job[t].kind # "retry" => job[t].msg # None
    BY <1>2, NoneIsNothing DEF JobFits
  <1> QED BY <1>1, <1>3, <1>4, JobEnds

LEMMA TryAgainConverse ==
    ASSUME ConversationInv, OutboxInv', NEW t \in Tabs, TryAgain(t)
    PROVE  ConversationInv'
  <1>1. UNCHANGED <<outbox, bound, pending, receipts, origin, made, refused>>
    BY DEF TryAgain, outboxStore, outboxHost, outboxPast
  <1> PICK m : m = starting[t].msg
    OBVIOUS
  <1>2. /\ pending[t] = None /\ starting[t] # None /\ starting[t] \in Starting /\ m \in Messages
        /\ starting'[t] = [starting[t] EXCEPT !.failed = FALSE]
        /\ job'[t] = Preparing(IF bound[t] = None THEN "start" ELSE "again", m)
        /\ \A u \in Tabs \ {t} : starting'[u] = starting[u] /\ job'[u] = job[u]
    BY DEF TryAgain, ConversationInv, OutboxInv, OutboxTypeOK, Starting
  <1>3. starting'[t] \in Starting /\ starting'[t].msg = m /\ starting'[t] # None
    BY <1>2, JobsAssumption DEF Starting
  <1>4. PendingFits(t) /\ AheadFits(t) /\ BoxOwned /\ HistoryOK /\ \A n \in DOMAIN origin : MessageFits(n)
    BY DEF ConversationInv, TabFits
  <1>5. m \in DOMAIN origin /\ origin[m].tab = t /\ (Open(m)' <=> Open(m)) /\ Live(m)' = Live(m)
    BY <1>1, <1>2, <1>4 DEF AheadFits, Open, Live
  <1>6. AheadFits(t)'
    BY <1>1, <1>2, <1>3, <1>4, <1>5 DEF AheadFits
  <1>7. /\ job'[t].at = "prepare" /\ job'[t].current /\ job'[t].msg = m
        /\ job'[t].kind = IF bound[t] = None THEN "start" ELSE "again"
    BY <1>2 DEF Preparing, Job
  <1>8. AskedFits(t)'
    BY <1>7 DEF AskedFits
  <1>9. Open(m) => bound[t] = None
    BY <1>2, <1>4 DEF AheadFits
  <1>10. Open(m) => Live(m) = {}
    <2> SUFFICES ASSUME Open(m), NEW c \in Live(m)
                 PROVE  FALSE
      OBVIOUS
    <2>1. c \in DOMAIN outbox \/ m \in DOMAIN outbox
      BY <1>4, <1>5 DEF MessageFits
    <2>2. m \notin DOMAIN outbox
      BY <1>2, <1>4, <1>9 DEF AheadFits
    <2>3. IsCreate(c) /\ made[c] = m
      BY DEF Live, IsCreate, ConversationInv, OutboxInv, BoxInv, PastOK
    <2>4. outbox[c].tab = t
      BY <1>4, <1>5, <2>1, <2>2, <2>3 DEF BoxOwned, CreateOf
    <2> QED BY <1>2, <1>4, <1>9, <2>1, <2>2, <2>3, <2>4 DEF PendingFits
  <1>11. MessageOfJobFits(t)'
    BY <1>1, <1>2, <1>3, <1>5, <1>7, <1>9, <1>10 DEF MessageOfJobFits
  <1> QED BY <1>1, <1>2, <1>6, <1>8, <1>11, TabSteps

LEMMA SyncConverse ==
    ASSUME ConversationInv, OutboxInv', NEW t \in Tabs, Sync(t)
    PROVE  ConversationInv'
  <1>1. UNCHANGED <<outbox, bound, pending, job, receipts, origin, made, refused>> /\ bound[t] # None
    BY DEF Sync, outboxStore, outboxHost, outboxPast
  <1>2. \A u \in Tabs \ {t} : starting'[u] = starting[u]
    BY DEF Sync, ConversationInv, OutboxInv, OutboxTypeOK
  <1>3. \/ starting'[t] = starting[t]
        \/ starting'[t] = None /\ starting[t] # None /\ starting[t].msg \in Prompted(bound[t])
    BY DEF Sync, ConversationInv, OutboxInv, OutboxTypeOK
  <1>4. Prompted(bound[t]) \subseteq DOMAIN receipts
    <2> SUFFICES ASSUME NEW m \in Prompted(bound[t])
                 PROVE  m \in DOMAIN receipts
      OBVIOUS
    <2> PICK i \in DOMAIN prompts : prompts[i] = <<m, bound[t]>>
      BY DEF Prompted
    <2> QED BY DEF ConversationInv, OutboxInv, HostInv, PromptsHaveReceipts
  <1>5. \/ starting'[t] = starting[t]
        \/ starting'[t] = None /\ starting[t] # None /\ ~Open(starting[t].msg)
    BY <1>3, <1>4 DEF Open
  <1>6. AheadFits(t) /\ AskedFits(t) /\ MessageOfJobFits(t)
    BY DEF ConversationInv, TabFits
  <1>7. \A m : (Open(m)' <=> Open(m)) /\ Live(m)' = Live(m)
    BY <1>1 DEF Open, Live
  <1>8. AheadFits(t)'
    BY <1>1, <1>5, <1>6, <1>7 DEF AheadFits
  <1>9. AskedFits(t)'
    <2>1. \A r : RequestOwned(r, t)' <=> RequestOwned(r, t)
      BY <1>1, <1>7 DEF RequestOwned, CreateOf
    <2> QED BY <1>1, <1>5, <1>6, <1>7, <2>1 DEF AskedFits
  <1>10. MessageOfJobFits(t)'
    BY <1>1, <1>5, <1>6, <1>7 DEF MessageOfJobFits
  <1> QED BY <1>1, <1>2, <1>8, <1>9, <1>10, TabSteps

LEMMA SubmitConverse ==
    ASSUME ConversationInv, OutboxInv', NEW t \in Tabs, NEW m \in Messages, Submit(t, m)
    PROVE  ConversationInv'
  <1>1. /\ UNCHANGED <<outbox, bound, pending, receipts, made, refused>>
        /\ m \notin DOMAIN origin /\ pending[t] = None
    BY DEF Submit, outboxStore, outboxHost
  <1>2. /\ starting'[t] = [msg |-> m, failed |-> FALSE]
        /\ job'[t] = Preparing(IF bound[t] = None THEN "start" ELSE "dispatch", m)
        /\ \A u \in Tabs \ {t} : starting'[u] = starting[u] /\ job'[u] = job[u]
    BY DEF Submit, ConversationInv, OutboxInv, OutboxTypeOK
  <1>3. /\ DOMAIN origin' = DOMAIN origin \cup {m} /\ origin'[m].tab = t /\ origin'[m].session = bound[t]
        /\ \A n \in DOMAIN origin : origin'[n] = origin[n]
    BY <1>1 DEF Submit, Put
  <1>4. HistoryOK /\ ReceiptsMatch /\ BoxOwned /\ PendingFits(t) /\ \A n \in DOMAIN origin : MessageFits(n)
    BY DEF ConversationInv, TabFits
  <1>5. HistoryOK' /\ ReceiptsMatch'
    BY <1>1, <1>3, <1>4 DEF HistoryOK, ReceiptsMatch
  <1>6. BoxOwned'
    BY <1>1, <1>3, <1>4 DEF BoxOwned, CreateOf, HistoryOK
  <1>7. \A u \in Tabs \ {t} : TabFits(u)'
    <2>1. \A u \in Tabs \ {t} : Elsewhere(u)
      BY <1>1, <1>2, <1>3, <1>4 DEF Elsewhere, BoxOwned, HistoryOK, IsCreate
    <2> QED BY <1>6, <2>1, ElsewhereFits
  <1>8. starting'[t] # None /\ starting'[t].msg = m
    <2>1. [msg |-> m, failed |-> FALSE] \in Starting
      BY DEF Starting
    <2>2. [msg |-> m, failed |-> FALSE] # None
      BY <2>1, JobsAssumption
    <2> QED BY <1>2, <2>2
  <1>9. m \notin DOMAIN outbox /\ Live(m)' = {}
    <2>1. ~IsCreate(m)
      BY NoneIsNothing DEF IsCreate
    <2> QED BY <1>1, <1>4, <2>1 DEF BoxOwned, Live, HistoryOK
  <1>10. Open(m)' => bound[t] = None
    BY <1>3 DEF Open
  <1>11. PendingFits(t)'
    BY <1>1, <1>4 DEF PendingFits
  <1>12. AheadFits(t)'
    BY <1>1, <1>3, <1>4, <1>8, <1>9, <1>10 DEF AheadFits, PendingFits
  <1>13. /\ job'[t].at = "prepare" /\ job'[t].current /\ job'[t].msg = m
         /\ job'[t].kind = IF bound[t] = None THEN "start" ELSE "dispatch"
    BY <1>2 DEF Preparing, Job
  <1>14. AskedFits(t)'
    BY <1>13 DEF AskedFits
  <1>15. MessageOfJobFits(t)'
    BY <1>1, <1>3, <1>8, <1>9, <1>10, <1>13 DEF MessageOfJobFits
  <1>16. \A n \in DOMAIN origin' : MessageFits(n)'
    <2>1. MessageFits(m)'
      BY <1>1, <1>9 DEF MessageFits
    <2>2. ASSUME NEW n \in DOMAIN origin
          PROVE  MessageFits(n)'
      <3>1. MessageFits(n) /\ Live(n)' = Live(n) /\ (Open(n)' <=> Open(n))
        BY <1>1, <1>3, <1>4 DEF Live, Open
      <3> QED BY <1>1, <3>1 DEF MessageFits
    <2> QED BY <1>3, <2>1, <2>2
  <1> QED BY <1>5, <1>6, <1>7, <1>11, <1>12, <1>14, <1>15, <1>16 DEF ConversationInv, TabFits

\* What a request that leaves changes: its entry, and the tab's own state.
Left(t, kind, msg, r, followup) ==
    /\ DOMAIN outbox' = DOMAIN outbox \cup {r.id}
    /\ \A id \in DOMAIN outbox : id # r.id => outbox'[id] = outbox[id]
    /\ outbox'[r.id].target = r.target /\ outbox'[r.id].tab = t
    /\ followup = None => outbox'[r.id].followup = Followup(outbox, r.id)
    /\ followup # None => outbox'[r.id].followup = followup
    /\ pending'[t] = r /\ r # None /\ job'[t] = Job(kind, msg, r, "asking")
    /\ \A u \in Tabs \ {t} : pending'[u] = pending[u] /\ job'[u] = job[u]

LEMMA AsksWhat ==
    ASSUME OutboxInv, NEW t \in Tabs, NEW kind, NEW msg, NEW r \in Requests, NEW followup,
           Asks(t, kind, msg, r, followup)
    PROVE  Left(t, kind, msg, r, followup)
  <1> DEFINE entry == Entry(r.target, t, IF followup = None THEN Followup(outbox, r.id) ELSE followup)
  <1>1. SavedAs(outbox', outbox, r.id, entry)
    BY SavedIs DEF Asks
  <1>2. /\ entry.target = r.target /\ entry.tab = t
        /\ entry.followup = IF followup = None THEN Followup(outbox, r.id) ELSE followup
    BY DEF Entry
  <1>3. r # None
    BY JobsAssumption
  <1> HIDE DEF entry
  <1>4. /\ pending'[t] = r /\ job'[t] = Job(kind, msg, r, "asking")
        /\ \A u \in Tabs \ {t} : pending'[u] = pending[u] /\ job'[u] = job[u]
    BY DEF Asks, OutboxInv, OutboxTypeOK
  <1> QED BY <1>1, <1>2, <1>3, <1>4 DEF SavedAs, Left

LEMMA RetryConverse ==
    ASSUME ConversationInv, OutboxInv', NEW t \in Tabs, Retry(t)
    PROVE  ConversationInv'
  <1> PICK r : r = pending[t]
    OBVIOUS
  <1>1. r \in Requests /\ Asks(t, "retry", None, r, None)
    BY DEF Retry, ConversationInv, OutboxInv, OutboxTypeOK
  <1>2. UNCHANGED <<bound, receipts, origin, made, refused>>
    BY DEF Retry, outboxHost, outboxPast
  <1>3. /\ DOMAIN outbox' = DOMAIN outbox \cup {r.id}
        /\ \A id \in DOMAIN outbox : id # r.id => outbox'[id] = outbox[id]
        /\ outbox'[r.id].target = r.target /\ outbox'[r.id].tab = t
        /\ outbox'[r.id].followup = Followup(outbox, r.id)
        /\ pending'[t] = r /\ r # None /\ job'[t] = Job("retry", None, r, "asking")
        /\ \A u \in Tabs \ {t} : pending'[u] = pending[u] /\ job'[u] = job[u]
    <2>1. Left(t, "retry", None, r, None)
      BY <1>1, AsksWhat DEF ConversationInv
    <2> QED BY <2>1 DEF Left
  <1>4. /\ HistoryOK /\ ReceiptsMatch /\ BoxOwned /\ PendingFits(t) /\ AheadFits(t)
        /\ \A m \in DOMAIN origin : MessageFits(m)
    BY DEF ConversationInv, TabFits
  <1>5. RequestOwned(r, t) /\ (IsCreate(r.id) => bound[t] = None)
    BY <1>3, <1>4 DEF PendingFits, Retry
  <1>6. HistoryOK' /\ ReceiptsMatch'
    BY <1>2, <1>4 DEF HistoryOK, ReceiptsMatch
  <1>7. BoxOwned'
    BY <1>2, <1>3, <1>4, <1>5 DEF BoxOwned, CreateOf, RequestOwned
  <1>8. \A u \in Tabs \ {t} : starting'[u] = starting[u]
    BY DEF Retry, ConversationInv, OutboxInv, OutboxTypeOK
  <1>9. \A m \in Messages : Open(m)' =>
            /\ m \in DOMAIN outbox <=> m \in DOMAIN outbox'
            /\ m \in DOMAIN outbox => outbox'[m].target = outbox[m].target
    <2> SUFFICES ASSUME NEW m \in Messages, Open(m)
                 PROVE  /\ m \in DOMAIN outbox <=> m \in DOMAIN outbox'
                        /\ m \in DOMAIN outbox => outbox'[m].target = outbox[m].target
      BY <1>2 DEF Open
    <2>1. CASE m = r.id
      <3>1. ~IsCreate(m)
        BY NoneIsNothing DEF IsCreate
      <3> QED BY <1>3, <1>5, <2>1, <3>1 DEF RequestOwned
    <2>2. CASE m # r.id
      BY <1>3, <2>2
    <2> QED BY <2>1, <2>2
  <1>10. \A u \in Tabs \ {t} : TabFits(u)'
    <2>1. \A u \in Tabs \ {t} : Elsewhere(u)
      BY <1>2, <1>3, <1>8, <1>9 DEF Elsewhere
    <2> QED BY <1>7, <2>1, ElsewhereFits
  <1>11. \/ starting'[t] = None /\ starting[t] = None
         \/ starting'[t] # None /\ starting[t] # None /\ starting'[t].msg = starting[t].msg
    <2>1. starting[t] \in Starting \cup {None}
          /\ starting'[t] = IF starting[t] = None THEN None ELSE [starting[t] EXCEPT !.failed = FALSE]
      BY DEF Retry, ConversationInv, OutboxInv, OutboxTypeOK
    <2>2. CASE starting[t] = None
      BY <2>1, <2>2
    <2>3. CASE starting[t] # None
      <3>1. starting'[t] \in Starting /\ starting'[t].msg = starting[t].msg
        BY <2>1, <2>3 DEF Starting
      <3> QED BY <2>3, <3>1, JobsAssumption
    <2> QED BY <2>2, <2>3
  <1>12. \A m : Open(m)' <=> Open(m)
    BY <1>2 DEF Open
  <1>13. PendingFits(t)'
    <2>1. RequestOwned(r, t)'
      BY <1>2, <1>3, <1>5, <1>12 DEF RequestOwned, CreateOf
    <2> QED BY <1>2, <1>3, <1>5, <2>1 DEF PendingFits
  <1>14. AheadFits(t)'
    <2> SUFFICES ASSUME starting'[t] # None
                 PROVE  AheadFits(t)'
      BY DEF AheadFits
    <2> PICK m : m = starting[t].msg
      OBVIOUS
    <2>1. starting[t] # None /\ starting'[t].msg = m /\ m \in DOMAIN origin /\ origin[m].tab = t /\ m \in Messages
      BY <1>4, <1>11 DEF AheadFits, HistoryOK
    <2>2. ASSUME Open(m), bound[t] = None
          PROVE  /\ m \notin DOMAIN outbox'
                 /\ \A id \in DOMAIN outbox' : IsCreate(id) /\ outbox'[id].tab = t => made[id] = m
                 /\ IsCreate(r.id) => made[r.id] = m
      <3>1. /\ m \notin DOMAIN outbox
            /\ \A id \in DOMAIN outbox : IsCreate(id) /\ outbox[id].tab = t => made[id] = m
            /\ IsCreate(r.id) => made[r.id] = m
        BY <1>3, <1>4, <2>1, <2>2 DEF AheadFits
      <3> QED BY <1>3, <1>9, <1>12, <2>1, <2>2, <3>1
    <2>3. ASSUME Open(m), bound[t] # None
          PROVE  m \in DOMAIN outbox' /\ outbox'[m].target = bound[t]
      BY <1>4, <1>9, <1>12, <2>1, <2>3 DEF AheadFits
    <2> QED BY <1>2, <1>3, <1>12, <2>1, <2>2, <2>3 DEF AheadFits
  <1>15. /\ job'[t].kind = "retry" /\ job'[t].msg = None /\ job'[t].at = "asking" /\ job'[t].current
         /\ job'[t].request = r
    BY <1>3 DEF Job
  <1>16. AskedFits(t)'
    <2>1. RequestOwned(r, t)'
      BY <1>2, <1>3, <1>5, <1>12 DEF RequestOwned, CreateOf
    <2>2. IsCreate(r.id) => bound'[t] = None
            /\ (starting'[t] # None /\ Open(starting'[t].msg) => made'[r.id] = starting'[t].msg)
      BY <1>2, <1>3, <1>4, <1>5, <1>11 DEF AheadFits
    <2>3. \A m : Open(m)' <=> Open(m)
      BY <1>12
    <2> QED BY <1>2, <1>15, <2>1, <2>2, <2>3 DEF AskedFits
  <1>17. MessageOfJobFits(t)'
    BY <1>15 DEF MessageOfJobFits
  <1>18. \A m \in DOMAIN origin' : MessageFits(m)'
    <2>1. ASSUME NEW m \in DOMAIN origin, Open(m)'
          PROVE  /\ \A c \in Live(m) : c \in DOMAIN outbox /\ outbox[c].followup = m =>
                       c \in DOMAIN outbox' /\ outbox'[c].followup = m
                 /\ m \in DOMAIN outbox => m \in DOMAIN outbox'
                 /\ m \in DOMAIN outbox' => outbox'[m].target \in Live(m) \cap DOMAIN receipts'
      <3>1. m \in Messages /\ Open(m)
        BY <1>4, <1>12, <2>1 DEF HistoryOK
      <3>2. m \in DOMAIN outbox => outbox[m].target \in Live(m) \cap DOMAIN receipts
        BY <1>4, <3>1 DEF MessageFits
      <3> QED BY <1>2, <1>3, <1>9, <2>1, <3>1, <3>2 DEF Followup
    <2> QED BY <1>2, <2>1, MessagesKept
  <1> QED BY <1>6, <1>7, <1>10, <1>13, <1>14, <1>16, <1>17, <1>18 DEF ConversationInv, TabFits

LEMMA PreparedConverse ==
    ASSUME ConversationInv, OutboxInv', NEW t \in Tabs, Prepared(t)
    PROVE  ConversationInv'
  <1>1. UNCHANGED <<bound, starting, receipts, origin, refused>>
    BY DEF Prepared, outboxHost
  <1>2. /\ HistoryOK /\ ReceiptsMatch /\ BoxOwned /\ PendingFits(t) /\ AheadFits(t) /\ MessageOfJobFits(t)
        /\ \A m \in DOMAIN origin : MessageFits(m)
    BY DEF ConversationInv, TabFits
  <1> PICK m : m = job[t].msg
    OBVIOUS
  <1>3. /\ job[t] # None /\ job[t].at = "prepare" /\ job[t].current /\ job[t] \in Jobs /\ JobFits(job[t], bound[t])
    BY DEF Prepared, ConversationInv, OutboxInv, OutboxTypeOK, JobInv, JobOK
  <1>4. m \in Messages /\ m # None /\ ~IsCreate(m) /\ job[t].kind \in {"start", "dispatch", "again"}
    BY <1>3, NoneIsNothing DEF JobFits, Jobs, IsCreate
  <1>5. m \in DOMAIN origin /\ origin[m].tab = t /\ (Open(m) => job[t].kind = "start" /\ Live(m) = {})
    BY <1>2, <1>3, <1>4 DEF MessageOfJobFits
  <1>6. CASE job[t].kind = "start"
    <2> PICK c \in Creates \ DOMAIN made : Asks(t, "start", m, Request(c, None), m) /\ made' = Put(made, c, m)
      BY <1>6 DEF Prepared
    <2> PICK r : r = Request(c, None)
      OBVIOUS
    <2>1. r \in Requests /\ r.id = c /\ IsCreate(c) /\ Asks(t, "start", m, r, m)
      BY RequestMade DEF Request, IsCreate
    <2>2. /\ DOMAIN outbox' = DOMAIN outbox \cup {c}
          /\ \A id \in DOMAIN outbox : id # c => outbox'[id] = outbox[id]
          /\ outbox'[c].tab = t /\ outbox'[c].followup = m
          /\ pending'[t] = r /\ r # None /\ job'[t] = Job("start", m, r, "asking")
          /\ \A u \in Tabs \ {t} : pending'[u] = pending[u] /\ job'[u] = job[u]
      <3>1. OutboxInv /\ m \in Messages \cup {None}
        BY <1>4 DEF ConversationInv
      <3>2. /\ DOMAIN outbox' = DOMAIN outbox \cup {r.id}
            /\ \A id \in DOMAIN outbox : id # r.id => outbox'[id] = outbox[id]
            /\ outbox'[r.id].tab = t /\ (m # None => outbox'[r.id].followup = m)
            /\ pending'[t] = r /\ r # None /\ job'[t] = Job("start", m, r, "asking")
            /\ \A u \in Tabs \ {t} : pending'[u] = pending[u] /\ job'[u] = job[u]
        <4>1. Left(t, "start", m, r, m)
          BY <2>1, <3>1, AsksWhat
        <4> QED BY <4>1 DEF Left
      <3> QED BY <1>4, <2>1, <3>2
    <2>3. /\ DOMAIN made' = DOMAIN made \cup {c} /\ made'[c] = m
          /\ \A d \in DOMAIN made : made'[d] = made[d]
      BY DEF Put
    <2>4. bound[t] = None /\ starting[t] # None /\ starting[t].msg = m
      BY <1>2, <1>3, <1>6 DEF MessageOfJobFits
    <2>5. c \notin refused /\ c \notin DOMAIN outbox
      BY <1>2, <2>1 DEF HistoryOK, BoxOwned, CreateOf
    <2>6. HistoryOK' /\ ReceiptsMatch'
      BY <1>1, <1>2, <1>5, <2>3 DEF HistoryOK, ReceiptsMatch
    <2>7. CreateOf(c, t)' /\ \A d, u : CreateOf(d, u) => CreateOf(d, u)'
      BY <1>1, <1>5, <2>3, <2>5 DEF CreateOf
    <2>8. BoxOwned'
      BY <1>1, <1>2, <2>1, <2>2, <2>7 DEF BoxOwned
    <2>9. \A u \in Tabs \ {t} : TabFits(u)'
      <3>1. \A u \in Tabs \ {t} : Elsewhere(u)
        <4>1. \A n \in Messages : n # c
          BY NoneIsNothing
        <4> QED BY <1>1, <1>5, <2>2, <2>3, <2>5, <4>1 DEF Elsewhere
      <3> QED BY <2>8, <3>1, ElsewhereFits
    <2>10. \A n : Open(n)' <=> Open(n)
      BY <1>1 DEF Open
    <2>11. RequestOwned(r, t)'
      BY <2>1, <2>7 DEF RequestOwned
    <2>12. PendingFits(t)'
      BY <1>1, <2>2, <2>4, <2>11 DEF PendingFits
    <2>13. AheadFits(t)'
      <3>1. (m \notin DOMAIN outbox' /\ (Open(m) => \A id \in DOMAIN outbox' : IsCreate(id) /\ outbox'[id].tab = t => made'[id] = m))
            \/ ~Open(m)
        <4> SUFFICES ASSUME Open(m)
                     PROVE  /\ m \notin DOMAIN outbox'
                            /\ \A id \in DOMAIN outbox' : IsCreate(id) /\ outbox'[id].tab = t => made'[id] = m
          OBVIOUS
        <4>1. /\ m \notin DOMAIN outbox
              /\ \A id \in DOMAIN outbox : IsCreate(id) /\ outbox[id].tab = t => made[id] = m
          BY <1>2, <2>4 DEF AheadFits
        <4>2. \A id \in DOMAIN outbox : IsCreate(id) => id \in DOMAIN made
          BY <1>2 DEF BoxOwned, CreateOf
        <4> QED BY <1>4, <2>1, <2>2, <2>3, <2>5, <4>1, <4>2
      <3> QED BY <1>1, <1>5, <2>1, <2>2, <2>3, <2>4, <2>10, <3>1 DEF AheadFits
    <2>14. /\ job'[t].kind = "start" /\ job'[t].msg = m /\ job'[t].at = "asking" /\ job'[t].current
           /\ job'[t].request = r
      BY <2>2 DEF Job
    <2>15. AskedFits(t)'
      BY <1>1, <2>1, <2>3, <2>4, <2>11, <2>14 DEF AskedFits
    <2>16. MessageOfJobFits(t)'
      BY <1>1, <1>5, <2>4, <2>14 DEF MessageOfJobFits
    <2>17. \A n \in DOMAIN origin' : MessageFits(n)'
      <3> SUFFICES ASSUME NEW n \in DOMAIN origin, Open(n)
                   PROVE  MessageFits(n)'
        BY <1>1, <2>10 DEF MessageFits
      <3>1. MessageFits(n)
        BY <1>2
      <3>2. n # c
        BY <1>2, NoneIsNothing DEF HistoryOK
      <3>3. CASE n = m
        <4>1. Live(n)' = {c} /\ n \notin DOMAIN outbox
          BY <1>1, <1>5, <2>3, <2>5, <3>1, <3>3 DEF Live, MessageFits
        <4> QED BY <2>2, <3>2, <3>3, <4>1 DEF MessageFits
      <3>4. CASE n # m
        <4>1. Live(n)' = Live(n) /\ c \notin Live(n)
          BY <1>1, <2>3, <3>4 DEF Live
        <4> QED BY <1>1, <2>2, <3>1, <3>2, <4>1 DEF MessageFits
      <3> QED BY <3>3, <3>4
    <2> QED BY <2>6, <2>8, <2>9, <2>12, <2>13, <2>15, <2>16, <2>17 DEF ConversationInv, TabFits
  <1>7. CASE job[t].kind # "start"
    <2> PICK r, kind : r = Request(m, bound[t]) /\ kind = job[t].kind
      OBVIOUS
    <2>1. bound[t] \in RemoteSessions /\ bound[t] # None /\ kind \in {"dispatch", "again"}
      BY <1>3, <1>4, <1>7 DEF JobFits, ConversationInv, OutboxInv, OutboxTypeOK
    <2>2. r \in Requests /\ r.id = m /\ r.target = bound[t] /\ Asks(t, kind, m, r, None) /\ UNCHANGED made
      BY <1>4, <1>7, <2>1, RequestMade DEF Prepared, Request
    <2>3. /\ DOMAIN outbox' = DOMAIN outbox \cup {m}
          /\ \A id \in DOMAIN outbox : id # m => outbox'[id] = outbox[id]
          /\ pending'[t] = r /\ r # None /\ job'[t] = Job(kind, m, r, "asking")
          /\ \A u \in Tabs \ {t} : pending'[u] = pending[u] /\ job'[u] = job[u]
      <3>1. OutboxInv /\ m \in Messages \cup {None} /\ kind \in {"start", "dispatch", "again", "retry"}
        BY <1>4, <2>1 DEF ConversationInv
      <3>2. /\ DOMAIN outbox' = DOMAIN outbox \cup {r.id}
            /\ \A id \in DOMAIN outbox : id # r.id => outbox'[id] = outbox[id]
            /\ pending'[t] = r /\ r # None /\ job'[t] = Job(kind, m, r, "asking")
            /\ \A u \in Tabs \ {t} : pending'[u] = pending[u] /\ job'[u] = job[u]
        <4>1. Left(t, kind, m, r, None)
          BY <2>2, <3>1, AsksWhat
        <4> QED BY <4>1 DEF Left
      <3> QED BY <2>2, <3>2
    <2>4. ~Open(m) /\ \A n : Open(n)' <=> Open(n)
      BY <1>1, <1>5, <1>7 DEF Open
    <2>5. HistoryOK' /\ ReceiptsMatch'
      BY <1>1, <1>2, <2>2 DEF HistoryOK, ReceiptsMatch
    <2>6. BoxOwned'
      BY <1>1, <1>2, <1>4, <1>5, <2>2, <2>3 DEF BoxOwned, CreateOf
    <2>7. \A u \in Tabs \ {t} : TabFits(u)'
      <3>1. \A u \in Tabs \ {t} : Elsewhere(u)
        BY <1>1, <1>4, <2>2, <2>3, <2>4 DEF Elsewhere
      <3> QED BY <2>6, <3>1, ElsewhereFits
    <2>8. RequestOwned(r, t)'
      BY <1>1, <1>4, <1>5, <2>2, <2>4 DEF RequestOwned
    <2>9. PendingFits(t)'
      BY <1>1, <1>4, <2>1, <2>2, <2>3, <2>8 DEF PendingFits
    <2>10. AheadFits(t)'
      BY <1>1, <1>2, <2>1, <2>2, <2>3, <2>4 DEF AheadFits
    <2>11. /\ job'[t].kind = kind /\ job'[t].msg = m /\ job'[t].at = "asking" /\ job'[t].current
           /\ job'[t].request = r
      BY <2>3 DEF Job
    <2>12. AskedFits(t)'
      BY <1>4, <2>1, <2>2, <2>8, <2>11 DEF AskedFits
    <2>13. MessageOfJobFits(t)'
      BY <1>1, <1>5, <2>1, <2>4, <2>11 DEF MessageOfJobFits
    <2>14. \A n \in DOMAIN origin' : MessageFits(n)'
      <3> SUFFICES ASSUME NEW n \in DOMAIN origin, Open(n)
                   PROVE  MessageFits(n)'
        BY <1>1, <2>4 DEF MessageFits
      <3>1. MessageFits(n) /\ n # m /\ Live(n)' = Live(n)
        BY <1>1, <1>2, <2>2, <2>4 DEF Live
      <3>2. m \notin Live(n)
        BY <1>4 DEF Live, ConversationInv, OutboxInv, BoxInv, PastOK, IsCreate
      <3> QED BY <1>1, <2>3, <3>1, <3>2 DEF MessageFits
    <2> QED BY <2>5, <2>6, <2>7, <2>9, <2>10, <2>12, <2>13, <2>14 DEF ConversationInv, TabFits
  <1> QED BY <1>6, <1>7

LEMMA ReadingIs ==
    ASSUME NEW box, BoxOK(box), NEW session, NEW t, NEW p \in PendingIn(box, session, t)
    PROVE  /\ p = None => Shown(box, session, t) = {}
           /\ p # None => p.id \in Shown(box, session, t) /\ p.target = box[p.id].target
  <1>1. \A id \in DOMAIN box : Request(id, box[id].target) # None
    <2> SUFFICES ASSUME NEW id \in DOMAIN box
                 PROVE  Request(id, box[id].target) \in Requests
      BY JobsAssumption
    <2>1. id \in Creates \cup Messages /\ box[id].target \in RemoteSessions \cup {None}
          /\ (box[id].target = None <=> id \in Creates)
      BY DEF BoxOK, Entries
    <2>2. CASE id \in Creates
      BY <2>1, <2>2, RequestMade
    <2>3. CASE id \notin Creates
      BY <2>1, <2>3, RequestMade
    <2> QED BY <2>2, <2>3
  <1>2. p = None => Shown(box, session, t) = {}
    BY <1>1 DEF PendingIn, Shown
  <1>3. ASSUME p # None
        PROVE  p.id \in Shown(box, session, t) /\ p.target = box[p.id].target
    <2> PICK id \in Shown(box, session, t) : p = Request(id, box[id].target)
      BY <1>3 DEF PendingIn
    <2> QED BY DEF Request
  <1> QED BY <1>2, <1>3

LEMMA FreshIs ==
    ASSUME OutboxInv', NEW t \in Tabs, pending'[t] \in PendingIn(outbox', bound'[t], t)
    PROVE  PendingFresh(t)'
  <1>1. BoxOK(outbox')
    BY DEF OutboxInv, BoxInv, BoxOK
  <1>2. /\ pending'[t] = None => Shown(outbox', bound'[t], t) = {}
        /\ pending'[t] # None => pending'[t].id \in Shown(outbox', bound'[t], t)
                                 /\ pending'[t].target = outbox'[pending'[t].id].target
    BY <1>1, ReadingIs
  <1> QED BY <1>2 DEF PendingFresh, Shown

\* An answer that empties an entry: the tab reads local storage again, or not.
LEMMA AnswerErases ==
    ASSUME ConversationInv, OutboxInv', NEW t \in Tabs, NEW id, job[t] # None, job[t].at # "prepare",
           id = job[t].request.id, outbox' = Cleared(outbox, id),
           UNCHANGED <<bound, receipts, origin, made>>, job' = [job EXCEPT ![t] = None],
           refused' = refused \/ refused' = refused \cup {id}, ~Open(id)',
           IsCreate(id) => job[t].at = "no" /\ id \in refused',
           \A u \in Tabs \ {t} : pending'[u] = pending[u],
           pending'[t] = pending[t] \/ PendingFresh(t)',
           IsCreate(id) => PendingFresh(t)',
           Marked(t), \A u \in Tabs \ {t} : starting'[u] = starting[u]
    PROVE  ConversationInv'
  <1>1. /\ HistoryOK /\ ReceiptsMatch /\ BoxOwned /\ PendingFits(t) /\ AheadFits(t) /\ AskedFits(t)
        /\ \A m \in DOMAIN origin : MessageFits(m)
    BY DEF ConversationInv, TabFits
  <1>2. DOMAIN outbox' = DOMAIN outbox \ {id} /\ \A i \in DOMAIN outbox' : outbox'[i] = outbox[i]
    BY DEF Cleared
  <1>3. IsCreate(id) => id \in DOMAIN made /\ origin[made[id]].tab = t
    BY <1>1 DEF AskedFits, RequestOwned, CreateOf
  <1>4. refused \subseteq refused' /\ refused' \subseteq refused \cup {id}
    OBVIOUS
  <1>5. HistoryOK' /\ ReceiptsMatch'
    BY <1>1, <1>3, <1>4 DEF HistoryOK, ReceiptsMatch, IsCreate
  <1>6. BoxOwned'
    BY <1>1, <1>2, <1>4 DEF BoxOwned, CreateOf
  <1>7. \A m : Open(m)' => Open(m) /\ m # id
    BY <1>4 DEF Open
  <1>8. job'[t] = None /\ \A u \in Tabs \ {t} : job'[u] = job[u]
    BY DEF ConversationInv, OutboxInv, OutboxTypeOK
  <1>9. id \in (refused' \ refused) \cap DOMAIN made => IsCreate(id)
    BY DEF ConversationInv, OutboxInv, BoxInv, PastOK, IsCreate
  <1>10. \A u \in Tabs \ {t} : TabFits(u)'
    <2>1. \A u \in Tabs \ {t} : Elsewhere(u)
      BY <1>2, <1>3, <1>4, <1>7, <1>8, <1>9 DEF Elsewhere
    <2> QED BY <1>6, <2>1, ElsewhereFits
  <1>11. AskedFits(t)' /\ MessageOfJobFits(t)'
    BY <1>8 DEF AskedFits, MessageOfJobFits
  <1>12. PendingFits(t)'
    <2>1. CASE PendingFresh(t)'
      BY <1>6, <2>1 DEF PendingFits, PendingFresh, RequestOwned, BoxOwned
    <2>2. CASE ~PendingFresh(t)'
      <3>1. ~IsCreate(id) /\ pending'[t] = pending[t]
        BY <2>2
      <3>2. \A r : RequestOwned(r, t) => RequestOwned(r, t)'
        BY <1>1, <1>2, <1>4, <1>7, <1>9, <3>1 DEF RequestOwned, CreateOf
      <3> QED BY <1>1, <1>2, <3>1, <3>2 DEF PendingFits
    <2> QED BY <2>1, <2>2
  <1>13. AheadFits(t)'
    <2> SUFFICES ASSUME starting'[t] # None
                 PROVE  AheadFits(t)'
      BY DEF AheadFits
    <2> PICK m : m = starting'[t].msg
      OBVIOUS
    <2>1. m \in DOMAIN origin /\ origin[m].tab = t /\ m \in Messages
          /\ (Open(m) => starting[t] # None /\ starting[t].msg = m)
      BY <1>1 DEF AheadFits, Marked, HistoryOK
    <2>2. ASSUME Open(m)', bound[t] = None
          PROVE  /\ m \notin DOMAIN outbox'
                 /\ \A i \in DOMAIN outbox' : IsCreate(i) /\ outbox'[i].tab = t => made'[i] = m
                 /\ pending'[t] # None /\ IsCreate(pending'[t].id) => made'[pending'[t].id] = m
      <3>1. /\ m \notin DOMAIN outbox
            /\ \A i \in DOMAIN outbox : IsCreate(i) /\ outbox[i].tab = t => made[i] = m
            /\ pending[t] # None /\ IsCreate(pending[t].id) => made[pending[t].id] = m
        BY <1>1, <1>7, <2>1, <2>2 DEF AheadFits
      <3>2. \A i \in DOMAIN outbox' : IsCreate(i) /\ outbox'[i].tab = t => made'[i] = m
        BY <1>2, <3>1
      <3> QED BY <1>2, <3>1, <3>2 DEF PendingFresh
    <2>3. ASSUME Open(m)', bound[t] # None
          PROVE  m \in DOMAIN outbox' /\ outbox'[m].target = bound[t] /\ pending'[t] # None
      <3>1. m \in DOMAIN outbox /\ outbox[m].target = bound[t] /\ pending[t] # None
        BY <1>1, <1>7, <2>1, <2>3 DEF AheadFits
      <3>2. m \in DOMAIN outbox' /\ outbox'[m].target = bound[t]
        BY <1>2, <1>7, <2>3, <3>1
      <3>3. ~IsCreate(m)
        BY <2>1, NoneIsNothing DEF IsCreate
      <3> QED BY <2>3, <3>1, <3>2, <3>3 DEF PendingFresh
    <2>4. origin' = origin /\ bound' = bound
      OBVIOUS
    <2> QED BY <2>1, <2>2, <2>3, <2>4 DEF AheadFits
  <1>14. \A m \in DOMAIN origin' : MessageFits(m)'
    <2> SUFFICES ASSUME NEW m \in DOMAIN origin, Open(m)'
                 PROVE  MessageFits(m)'
      BY DEF MessageFits
    <2>1. MessageFits(m) /\ Open(m) /\ m # id /\ Live(m)' = Live(m) \ refused'
      BY <1>1, <1>4, <1>7 DEF Live
    <2>2. \A c \in Live(m) : IsCreate(c)
      BY DEF Live, IsCreate, ConversationInv, OutboxInv, BoxInv, PastOK
    <2>3. \A c \in Live(m)' : c # id
      BY <2>1, <2>2
    <2>4. \A c \in Live(m)' : (c \in DOMAIN outbox' /\ outbox'[c].followup = m) \/ m \in DOMAIN outbox'
      BY <1>2, <2>1, <2>3 DEF MessageFits
    <2>5. m \in DOMAIN outbox' => outbox'[m].target \in Live(m)' \cap DOMAIN receipts
      <3> SUFFICES ASSUME m \in DOMAIN outbox
                   PROVE  outbox[m].target \in Live(m)' \cap DOMAIN receipts
        BY <1>2
      <3>1. outbox[m].target \in Live(m) \cap DOMAIN receipts
        BY <2>1 DEF MessageFits
      <3>2. IsCreate(id) => made[id] # m
        BY <1>1, <2>1 DEF AskedFits
      <3>3. outbox[m].target \notin refused'
        BY <1>4, <2>2, <3>1, <3>2 DEF Live
      <3> QED BY <2>1, <3>1, <3>3
    <2> QED BY <2>1, <2>4, <2>5 DEF MessageFits
  <1> QED BY <1>5, <1>6, <1>10, <1>11, <1>12, <1>13, <1>14 DEF ConversationInv, TabFits

LEMMA RefusalConverse ==
    ASSUME ConversationInv, OutboxInv', NEW t \in Tabs, RefusalArrives(t)
    PROVE  ConversationInv'
  <1> PICK id : id = job[t].request.id
    OBVIOUS
  <1>1. /\ job[t] # None /\ job[t].at = "no" /\ job' = [job EXCEPT ![t] = None] /\ Shows(t, job[t], TRUE)
        /\ UNCHANGED <<bound, receipts, origin, made>>
    BY DEF RefusalArrives, outboxHost
  <1>2. OutboxTypeOK /\ JobFits(job[t], bound[t])
    BY <1>1 DEF ConversationInv, OutboxInv, JobInv, JobOK
  <1>3. \/ UNCHANGED starting
        \/ /\ starting' = [starting EXCEPT ![t] = Failed(job[t].msg)] /\ job[t].msg # None
           /\ job[t].at # "prepare" => job[t].current \/ job[t].kind = "again"
    BY <1>1, <1>2, ShowsWhat, NoneIsNothing DEF JobFits
  <1>4. CASE job[t].current
    <2>1. outbox' = Cleared(outbox, id) /\ refused' = refused \cup {id}
          /\ \E p \in PendingIn(outbox', bound[t], t) : pending' = [pending EXCEPT ![t] = p]
      BY <1>4 DEF RefusalArrives
    <2>2. pending'[t] \in PendingIn(outbox', bound'[t], t) /\ \A u \in Tabs \ {t} : pending'[u] = pending[u]
      BY <1>1, <1>2, <2>1 DEF OutboxTypeOK
    <2>3. PendingFresh(t)'
      BY <2>2, FreshIs
    <2>4. ~Open(id)'
      BY <2>1 DEF Open
    <2>5. Marked(t) /\ \A u \in Tabs \ {t} : starting'[u] = starting[u]
      BY <1>1, <1>3, MarkedIs
    <2> QED BY <1>1, <2>1, <2>2, <2>3, <2>4, <2>5, AnswerErases
  <1>5. CASE ~job[t].current
    <2>1. UNCHANGED <<outbox, pending, refused>>
      BY <1>5 DEF RefusalArrives
    <2> QED BY <1>1, <1>3, <2>1, JobEnds
  <1> QED BY <1>4, <1>5

LEMMA SendReceiptConverse ==
    ASSUME ConversationInv, OutboxInv', NEW t \in Tabs, SendReceipt(t)
    PROVE  ConversationInv'
  <1> PICK id : id = job[t].request.id
    OBVIOUS
  <1>1. /\ job[t] # None /\ job[t].at = "ok" /\ ~IsCreate(id) /\ job' = [job EXCEPT ![t] = None]
        /\ outbox' = Cleared(outbox, id) /\ UNCHANGED <<bound, receipts, origin, made, starting, refused>>
    BY DEF SendReceipt, outboxHost, outboxPast
  <1>2. OutboxTypeOK /\ id \in DOMAIN receipts
    BY <1>1 DEF ConversationInv, OutboxInv, JobInv, ReceiptIsTheHosts
  <1>3. ~Open(id)'
    BY <1>1, <1>2 DEF Open
  <1>4. /\ \A u \in Tabs \ {t} : pending'[u] = pending[u]
        /\ pending'[t] = pending[t] \/ PendingFresh(t)'
    <2>1. CASE job[t].current
      <3>1. \E p \in PendingIn(outbox', bound[t], t) : pending' = [pending EXCEPT ![t] = p]
        BY <2>1 DEF SendReceipt
      <3>2. pending'[t] \in PendingIn(outbox', bound'[t], t) /\ \A u \in Tabs \ {t} : pending'[u] = pending[u]
        BY <1>1, <1>2, <3>1 DEF OutboxTypeOK
      <3> QED BY <3>2, FreshIs
    <2>2. CASE ~job[t].current
      BY <2>2 DEF SendReceipt
    <2> QED BY <2>1, <2>2
  <1>5. Marked(t) /\ \A u \in Tabs \ {t} : starting'[u] = starting[u]
    BY <1>1 DEF Marked
  <1> QED BY <1>1, <1>3, <1>4, <1>5, AnswerErases

\* Another conversation in a tab: what it awaited is late, every tab reads
\* local storage again.
LEMMA SwitchConverse ==
    ASSUME ConversationInv, OutboxInv', NEW t \in Tabs, NEW s \in RemoteSessions \cup {None}, Switch(t, s)
    PROVE  ConversationInv'
  <1>1. UNCHANGED <<outbox, receipts, origin, made, refused>>
    BY DEF Switch, outboxHost, outboxPast
  <1>2. /\ bound'[t] = s /\ starting'[t] = None /\ job'[t] = Late(job[t])
        /\ \A u \in Tabs \ {t} : bound'[u] = bound[u] /\ starting'[u] = starting[u] /\ job'[u] = job[u]
    BY DEF Switch, ConversationInv, OutboxInv, OutboxTypeOK
  <1>3. \A u \in Tabs : PendingFresh(u)'
    <2>1. ASSUME NEW u \in Tabs
          PROVE  pending'[u] \in PendingIn(outbox', bound'[u], u)
      BY <1>1 DEF Switch, Readings
    <2> QED BY <2>1, FreshIs
  <1>4. HistoryOK' /\ ReceiptsMatch' /\ BoxOwned'
    BY <1>1 DEF ConversationInv, HistoryOK, ReceiptsMatch, BoxOwned, CreateOf
  <1>5. \A u \in Tabs \ {t} : TabFits(u)'
    <2>1. \A u \in Tabs \ {t} : Elsewhere(u)
      BY <1>1, <1>2, <1>3 DEF Elsewhere
    <2> QED BY <1>4, <2>1, ElsewhereFits
  <1>6. PendingFits(t)'
    BY <1>3, <1>4 DEF PendingFits, PendingFresh, RequestOwned, BoxOwned
  <1>7. AheadFits(t)'
    BY <1>2 DEF AheadFits
  <1> PICK k : k = Late(job[t])
    OBVIOUS
  <1>8. k # None =>
          /\ job[t] # None /\ ~k.current /\ k.kind = job[t].kind /\ k.msg = job[t].msg /\ k.at = job[t].at
          /\ k.request = job[t].request /\ (k.at = "prepare" => k.kind = "again")
    BY DEF Late, ConversationInv, OutboxInv, OutboxTypeOK, Jobs
  <1>9. AskedFits(t) /\ MessageOfJobFits(t)
    BY DEF ConversationInv, TabFits
  <1>10. \A n : (Open(n)' <=> Open(n)) /\ Live(n)' = Live(n)
    BY <1>1 DEF Open, Live
  <1>11. AskedFits(t)'
    <2>1. \A r : RequestOwned(r, t)' <=> RequestOwned(r, t)
      BY <1>1, <1>10 DEF RequestOwned, CreateOf
    <2>2. job'[t] = k
      BY <1>2
    <2> QED BY <1>1, <1>8, <1>9, <1>10, <2>1, <2>2 DEF AskedFits
  <1>12. MessageOfJobFits(t)'
    BY <1>1, <1>2, <1>8, <1>9, <1>10 DEF MessageOfJobFits
  <1>13. \A m \in DOMAIN origin' : MessageFits(m)'
    BY <1>1, <1>10 DEF ConversationInv, MessageFits
  <1> QED BY <1>4, <1>5, <1>6, <1>7, <1>11, <1>12, <1>13 DEF ConversationInv, TabFits

\* A tab that starts again shows nothing ahead of the host and awaits nothing.
LEMMA RestartedConverse ==
    ASSUME ConversationInv, OutboxInv', NEW box, Restarted(box), BoxOwned',
           \A m \in DOMAIN origin' : MessageFits(m)'
    PROVE  ConversationInv'
  <1>1. /\ UNCHANGED <<bound, receipts, origin, made, refused>> /\ outbox' = box
        /\ \A u \in Tabs : starting'[u] = None /\ job'[u] = None
                           /\ pending'[u] \in PendingIn(outbox', bound'[u], u)
    BY DEF Restarted, Readings, outboxHost, outboxPast
  <1>2. HistoryOK' /\ ReceiptsMatch'
    BY <1>1 DEF ConversationInv, HistoryOK, ReceiptsMatch
  <1>3. ASSUME NEW u \in Tabs
        PROVE  TabFits(u)'
    <2>1. PendingFresh(u)'
      BY <1>1, FreshIs
    <2>2. PendingFits(u)'
      BY <2>1 DEF PendingFits, PendingFresh, RequestOwned, BoxOwned
    <2>3. AheadFits(u)' /\ AskedFits(u)' /\ MessageOfJobFits(u)'
      BY <1>1 DEF AheadFits, AskedFits, MessageOfJobFits
    <2> QED BY <2>2, <2>3 DEF TabFits
  <1> QED BY <1>2, <1>3 DEF ConversationInv

\* Local storage after the writes for the receipt of the create s: the message
\* the create was made for stands under its own id, with s as its target.
BoxWritten(box, s) ==
    /\ \A id \in DOMAIN box : IsCreate(id) => id \in DOMAIN outbox /\ box[id] = outbox[id]
    /\ \A m \in Messages \cap DOMAIN outbox : Open(m) => m \in DOMAIN box /\ box[m].target = outbox[m].target
    /\ \A m \in Messages \cap DOMAIN box :
           m \in DOMAIN origin /\ (m \notin DOMAIN outbox => m = made[s] /\ box[m].target = s)
    /\ \A m \in Messages : s \in DOMAIN outbox /\ outbox[s].followup = m => m \in DOMAIN box
    /\ DOMAIN outbox \ {s} \subseteq DOMAIN box

LEMMA WrittenIs ==
    ASSUME ConversationInv, NEW t \in Tabs, NEW s \in Creates, CreateOf(s, t)
    PROVE  \A n \in {1, 2} : BoxWritten(ReceiptWrites(s, t)[n], s)
  <1> PICK next : next = Followup(outbox, s)
    OBVIOUS
  <1> DEFINE kept == IF next = None THEN outbox ELSE Saved(outbox, Request(next, s), t, None)
  <1>1. ReceiptWrites(s, t)[1] = kept /\ ReceiptWrites(s, t)[2] = Cleared(kept, s)
    BY DEF ReceiptWrites
  <1>2. /\ HistoryOK /\ BoxOwned /\ FollowupsMade(outbox) /\ BoxOK(outbox)
        /\ \A m \in DOMAIN origin : MessageFits(m)
    BY DEF ConversationInv, OutboxInv, BoxInv
  <1>3. next # None => next \in Messages /\ next = made[s] /\ next \in DOMAIN origin
    BY <1>2 DEF Followup, FollowupsMade, HistoryOK
  <1>4. \A m \in Messages : ~IsCreate(m) /\ m # s
    BY NoneIsNothing DEF IsCreate
  <1>5. \A m \in Messages \cap DOMAIN outbox : m \in DOMAIN origin
    BY <1>2, <1>4 DEF BoxOwned
  <1>6. BoxWritten(kept, s) /\ (s \in DOMAIN kept => s \in DOMAIN outbox)
    <2>1. CASE next = None
      <3>1. kept = outbox
        BY <2>1
      <3>2. \A m \in Messages : s \in DOMAIN outbox => outbox[s].followup # m
        BY <2>1, NoneIsNothing DEF Followup
      <3> HIDE DEF kept
      <3> QED BY <1>5, <3>1, <3>2 DEF BoxWritten
    <2>2. CASE next # None
      <3> PICK r : r = Request(next, s)
        OBVIOUS
      <3> PICK entry : entry = Entry(r.target, t, IF None = None THEN Followup(outbox, r.id) ELSE None)
        OBVIOUS
      <3>1. kept = Saved(outbox, r, t, None) /\ r.id = next /\ r.target = s /\ entry.target = s
        BY <2>2 DEF Request, Entry
      <3>2. SavedAs(Saved(outbox, r, t, None), outbox, r.id, entry)
        BY SavedIs
      <3> HIDE DEF kept
      <3>3. DOMAIN kept = DOMAIN outbox \cup {next} /\ kept[next].target = s
            /\ \A i \in DOMAIN outbox : i # next => kept[i] = outbox[i]
        BY <3>1, <3>2 DEF SavedAs
      <3>4. next \in DOMAIN outbox /\ Open(next) => outbox[next].target = s
        <4> SUFFICES ASSUME next \in DOMAIN outbox, Open(next)
                     PROVE  outbox[next].target = s
          OBVIOUS
        <4>1. s \in Live(next)
          BY <1>3, <2>2 DEF Live, CreateOf
        <4>2. MessageFits(next)
          BY <1>2, <1>3, <2>2
        <4> QED BY <4>1, <4>2 DEF MessageFits
      <3>5. \A m \in Messages : s \in DOMAIN outbox /\ outbox[s].followup = m => m = next
        BY DEF Followup
      <3>6. next \in Messages /\ next = made[s] /\ next \in DOMAIN origin /\ next # s /\ ~IsCreate(next)
        BY <1>3, <1>4, <2>2
      <3>7. \A id \in DOMAIN kept : IsCreate(id) => id \in DOMAIN outbox /\ kept[id] = outbox[id]
        BY <3>3, <3>6
      <3>8. \A m \in Messages \cap DOMAIN outbox : Open(m) => m \in DOMAIN kept /\ kept[m].target = outbox[m].target
        BY <3>3, <3>4
      <3>9. \A m \in Messages \cap DOMAIN kept :
               m \in DOMAIN origin /\ (m \notin DOMAIN outbox => m = made[s] /\ kept[m].target = s)
        BY <1>5, <3>3, <3>6
      <3>10. s \in DOMAIN kept => s \in DOMAIN outbox
        BY <3>3, <3>6
      <3> QED BY <3>3, <3>5, <3>7, <3>8, <3>9, <3>10 DEF BoxWritten
    <2> QED BY <2>1, <2>2
  <1> HIDE DEF kept
  <1>7. BoxWritten(Cleared(kept, s), s)
    <2>1. DOMAIN Cleared(kept, s) = DOMAIN kept \ {s} /\ \A i \in DOMAIN kept \ {s} : Cleared(kept, s)[i] = kept[i]
      BY DEF Cleared
    <2> QED BY <1>4, <1>6, <2>1 DEF BoxWritten
  <1> QED BY <1>1, <1>6, <1>7

\* The writes for a receipt leave every entry with its tab and every message
\* with its create.
LEMMA WrittenFits ==
    ASSUME ConversationInv, NEW t \in Tabs, NEW s \in Creates, CreateOf(s, t), s \in DOMAIN receipts,
           UNCHANGED <<receipts, origin, made, refused>>, BoxWritten(outbox', s), OutboxInv'
    PROVE  BoxOwned' /\ \A m \in DOMAIN origin' : MessageFits(m)'
  <1>1. /\ HistoryOK /\ BoxOwned /\ \A m \in DOMAIN origin : MessageFits(m)
    BY DEF ConversationInv
  <1>2. BoxOwned'
    <2> SUFFICES ASSUME NEW id \in DOMAIN outbox'
                 PROVE  IF IsCreate(id) THEN id \in DOMAIN made \ refused /\ origin[made[id]].tab = outbox'[id].tab
                                        ELSE id \in DOMAIN origin
      BY DEF BoxOwned, CreateOf
    <2>1. id \in Creates \cup Messages
      BY DEF OutboxInv, BoxInv, BoxOK
    <2>2. CASE IsCreate(id)
      <3>1. id \in DOMAIN outbox /\ outbox'[id] = outbox[id]
        BY <2>2 DEF BoxWritten
      <3> QED BY <1>1, <2>2, <3>1 DEF BoxOwned, CreateOf
    <2>3. CASE ~IsCreate(id)
      BY <2>1, <2>3 DEF BoxWritten, IsCreate
    <2> QED BY <2>2, <2>3
  <1>3. ASSUME NEW m \in DOMAIN origin, Open(m)'
        PROVE  /\ \A c \in Live(m) : c \in DOMAIN outbox /\ outbox[c].followup = m =>
                      (c \in DOMAIN outbox' /\ outbox'[c].followup = m) \/ m \in DOMAIN outbox'
               /\ m \in DOMAIN outbox => m \in DOMAIN outbox'
               /\ m \in DOMAIN outbox' => outbox'[m].target \in Live(m) \cap DOMAIN receipts'
    <2>1. Open(m) /\ m \in Messages /\ MessageFits(m)
      BY <1>1, <1>3 DEF Open, HistoryOK
    <2>2. \A c \in Live(m) : IsCreate(c)
      BY DEF Live, IsCreate, ConversationInv, OutboxInv, BoxInv, PastOK
    <2>3. ASSUME NEW c \in Live(m), c \in DOMAIN outbox, outbox[c].followup = m
          PROVE  (c \in DOMAIN outbox' /\ outbox'[c].followup = m) \/ m \in DOMAIN outbox'
      BY <2>1, <2>2, <2>3 DEF BoxWritten
    <2>4. m \in DOMAIN outbox => m \in DOMAIN outbox' /\ outbox'[m].target = outbox[m].target
      BY <2>1 DEF BoxWritten
    <2>5. m \in DOMAIN outbox' => outbox'[m].target \in Live(m) \cap DOMAIN receipts
      <3>1. CASE m \in DOMAIN outbox
        BY <2>1, <2>4, <3>1 DEF MessageFits
      <3>2. CASE m \notin DOMAIN outbox /\ m \in DOMAIN outbox'
        <4>1. m = made[s] /\ outbox'[m].target = s
          BY <2>1, <3>2 DEF BoxWritten
        <4>2. s \in Live(m)
          BY <4>1 DEF Live, CreateOf
        <4> QED BY <4>1, <4>2
      <3> QED BY <3>1, <3>2
    <2> QED BY <2>3, <2>4, <2>5
  <1>4. \A m \in DOMAIN origin' : MessageFits(m)'
    BY <1>3, MessagesKept
  <1> QED BY <1>2, <1>4

LEMMA RestartsConverse ==
    ASSUME ConversationInv, OutboxInv', Restart \/ \E t \in Tabs : DiesDuringReceipt(t)
    PROVE  ConversationInv'
  <1>1. CASE Restart
    <2>1. Restarted(outbox) /\ UNCHANGED <<outbox, receipts, origin, made, refused>>
      BY <1>1 DEF Restart, Restarted, outboxHost, outboxPast
    <2>2. BoxOwned' /\ \A m \in DOMAIN origin' : MessageFits(m)'
      BY <2>1 DEF ConversationInv, BoxOwned, CreateOf, MessageFits, Open, Live
    <2> QED BY <2>1, <2>2, RestartedConverse
  <1>2. ASSUME NEW t \in Tabs, DiesDuringReceipt(t)
        PROVE  ConversationInv'
    <2> PICK s : s = job[t].request.id
      OBVIOUS
    <2> PICK box : box = ReceiptWrites(s, t)[1]
      OBVIOUS
    <2>1. job[t] # None /\ job[t].at = "ok" /\ s \in Creates /\ Restarted(box)
          /\ UNCHANGED <<receipts, origin, made, refused>> /\ outbox' = box
      BY <1>2 DEF DiesDuringReceipt, Restarted, IsCreate, outboxHost, outboxPast
    <2>2. CreateOf(s, t)
      BY <2>1 DEF ConversationInv, TabFits, AskedFits, RequestOwned, IsCreate
    <2>3. s \in DOMAIN receipts
      BY <2>1 DEF ConversationInv, OutboxInv, JobInv, ReceiptIsTheHosts
    <2>4. BoxWritten(outbox', s)
      BY <2>1, <2>2, WrittenIs
    <2>5. BoxOwned' /\ \A m \in DOMAIN origin' : MessageFits(m)'
      BY <2>1, <2>2, <2>3, <2>4, WrittenFits
    <2> QED BY <2>1, <2>5, RestartedConverse
  <1> QED BY <1>1, <1>2

\* The other tabs read local storage between the writes for a receipt.
LEMMA RereadIsFresh ==
    ASSUME ConversationInv, NEW t \in Tabs, NEW s \in Creates, CreateOf(s, t),
           UNCHANGED <<receipts, origin, made, refused>>, BoxWritten(outbox', s), OutboxInv',
           NEW box, BoxOK(box), BoxWritten(box, s), DOMAIN box \ {s} \subseteq DOMAIN outbox',
           NEW u \in Tabs \ {t}, pending'[u] \in PendingIn(box, bound'[u], u)
    PROVE  PendingFresh(u)'
  <1>1. /\ HistoryOK /\ BoxOwned /\ \A m \in DOMAIN origin : MessageFits(m)
    BY DEF ConversationInv
  <1>2. /\ pending'[u] = None => Shown(box, bound'[u], u) = {}
        /\ pending'[u] # None => pending'[u].id \in Shown(box, bound'[u], u)
                                 /\ pending'[u].target = box[pending'[u].id].target
    BY ReadingIs
  <1>3. s \in DOMAIN outbox => outbox[s].tab = t
    BY <1>1 DEF BoxOwned, CreateOf, IsCreate
  <1>4. \A id : Open(id)' <=> Open(id)
    BY DEF Open
  <1>5. DOMAIN outbox' \subseteq Creates \cup Messages /\ DOMAIN box \subseteq Creates \cup Messages
    BY DEF OutboxInv, BoxInv, BoxOK
  <1>6. \A id \in DOMAIN box : IsCreate(id) => id \in DOMAIN outbox /\ box[id] = outbox[id]
    BY DEF BoxWritten
  <1>7. \A id \in DOMAIN outbox' : IsCreate(id) => id \in DOMAIN outbox /\ outbox'[id] = outbox[id]
    BY DEF BoxWritten
  <1>8. \A id \in DOMAIN box \cap DOMAIN outbox' : ~IsCreate(id) /\ Open(id) => box[id].target = outbox'[id].target
    BY <1>5 DEF BoxWritten, IsCreate
  <1>9. ASSUME NEW id \in DOMAIN outbox', ~IsCreate(id), Open(id)
        PROVE  id \in DOMAIN box
    <2>1. id \in Messages
      BY <1>5, <1>9 DEF IsCreate
    <2>2. CASE id \in DOMAIN outbox
      BY <1>9, <2>1, <2>2 DEF BoxWritten
    <2>3. CASE id \notin DOMAIN outbox
      <3>1. id = made[s] /\ id \in DOMAIN origin
        BY <2>1, <2>3 DEF BoxWritten
      <3>2. s \in Live(id)
        BY <3>1 DEF Live, CreateOf
      <3>3. s \in DOMAIN outbox /\ outbox[s].followup = id
        BY <1>1, <1>9, <2>3, <3>1, <3>2 DEF MessageFits
      <3> QED BY <2>1, <3>3 DEF BoxWritten
    <2> QED BY <2>2, <2>3
  <1>10. CASE pending'[u] # None
    <2> PICK id : id = pending'[u].id
      OBVIOUS
    <2>1. id \in DOMAIN box /\ (IsCreate(id) => box[id].tab = u /\ bound'[u] = None) /\ pending'[u].target = box[id].target
      BY <1>2, <1>10 DEF Shown
    <2>2. id # s
      BY <1>3, <1>6, <2>1 DEF IsCreate
    <2>3. id \in DOMAIN outbox'
      BY <2>1, <2>2
    <2>4. IsCreate(id) => outbox'[id].tab = u /\ bound'[u] = None
      BY <1>6, <1>7, <2>1, <2>3
    <2>5. ~IsCreate(id) /\ Open(id) => outbox'[id].target = pending'[u].target
      BY <1>8, <2>1, <2>3
    <2> QED BY <1>4, <1>10, <2>3, <2>4, <2>5 DEF PendingFresh
  <1>11. CASE pending'[u] = None
    <2> SUFFICES ASSUME NEW id \in DOMAIN outbox'
                 PROVE  /\ bound'[u] = None /\ IsCreate(id) => outbox'[id].tab # u
                        /\ bound'[u] # None /\ ~IsCreate(id) /\ Open(id) => outbox'[id].target # bound'[u]
      BY <1>4, <1>11 DEF PendingFresh
    <2>1. Shown(box, bound'[u], u) = {}
      BY <1>2, <1>11
    <2>2. ASSUME bound'[u] = None, IsCreate(id)
          PROVE  outbox'[id].tab # u
      <3>1. id \in DOMAIN outbox /\ outbox'[id] = outbox[id]
        BY <1>7, <2>2
      <3>2. CASE id = s
        BY <1>3, <3>1, <3>2
      <3>3. CASE id # s
        <4>1. id \in DOMAIN box
          BY <3>1, <3>3 DEF BoxWritten
        <4> QED BY <1>6, <2>1, <2>2, <3>1, <4>1 DEF Shown
      <3> QED BY <3>2, <3>3
    <2>3. ASSUME bound'[u] # None, ~IsCreate(id), Open(id)
          PROVE  outbox'[id].target # bound'[u]
      BY <1>8, <1>9, <2>1, <2>3 DEF Shown
    <2> QED BY <2>2, <2>3
  <1> QED BY <1>10, <1>11

\* The save of a request for a message that stands in local storage already.
LEMMA SavedIsWritten ==
    ASSUME ConversationInv, NEW t \in Tabs, NEW s \in Creates, NEW box, BoxWritten(box, s),
           NEW r, r.id \in Messages, r.id \in DOMAIN origin,
           r.id \notin DOMAIN outbox => r.id = made[s] /\ r.target = s,
           r.id \in DOMAIN outbox /\ Open(r.id) => r.target = outbox[r.id].target
    PROVE  BoxWritten(Saved(box, r, t, None), s)
  <1> DEFINE new == Saved(box, r, t, None)
             entry == Entry(r.target, t, IF None = None THEN Followup(box, r.id) ELSE None)
  <1>1. SavedAs(new, box, r.id, entry) /\ entry.target = r.target
    BY SavedIs DEF Entry
  <1>2. ~IsCreate(r.id)
    BY NoneIsNothing DEF IsCreate
  <1> HIDE DEF new, entry
  <1>3. BoxWritten(new, s)
    BY <1>1, <1>2 DEF BoxWritten, SavedAs
  <1> QED BY <1>3 DEF new

LEMMA CreateReceiptConverse ==
    ASSUME ConversationInv, OutboxInv', NEW t \in Tabs, CreateReceipt(t)
    PROVE  ConversationInv'
  <1> PICK s, j, w1, w2 : s = job[t].request.id /\ j = job[t]
                          /\ w1 = ReceiptWrites(s, t)[1] /\ w2 = ReceiptWrites(s, t)[2]
    OBVIOUS
  <1>1. /\ j # None /\ j.at = "ok" /\ s \in Creates /\ IsCreate(s)
        /\ UNCHANGED <<starting, receipts, origin, made, refused>>
    BY DEF CreateReceipt, IsCreate, outboxHost, outboxPast
  <1>2. /\ HistoryOK /\ ReceiptsMatch /\ BoxOwned /\ PendingFits(t) /\ AheadFits(t) /\ AskedFits(t)
        /\ MessageOfJobFits(t) /\ \A m \in DOMAIN origin : MessageFits(m)
    BY DEF ConversationInv, TabFits
  <1>3. CreateOf(s, t) /\ j \in Jobs /\ j.kind \in {"start", "retry"} /\ (j.kind = "start" => made[s] = j.msg)
    BY <1>1, <1>2 DEF AskedFits, RequestOwned, ConversationInv, OutboxInv, OutboxTypeOK, Jobs
  <1>4. s \in DOMAIN receipts
    BY <1>1 DEF ConversationInv, OutboxInv, JobInv, ReceiptIsTheHosts
  <1>5. BoxWritten(w1, s) /\ BoxWritten(w2, s)
    <2>1. \A n \in {1, 2} : BoxWritten(ReceiptWrites(s, t)[n], s)
      BY <1>1, <1>3, WrittenIs
    <2>2. BoxWritten(ReceiptWrites(s, t)[1], s) /\ BoxWritten(ReceiptWrites(s, t)[2], s)
      BY <2>1
    <2> QED BY <2>2
  <1>6. BoxOK(w1) /\ BoxOK(w2) /\ DOMAIN w2 = DOMAIN w1 \ {s} /\ \A i \in DOMAIN w2 : w2[i] = w1[i]
    <2>1. BoxOK(w1) /\ BoxOK(w2)
      <3>1. BoxOK(outbox) /\ FollowupsMade(outbox)
        BY DEF ConversationInv, OutboxInv, BoxInv
      <3>2. BoxOK(ReceiptWrites(s, t)[1]) /\ BoxOK(ReceiptWrites(s, t)[2])
        BY <1>1, <3>1, WritesOK
      <3> QED BY <3>2
    <2>2. w2 = Cleared(w1, s)
      BY DEF ReceiptWrites
    <2> QED BY <2>1, <2>2 DEF Cleared
  <1>7. HistoryOK' /\ ReceiptsMatch'
    BY <1>1, <1>2 DEF HistoryOK, ReceiptsMatch
  <1>8. \A n : (Open(n)' <=> Open(n)) /\ Live(n)' = Live(n)
    BY <1>1 DEF Open, Live
  <1>9. ASSUME BoxWritten(outbox', s), DOMAIN w1 \ {s} \subseteq DOMAIN outbox',
               \A u \in Tabs \ {t} : bound'[u] = bound[u] /\ job'[u] = job[u],
               \/ UNCHANGED pending
               \/ \A u \in Tabs \ {t} : pending'[u] \in PendingIn(w1, bound'[u], u),
               TabFits(t)'
        PROVE  ConversationInv'
    <2>1. BoxOwned' /\ \A m \in DOMAIN origin' : MessageFits(m)'
      BY <1>1, <1>3, <1>4, <1>9, WrittenFits
    <2>2. ASSUME NEW u \in Tabs \ {t}
          PROVE  TabFits(u)'
      <3>1. pending'[u] = pending[u] \/ PendingFresh(u)'
        <4>1. CASE UNCHANGED pending
          BY <4>1
        <4>2. CASE pending'[u] \in PendingIn(w1, bound'[u], u)
          BY <1>1, <1>3, <1>5, <1>6, <1>9, <4>2, RereadIsFresh
        <4> QED BY <1>9, <4>1, <4>2
      <3>2. \A id \in DOMAIN outbox' : IsCreate(id) /\ outbox'[id].tab = u => id \in DOMAIN outbox /\ outbox[id].tab = u
        BY <1>9 DEF BoxWritten
      <3>3. \A m \in DOMAIN outbox \cap Messages :
                Open(m)' => m \in DOMAIN outbox' /\ outbox'[m].target = outbox[m].target
        BY <1>8, <1>9 DEF BoxWritten
      <3>4. \A m \in (DOMAIN outbox' \ DOMAIN outbox) \cap Messages : Open(m)' => origin'[m].tab # u
        BY <1>1, <1>3, <1>9 DEF BoxWritten, CreateOf
      <3>5. Elsewhere(u)
        BY <1>1, <1>9, <3>1, <3>2, <3>3, <3>4 DEF Elsewhere
      <3> QED BY <2>1, <3>5, ElsewhereFits
    <2> QED BY <1>7, <1>9, <2>1, <2>2 DEF ConversationInv
  <1>10. CASE ~j.current
    <2>1. outbox' = w2 /\ job' = [job EXCEPT ![t] = None] /\ UNCHANGED <<bound, pending>>
      BY <1>10 DEF CreateReceipt
    <2>2. job'[t] = None /\ \A u \in Tabs \ {t} : job'[u] = job[u]
      BY <2>1 DEF ConversationInv, OutboxInv, OutboxTypeOK
    <2>3. starting'[t] = None
      BY <1>1, <1>2, <1>10 DEF MessageOfJobFits
    <2>4. PendingFits(t)'
      <3>1. \A r : RequestOwned(r, t) => RequestOwned(r, t)'
        <4> SUFFICES ASSUME NEW r, RequestOwned(r, t)
                     PROVE  RequestOwned(r, t)'
          OBVIOUS
        <4>1. CASE IsCreate(r.id)
          BY <1>1, <4>1 DEF RequestOwned, CreateOf
        <4>2. CASE ~IsCreate(r.id)
          BY <1>1, <1>2, <1>5, <1>8, <2>1, <4>2 DEF RequestOwned, BoxWritten, HistoryOK
        <4> QED BY <4>1, <4>2
      <3>2. \A id \in DOMAIN outbox' : IsCreate(id) => id \in DOMAIN outbox /\ outbox'[id] = outbox[id]
        BY <1>5, <2>1 DEF BoxWritten
      <3> QED BY <1>2, <2>1, <3>1, <3>2 DEF PendingFits
    <2>5. AheadFits(t)' /\ AskedFits(t)' /\ MessageOfJobFits(t)'
      BY <2>2, <2>3 DEF AheadFits, AskedFits, MessageOfJobFits
    <2> QED BY <1>5, <1>6, <1>9, <2>1, <2>2, <2>4, <2>5 DEF TabFits
  <1>11. CASE j.current
    <2>1. bound' = [bound EXCEPT ![t] = s] /\ bound'[t] = s /\ s # None /\ \A u \in Tabs \ {t} : bound'[u] = bound[u]
      BY <1>1, <1>11, NoneIsNothing DEF CreateReceipt, ConversationInv, OutboxInv, OutboxTypeOK
    <2> PICK others1 \in Readings(w1, bound'), p \in PendingIn(w2, s, t) :
              LET next == IF j.kind = "start" THEN Request(j.msg, s) ELSE p
              IN IF next = None
                 THEN /\ outbox' = w2 /\ pending' = [others1 EXCEPT ![t] = None]
                      /\ job' = [job EXCEPT ![t] = None]
                 ELSE /\ outbox' = Saved(w2, next, t, None)
                      /\ pending' = [others1 EXCEPT ![t] = next]
                      /\ job' = [job EXCEPT ![t] =
                             Job(IF j.kind = "start" THEN "dispatch" ELSE "retry", j.msg, next, "asking")]
      BY <1>11 DEF CreateReceipt
    <2> PICK next, kind : /\ next = (IF j.kind = "start" THEN Request(j.msg, s) ELSE p)
                          /\ kind = (IF j.kind = "start" THEN "dispatch" ELSE "retry")
      OBVIOUS
    <2>2. \A u \in Tabs \ {t} : others1[u] \in PendingIn(w1, bound'[u], u)
      BY DEF Readings
    <2>3. /\ p = None => Shown(w2, s, t) = {}
          /\ p # None => p.id \in Shown(w2, s, t) /\ p.target = w2[p.id].target
      BY <1>6, ReadingIs
    <2>4. p # None => p.id \in Messages \cap DOMAIN w2 /\ p.target = w2[p.id].target /\ p.target = s
      BY <1>6, <2>1, <2>3 DEF Shown, IsCreate, BoxOK
    \* The message shown ahead of the host stands in local storage for the new session.
    <2>5. ASSUME starting[t] # None, Open(starting[t].msg)
          PROVE  starting[t].msg \in DOMAIN w2 /\ w2[starting[t].msg].target = s
      <3> PICK m : m = starting[t].msg
        OBVIOUS
      <3>1. bound[t] = None /\ made[s] = m
        BY <1>1, <1>2, <1>11, <2>5 DEF AskedFits
      <3>2. m \in DOMAIN origin /\ m \notin DOMAIN outbox /\ m \in Messages
        BY <1>2, <2>5, <3>1 DEF AheadFits, HistoryOK
      <3>3. s \in Live(m)
        BY <1>3, <3>1 DEF Live, CreateOf
      <3>4. s \in DOMAIN outbox /\ outbox[s].followup = m
        BY <1>2, <2>5, <3>2, <3>3 DEF MessageFits
      <3> QED BY <1>5, <3>2, <3>4 DEF BoxWritten
    <2>6. CASE next = None
      <3>1. outbox' = w2 /\ pending' = [others1 EXCEPT ![t] = None] /\ job' = [job EXCEPT ![t] = None]
        BY <2>6
      <3>2. /\ pending'[t] = None /\ job'[t] = None
            /\ \A u \in Tabs \ {t} : job'[u] = job[u] /\ pending'[u] \in PendingIn(w1, bound'[u], u)
        BY <2>2, <3>1 DEF ConversationInv, OutboxInv, OutboxTypeOK, Readings
      <3>3. p = None
        <4>1. j.kind # "start"
          <5> SUFFICES ASSUME j.kind = "start"
                       PROVE  Request(j.msg, s) \in Requests
            BY <2>6, JobsAssumption
          <5>1. j.msg \in Messages
            BY <1>2, <1>3 DEF HistoryOK, CreateOf
          <5>2. s \in RemoteSessions
            BY <1>1 DEF RemoteSessions
          <5> QED BY <5>1, <5>2, RequestMade
        <4> QED BY <2>6, <4>1
      <3>4. starting[t] # None => ~Open(starting[t].msg)
        <4> SUFFICES ASSUME starting[t] # None, Open(starting[t].msg)
                     PROVE  FALSE
          OBVIOUS
        <4> PICK m : m = starting[t].msg
          OBVIOUS
        <4>1. m \in DOMAIN w2 /\ w2[m].target = s /\ ~IsCreate(m)
          BY <1>2, <2>5, NoneIsNothing DEF AheadFits, HistoryOK, IsCreate
        <4> QED BY <2>1, <2>3, <3>3, <4>1 DEF Shown
      <3>5. PendingFits(t)'
        BY <2>1, <3>2 DEF PendingFits
      <3>6. AheadFits(t)'
        BY <1>1, <1>2, <1>8, <3>4 DEF AheadFits
      <3>7. AskedFits(t)' /\ MessageOfJobFits(t)'
        BY <3>2 DEF AskedFits, MessageOfJobFits
      <3> QED BY <1>5, <1>6, <1>9, <2>1, <3>1, <3>2, <3>5, <3>6, <3>7 DEF TabFits
    <2>7. CASE next # None
      <3>1. /\ outbox' = Saved(w2, next, t, None) /\ pending' = [others1 EXCEPT ![t] = next]
            /\ job' = [job EXCEPT ![t] = Job(kind, j.msg, next, "asking")]
        BY <2>7
      <3>2. /\ pending'[t] = next /\ job'[t] = Job(kind, j.msg, next, "asking")
            /\ \A u \in Tabs \ {t} : job'[u] = job[u] /\ pending'[u] \in PendingIn(w1, bound'[u], u)
        BY <2>2, <3>1 DEF ConversationInv, OutboxInv, OutboxTypeOK, Readings
      <3>3. next.id \in Messages /\ next.id \in DOMAIN origin /\ next.target = s
            /\ (next.id \notin DOMAIN outbox => next.id = made[s])
        <4>1. CASE j.kind = "start"
          <5>1. next.id = j.msg /\ next.target = s /\ j.msg = made[s]
            BY <1>3, <4>1 DEF Request
          <5>2. made[s] \in DOMAIN origin /\ made[s] \in Messages
            BY <1>2, <1>3 DEF HistoryOK, CreateOf
          <5> QED BY <5>1, <5>2
        <4>2. CASE j.kind # "start"
          <5>1. next = p /\ p # None
            BY <2>7, <4>2
          <5> QED BY <1>5, <2>4, <5>1 DEF BoxWritten
        <4> QED BY <4>1, <4>2
      <3>4. next.id \in DOMAIN outbox /\ Open(next.id) => next.target = outbox[next.id].target
        <4>1. CASE j.kind = "start"
          <5>1. next.id = made[s] /\ s \in Live(next.id)
            BY <1>3, <4>1 DEF Request, Live, CreateOf
          <5> QED BY <1>2, <3>3, <5>1 DEF MessageFits
        <4>2. CASE j.kind # "start"
          <5>1. next = p /\ p # None
            BY <2>7, <4>2
          <5>2. next.id \in DOMAIN w2 /\ next.target = w2[next.id].target /\ ~IsCreate(next.id)
            BY <2>4, <5>1, NoneIsNothing DEF IsCreate
          <5>3. next.id \in DOMAIN outbox /\ Open(next.id) => w2[next.id].target = outbox[next.id].target
            BY <1>5, <3>3, <5>2 DEF BoxWritten
          <5> QED BY <5>2, <5>3
        <4> QED BY <4>1, <4>2
      <3>5. BoxWritten(outbox', s)
        <4>1. next.id \notin DOMAIN outbox => next.id = made[s] /\ next.target = s
          BY <3>3
        <4>2. BoxWritten(Saved(w2, next, t, None), s)
          BY <1>1, <1>5, <3>3, <3>4, <4>1, SavedIsWritten
        <4> QED BY <3>1, <4>2
      <3> PICK entry : entry = Entry(next.target, t, IF None = None THEN Followup(w2, next.id) ELSE None)
        OBVIOUS
      <3>6. SavedAs(outbox', w2, next.id, entry) /\ entry.target = next.target
        BY <3>1, SavedIs DEF Entry
      <3>7. /\ DOMAIN outbox' = DOMAIN w2 \cup {next.id} /\ outbox'[next.id].target = s
            /\ \A i \in DOMAIN w2 : i # next.id => outbox'[i] = w2[i]
        BY <3>3, <3>6 DEF SavedAs
      <3>8. ~IsCreate(next.id)
        BY <3>3, NoneIsNothing DEF IsCreate
      <3>9. RequestOwned(next, t)'
        BY <1>1, <3>3, <3>7, <3>8 DEF RequestOwned
      <3>10. PendingFits(t)'
        BY <2>1, <2>7, <3>2, <3>8, <3>9 DEF PendingFits
      <3>11. AheadFits(t)'
        <4>1. starting[t] # None /\ Open(starting[t].msg) =>
                  starting[t].msg \in DOMAIN outbox' /\ outbox'[starting[t].msg].target = s
          BY <2>5, <3>7
        <4> QED BY <1>1, <1>2, <1>8, <2>1, <2>7, <3>2, <4>1 DEF AheadFits
      <3>12. /\ job'[t].kind = kind /\ job'[t].msg = j.msg /\ job'[t].at = "asking" /\ job'[t].current
             /\ job'[t].request = next
        BY <3>2 DEF Job
      <3>13. AskedFits(t)'
        BY <3>8, <3>9, <3>12 DEF AskedFits
      <3>14. MessageOfJobFits(t)'
        BY <1>1, <1>2, <1>3, <1>8, <1>11, <3>12 DEF MessageOfJobFits
      <3>15. DOMAIN w1 \ {s} \subseteq DOMAIN outbox'
        BY <1>6, <3>7
      <3> QED BY <1>9, <2>1, <3>2, <3>5, <3>10, <3>11, <3>13, <3>14, <3>15 DEF TabFits
    <2> QED BY <2>6, <2>7
  <1> QED BY <1>10, <1>11

\* The host has at most one thing to say of a create: it was not turned down
\* once it is accepted, and the request it accepted is the one that was sent.
LEMMA CreateTurnedDown ==
    ASSUME ConversationInv, NEW r \in Requests, IsCreate(r.id), Rejects(r)
    PROVE  r.id \notin DOMAIN receipts
  <1> SUFFICES ASSUME r.id \in DOMAIN receipts
               PROVE  FALSE
    OBVIOUS
  <1>1. receipts[r.id] # r
    BY DEF Rejects
  <1>2. receipts[r.id] \in Requests /\ receipts[r.id].id = r.id
    BY DEF ConversationInv, OutboxInv, OutboxTypeOK, ReceiptsMatch
  <1>3. \A q \in Requests : IsCreate(q.id) => q = Request(q.id, None)
    <2> TAKE q \in Requests
    <2>1. CASE q \in CreateRequests
      BY <2>1 DEF CreateRequests, Request
    <2>2. CASE q \in SendRequests
      BY <2>2, NoneIsNothing DEF SendRequests, Request, IsCreate
    <2> QED BY <2>1, <2>2 DEF Requests
  <1> QED BY <1>1, <1>2, <1>3

LEMMA HostHandlesConverse ==
    ASSUME ConversationInv, OutboxInv', NEW r \in Requests, HostHandles(r)
    PROVE  ConversationInv'
  <1>1. UNCHANGED <<outbox, bound, starting, pending, origin, made, refused>>
    BY DEF HostHandles, outboxStore, outboxPast
  <1> PICK at \in {"ok", "no"} :
            /\ IF at = "ok" THEN Accepts(r) /\ Executed(r) ELSE Rejects(r) /\ UNCHANGED outboxHost
            /\ \/ \E t \in Tabs : Awaits(t, r) /\ job' = [job EXCEPT ![t].at = at]
               \/ UNCHANGED job
    BY DEF HostHandles
  <1>2. ReceiptsMatch' /\ DOMAIN receipts \subseteq DOMAIN receipts'
    <2>1. UNCHANGED receipts \/ receipts' = Put(receipts, r.id, r)
      BY DEF Executed, outboxHost
    <2>2. CASE UNCHANGED receipts
      BY <2>2 DEF ConversationInv, ReceiptsMatch
    <2>3. CASE receipts' = Put(receipts, r.id, r)
      BY <2>3 DEF ConversationInv, ReceiptsMatch, Put
    <2> QED BY <2>1, <2>2, <2>3
  <1>3. HistoryOK' /\ BoxOwned'
    BY <1>1 DEF ConversationInv, HistoryOK, BoxOwned, CreateOf
  <1>4. \A m \in DOMAIN origin' : MessageFits(m)'
    BY <1>1, <1>2 DEF ConversationInv, MessageFits, Open, Live
  <1>5. ASSUME NEW u \in Tabs, job'[u] = job[u]
        PROVE  TabFits(u)'
    <2>1. Elsewhere(u)
      BY <1>1, <1>2, <1>5 DEF Elsewhere
    <2> QED BY <1>3, <2>1, ElsewhereFits
  <1>6. ASSUME NEW t \in Tabs, Awaits(t, r), job' = [job EXCEPT ![t].at = at]
        PROVE  TabFits(t)' /\ \A u \in Tabs \ {t} : job'[u] = job[u]
    <2> PICK j : j = job[t]
      OBVIOUS
    <2>1. j # None /\ j \in Jobs /\ j.at = "asking" /\ j.request = r
      BY <1>6 DEF Awaits, ConversationInv, OutboxInv, OutboxTypeOK
    <2>2. job'[t] = [j EXCEPT !.at = at] /\ \A u \in Tabs \ {t} : job'[u] = job[u]
      BY <1>6 DEF ConversationInv, OutboxInv, OutboxTypeOK
    <2>3. /\ job'[t].kind = j.kind /\ job'[t].msg = j.msg /\ job'[t].request = r /\ job'[t].at = at
          /\ job'[t].current = j.current
      BY <2>1, <2>2 DEF Jobs
    <2>4. PendingFits(t) /\ AheadFits(t) /\ AskedFits(t) /\ MessageOfJobFits(t)
      BY DEF ConversationInv, TabFits
    <2>5. \A m : Live(m)' = Live(m) /\ (Open(m)' => Open(m))
      BY <1>1, <1>2 DEF Live, Open
    <2>6. \A q : RequestOwned(q, t) => RequestOwned(q, t)'
      BY <1>1, <2>5 DEF RequestOwned, CreateOf
    <2>7. PendingFits(t)' /\ AheadFits(t)'
      BY <1>1, <2>4, <2>5, <2>6 DEF PendingFits, AheadFits
    <2>8. RequestOwned(r, t)
      BY <2>1, <2>4 DEF AskedFits
    \* A create that is turned down has no message in local storage.
    <2>9. ASSUME IsCreate(r.id), at = "no", Open(made[r.id])'
          PROVE  made[r.id] \notin DOMAIN outbox
      <3> PICK m : m = made[r.id]
        OBVIOUS
      <3>1. r.id \in Live(m) /\ m \in DOMAIN origin
        BY <2>8, <2>9 DEF RequestOwned, CreateOf, Live, ConversationInv, HistoryOK
      <3>2. MessageFits(m) /\ Open(m)
        <4>1. made'[r.id] = m
          BY <1>1
        <4>2. Open(m)' <=> Open(made[r.id])'
          BY <4>1 DEF Open
        <4> QED BY <2>5, <2>9, <3>1, <4>2 DEF ConversationInv
      <3>3. r.id \notin DOMAIN receipts
        BY <2>9, CreateTurnedDown
      <3> QED BY <3>1, <3>2, <3>3 DEF MessageFits
    <2>10. AskedFits(t)'
      <3>1. RequestOwned(r, t)'
        BY <2>6, <2>8
      <3>2. /\ j.kind \in {"dispatch", "again"} => ~IsCreate(r.id)
            /\ j.kind = "start" => IsCreate(r.id) /\ made[r.id] = j.msg
            /\ IsCreate(r.id) /\ j.current =>
                 /\ bound[t] = None
                 /\ starting[t] # None /\ Open(starting[t].msg) => made[r.id] = starting[t].msg
        BY <2>1, <2>4 DEF AskedFits
      <3> QED BY <1>1, <2>3, <2>5, <2>9, <3>1, <3>2 DEF AskedFits
    <2>11. MessageOfJobFits(t)'
      BY <1>1, <2>1, <2>3, <2>4, <2>5 DEF MessageOfJobFits
    <2> QED BY <2>2, <2>7, <2>10, <2>11 DEF TabFits
  <1>7. \A u \in Tabs : TabFits(u)'
    <2>1. CASE UNCHANGED job
      BY <1>5, <2>1
    <2>2. ASSUME NEW t \in Tabs, Awaits(t, r), job' = [job EXCEPT ![t].at = at]
          PROVE  \A u \in Tabs : TabFits(u)'
      BY <1>5, <1>6, <2>2
    <2> QED BY <2>1, <2>2
  <1> QED BY <1>2, <1>3, <1>4, <1>7 DEF ConversationInv

LEMMA TurnsConverse ==
    ASSUME ConversationInv, OutboxInv',
           (\E s \in RemoteSessions : HostTurnEnds(s) \/ OtherClient(s)) \/ UNCHANGED outboxVars
    PROVE  ConversationInv'
  <1>1. UNCHANGED <<outbox, bound, pending, receipts, origin, made, refused, starting, job>>
    BY DEF HostTurnEnds, OtherClient, outboxVars, outboxStore, outboxTab, outboxHost, outboxPast
  <1> QED BY <1>1, AloneIsQuiet

LEMMA ConversationInvStarts == OutboxInit => ConversationInv
  <1> SUFFICES ASSUME OutboxInit
               PROVE  ConversationInv
    OBVIOUS
  <1>1. /\ DOMAIN outbox = {} /\ DOMAIN receipts = {} /\ DOMAIN origin = {} /\ DOMAIN made = {} /\ refused = {}
        /\ \A t \in Tabs : starting[t] = None /\ pending[t] = None /\ job[t] = None
    BY DEF OutboxInit
  <1>2. HistoryOK /\ ReceiptsMatch /\ BoxOwned /\ \A m \in DOMAIN origin : MessageFits(m)
    BY <1>1 DEF HistoryOK, ReceiptsMatch, BoxOwned
  <1>3. \A t \in Tabs : TabFits(t)
    BY <1>1 DEF TabFits, PendingFits, AheadFits, AskedFits, MessageOfJobFits
  <1> QED BY <1>2, <1>3, OutboxInvStarts DEF ConversationInv

LEMMA ConversationInvKept == ConversationInv /\ [OutboxNext]_outboxVars => ConversationInv'
  <1> SUFFICES ASSUME ConversationInv, [OutboxNext]_outboxVars
               PROVE  ConversationInv'
    OBVIOUS
  <1>1. OutboxInv'
    BY OutboxInvKept DEF ConversationInv
  <1>2. ASSUME NEW t \in Tabs, NEW m \in Messages, Submit(t, m)
        PROVE  ConversationInv'
    BY <1>1, <1>2, SubmitConverse
  <1>3. ASSUME NEW t \in Tabs, Prepared(t)
        PROVE  ConversationInv'
    BY <1>1, <1>3, PreparedConverse
  <1>4. ASSUME NEW t \in Tabs, PreparationFails(t) \/ AgainGivesUp(t) \/ LoseAnswer(t)
        PROVE  ConversationInv'
    BY <1>1, <1>4, EndingsConverse
  <1>5. ASSUME NEW t \in Tabs, Retry(t) \/ TryAgain(t) \/ Sync(t)
        PROVE  ConversationInv'
    BY <1>1, <1>5, RetryConverse, TryAgainConverse, SyncConverse
  <1>6. ASSUME NEW t \in Tabs, RefusalArrives(t) \/ SendReceipt(t) \/ CreateReceipt(t)
        PROVE  ConversationInv'
    BY <1>1, <1>6, RefusalConverse, SendReceiptConverse, CreateReceiptConverse
  <1>7. ASSUME NEW t \in Tabs, NEW s \in RemoteSessions \cup {None}, Switch(t, s)
        PROVE  ConversationInv'
    BY <1>1, <1>7, SwitchConverse
  <1>8. CASE Restart \/ \E t \in Tabs : DiesDuringReceipt(t)
    BY <1>1, <1>8, RestartsConverse
  <1>9. ASSUME NEW r \in Requests, HostHandles(r)
        PROVE  ConversationInv'
    BY <1>1, <1>9, HostHandlesConverse
  <1>10. CASE (\E s \in RemoteSessions : HostTurnEnds(s) \/ OtherClient(s)) \/ UNCHANGED outboxVars
    BY <1>1, <1>10, TurnsConverse
  <1> QED BY <1>2, <1>3, <1>4, <1>5, <1>6, <1>7, <1>8, <1>9, <1>10 DEF OutboxNext

LEMMA ConversationInvAlways == OutboxSpec => []ConversationInv
  <1> QED BY ConversationInvStarts, ConversationInvKept, PTL DEF OutboxSpec

\* The tabs never ask for two conversations for one message that was written
\* for a new one, unless they were told that the host turned something down or
\* the host has the message already: however many answers are lost, however
\* often a tab retries, tries again, shows another conversation or restarts.
THEOREM NoSecondConversation == OutboxSpec => []OneConversation
  <1>1. ConversationInv => OneConversation
    <2> SUFFICES ASSUME ConversationInv, NEW c \in DOMAIN made, NEW d \in DOMAIN made,
                        made[d] = made[c], origin[made[c]].session = None,
                        {c, d, made[c]} \cap refused = {}, made[c] \notin DOMAIN receipts
                 PROVE  c = d
      BY DEF OneConversation
    <2>1. made[c] \in DOMAIN origin
      BY DEF ConversationInv, HistoryOK
    <2>2. Open(made[c]) /\ c \in Live(made[c]) /\ d \in Live(made[c])
      BY <2>1 DEF Open, Live
    <2>3. MessageFits(made[c])
      BY <2>1 DEF ConversationInv
    <2> QED BY <2>2, <2>3 DEF MessageFits
  <1> QED BY <1>1, ConversationInvAlways, PTL
=============================================================================

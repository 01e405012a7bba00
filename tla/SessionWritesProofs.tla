------------------------ MODULE SessionWritesProofs ------------------------
(***************************************************************************)
(* A deleted conversation stays deleted; what the user sees is what is stored *)
(* once it is quiet and in no turn; and a write takes an edit out of the      *)
(* store only if it is of a copy that was older than what was mounted when it *)
(* was asked for, or the conversation was loaded before its last save.        *)
(*                                                                          *)
(* The inductive invariant has six parts.  TInv: transcripts hold edits made *)
(* so far.  DInv: a tombstone matches the stage of its removal, a removal    *)
(* has one delete in the queue, and a deleted conversation has nothing left  *)
(* anywhere.  LInv: a transcript is mounted, cached or being loaded, and     *)
(* nothing was queued behind what a load has read.  MInv: stored, running,   *)
(* queued and held, each holds the edits of the one before it, but for       *)
(* writes of old copies.  QInv: what the queue ends with is what the user    *)
(* sees, or an old copy, or a turn is under way.  NInv: which writes of a    *)
(* worker name its lead.                                                    *)
(*                                                                          *)
(* What a step does to one conversation is said once (Changes): the step is  *)
(* about another one, or it is one of the kinds below.  The parts of the     *)
(* invariant that speak of one conversation are then kept kind by kind; what *)
(* the step does to the lead, as a worker sees it, is in LeadMoves.          *)
(***************************************************************************)
EXTENDS SessionWrites, SequenceTheorems, TLAPS

-----------------------------------------------------------------------------
(* The inductive invariant.                                                  *)

\* Transcripts of the edits made so far, and those that are stored.
Docs(n)  == [text : SUBSET (0..n), led : BOOLEAN]
Texts(n) == {d \in Docs(n) : d.text # {}}
Saves(n) == [op : {"save"}, doc : Texts(n), tells : BOOLEAN, old : BOOLEAN]
Deletes  == [op : {"delete"}, doc : {None}, tells : BOOLEAN, old : {FALSE}]
SaveRuns(n) == {r \in [op : {"save"}, doc : Texts(n), tells : BOOLEAN, old : BOOLEAN, sent : Texts(n)] :
                   r.sent.text = r.doc.text /\ (r.sent.led => r.doc.led)}
DeleteRuns  == [op : {"delete"}, doc : {None}, tells : BOOLEAN, old : {FALSE}, sent : {None}]
Loads(n) == {l \in [opens : BOOLEAN, read : BOOLEAN, doc : Texts(n) \cup {None}] : ~l.read => l.doc = None}

TInv ==
    /\ edits \in 0..MaxEdits
    /\ stored \in [Sessions -> Texts(edits) \cup {None}]
    /\ queue \in [Sessions -> Seq(Saves(edits) \cup Deletes)]
    /\ running \in [Sessions -> SaveRuns(edits) \cup DeleteRuns \cup {None}]
    /\ leadById \subseteq Sessions /\ tombs \subseteq Sessions
    /\ open \in [Sessions -> Docs(edits) \cup {None}] /\ observed \in [Sessions -> Docs(edits) \cup {None}]
    /\ last \in [Sessions -> Docs(edits) \cup {None}]
    /\ pending \in [Sessions -> Texts(edits) \cup {None}] /\ cache \in [Sessions -> Texts(edits) \cup {None}]
    /\ loading \in [Sessions -> Loads(edits) \cup {None}]
    /\ removing \in [Sessions -> Removal \cup {None}]
    /\ busy \subseteq Sessions /\ gone \subseteq Sessions
    /\ dropped \subseteq Sessions /\ early \subseteq Sessions /\ outdated \subseteq Sessions
    /\ withdrawn \in [Sessions -> SUBSET (0..edits)]

Stage(x) == IF removing[x] = None THEN "none" ELSE removing[x].at
IsSave(w) == w.op = "save"
Ends(w) == w.op = "delete" /\ w.tells     \* the delete of a removal
RunsSave(x) == running[x] # None /\ IsSave(running[x])
RunsDelete(x) == running[x] # None /\ running[x].op = "delete"

\* A deleted conversation keeps its tombstone as long as anything of it may
\* still be written or mounted; a tombstone without a deletion is a removal
\* under way, whose only delete is queued or running.
Deleted(x) ==
    x \in gone =>
        /\ stored[x] = None /\ ~RunsSave(x) /\ Stage(x) \in {"none", "deleted"}
        /\ x \notin tombs => queue[x] = <<>> /\ running[x] = None /\ Stage(x) = "none"
        /\ Stage(x) = "none" => open[x] = None /\ cache[x] = None /\ loading[x] = None
Marked(x) ==
    /\ Stage(x) = "deleted" => x \in gone /\ x \in tombs
    /\ Stage(x) \in {"draining", "deleting"} => x \in tombs /\ x \notin gone
    /\ Stage(x) = "asked" => x \notin gone
    /\ x \in tombs /\ x \notin gone => Stage(x) \in {"draining", "deleting"}
OneEnd(x) ==
    /\ running[x] # None /\ Ends(running[x]) =>
         Stage(x) = "deleting" /\ \A i \in DOMAIN queue[x] : ~Ends(queue[x][i])
    /\ \A i \in DOMAIN queue[x] : Ends(queue[x][i]) =>
         Stage(x) = "deleting" /\ \A j \in DOMAIN queue[x] : Ends(queue[x][j]) => i = j
DInv == \A x \in Sessions : Deleted(x) /\ Marked(x) /\ OneEnd(x)

\* Where a transcript lives, and what waits for the timer: what is mounted, or
\* an older copy of it during a turn.  A save queued behind a load would not be
\* in what the load has read.
OnePlace(x) ==
    /\ open[x] # None => cache[x] = None /\ loading[x] = None
    /\ cache[x] # None => loading[x] = None
    /\ open[x] = None => observed[x] = None /\ pending[x] = None
    /\ pending[x] # None =>
         /\ open[x] # None /\ observed[x] = open[x] /\ Stage(x) = "none"
         /\ pending[x].text \subseteq open[x].text /\ pending[x].led = open[x].led
         /\ x \notin busy => pending[x] = open[x]
NothingBehind(x) ==
    loading[x] # None /\ loading[x].read /\ x \notin early =>
        ~RunsSave(x) /\ \A i \in DOMAIN queue[x] : ~IsSave(queue[x][i])
LInv == \A x \in Sessions : OnePlace(x) /\ NothingBehind(x)

\* Each write holds the edits of those before it, but for those the user
\* discarded and unless it is of an old copy; what is mounted, cached or read
\* by a load holds all of them.
Upto(x, text) ==
    /\ stored[x] # None => stored[x].text \ withdrawn[x] \subseteq text
    /\ RunsSave(x) => running[x].doc.text \ withdrawn[x] \subseteq text
    /\ \A i \in DOMAIN queue[x] : IsSave(queue[x][i]) => queue[x][i].doc.text \ withdrawn[x] \subseteq text
Chain(x) ==
    /\ stored[x] # None /\ RunsSave(x) /\ ~running[x].old =>
         stored[x].text \ withdrawn[x] \subseteq running[x].doc.text
    /\ \A j \in DOMAIN queue[x] : IsSave(queue[x][j]) /\ ~queue[x][j].old =>
         /\ stored[x] # None => stored[x].text \ withdrawn[x] \subseteq queue[x][j].doc.text
         /\ RunsSave(x) => running[x].doc.text \ withdrawn[x] \subseteq queue[x][j].doc.text
    /\ \A i, j \in DOMAIN queue[x] : i < j /\ IsSave(queue[x][i]) /\ IsSave(queue[x][j]) /\ ~queue[x][j].old =>
         queue[x][i].doc.text \ withdrawn[x] \subseteq queue[x][j].doc.text
Newest(x) ==
    /\ open[x] # None => Upto(x, open[x].text)
    /\ cache[x] # None => Upto(x, cache[x].text)
    /\ loading[x] # None /\ loading[x].read =>
         IF loading[x].doc # None THEN Upto(x, loading[x].doc.text) ELSE stored[x] = None
InOrder(x) == Chain(x) /\ Newest(x)
MInv == \A x \in Sessions : x \notin early => InOrder(x)

\* What will be stored when the queue is empty.  It is known of a conversation
\* of which no write failed and that is not being removed, unless it will be an
\* old copy.
Final(x) == IF queue[x] # <<>> THEN TextOf(queue[x][Len(queue[x])].doc)
            ELSE IF running[x] # None THEN TextOf(running[x].doc) ELSE TextOf(stored[x])
FinalOld(x) == IF queue[x] # <<>> THEN queue[x][Len(queue[x])].old
               ELSE IF running[x] # None THEN running[x].old ELSE x \in outdated
Clean(x) == x \notin early /\ x \notin dropped /\ x \notin tombs /\ x \notin gone
Behind(x) ==
    /\ \A j \in DOMAIN queue[x] : ~IsSave(queue[x][j]) =>
         TextOf(stored[x]) \subseteq withdrawn[x] /\ (RunsSave(x) => running[x].doc.text \subseteq withdrawn[x])
    /\ \A i, j \in DOMAIN queue[x] : i < j /\ IsSave(queue[x][i]) /\ ~IsSave(queue[x][j]) =>
         queue[x][i].doc.text \subseteq withdrawn[x]
Ahead(x) ==
    /\ Final(x) \cap withdrawn[x] = {}
    /\ open[x] # None => open[x].text \cap withdrawn[x] = {}
    /\ cache[x] # None => cache[x].text \cap withdrawn[x] = {}
    /\ RunsDelete(x) => TextOf(stored[x]) \subseteq withdrawn[x]
    /\ Behind(x)
WillBe(x) ==
    /\ /\ open[x] # None /\ pending[x] = None /\ observed[x] # None /\ observed[x].text = open[x].text
       /\ x \notin busy /\ ~FinalOld(x)
       => Final(x) = open[x].text
    /\ open[x] # None /\ open[x].text = {} => Final(x) = {}
    /\ /\ open[x] # None /\ open[x].text # {} /\ last[x] # None /\ last[x].text = open[x].text
       /\ ~FinalOld(x)
       => Final(x) = open[x].text
    /\ cache[x] # None /\ ~FinalOld(x) => Final(x) = cache[x].text
    /\ loading[x] # None /\ loading[x].read =>
         queue[x] = <<>> /\ running[x] = None /\ TextOf(stored[x]) = TextOf(loading[x].doc)
QInv == \A x \in Sessions : Clean(x) => Ahead(x) /\ WillBe(x)

\* The lead a worker names.  While the lead is not removed every write that
\* names it is one leadById knows (KnownLed), and before its first removal all
\* of them name it (AllLed).  A save that still sends the lead after the
\* tombstone is one the removal waits for (WaitedFor), so that none is left
\* when the lead is gone (Freed).
Led(doc) == doc # None /\ doc.led
SendsLed(x) == RunsSave(x) /\ running[x].sent.led
LedUnsettled(x) ==
    \/ RunsSave(x) /\ running[x].doc.led
    \/ \E i \in DOMAIN queue[x] : IsSave(queue[x][i]) /\ queue[x][i].doc.led
Unled(doc) == doc # None /\ ~doc.led
Sound(x) == x \notin early \/ Lead \notin dropped
KnownLed(x) ==
    x \notin early /\ Lead \notin gone /\ LedUnsettled(x) =>
        x \in leadById /\ ~Unled(open[x]) /\ ~Unled(cache[x])
AllLed(x) ==
    Lead \notin tombs /\ Lead \notin gone /\ Lead \notin dropped =>
        /\ ~Unled(stored[x]) /\ ~Unled(open[x]) /\ ~Unled(cache[x])
        /\ loading[x] # None => ~Unled(loading[x].doc)
        /\ \A i \in DOMAIN queue[x] : IsSave(queue[x][i]) => queue[x][i].doc.led /\ x \in leadById
        /\ RunsSave(x) => running[x].sent.led /\ x \in leadById
WaitedFor(x) ==
    Sound(x) /\ Lead \in tombs /\ Lead \notin gone /\ SendsLed(x) =>
        Stage(Lead) = "draining" /\ removing[Lead].waits[x] > 0
Freed(x) ==
    Sound(x) /\ Lead \in gone =>
        /\ ~SendsLed(x) /\ ~Led(stored[x])
        /\ Lead \notin tombs => \A i \in DOMAIN queue[x] : IsSave(queue[x][i]) => ~queue[x][i].doc.led
        /\ Stage(Lead) = "none" => /\ ~Led(open[x]) /\ ~Led(cache[x])
                                   /\ loading[x] # None => ~Led(loading[x].doc)
LeadDeletes ==
    /\ \A i \in DOMAIN queue[Lead] : ~IsSave(queue[Lead][i]) => Ends(queue[Lead][i])
    /\ RunsDelete(Lead) => Ends(running[Lead])
NInv ==
    /\ LeadDeletes
    /\ \A x \in Sessions \ {Lead} : KnownLed(x) /\ AllLed(x) /\ WaitedFor(x) /\ Freed(x)

IInv == TInv /\ DInv /\ LInv /\ MInv /\ QInv /\ NInv
-----------------------------------------------------------------------------
(* Queues, and the edits they may hold.                                      *)

LEMMA Adding ==
    ASSUME NEW S, NEW q \in Seq(S), NEW w \in S
    PROVE  /\ Append(q, w) \in Seq(S) /\ Append(q, w) # <<>>
           /\ Len(q) \in Nat /\ DOMAIN q = 1..Len(q)
           /\ Len(Append(q, w)) = Len(q) + 1 /\ DOMAIN Append(q, w) = 1..(Len(q) + 1)
           /\ \A i \in DOMAIN q : Append(q, w)[i] = q[i]
           /\ Append(q, w)[Len(q) + 1] = w
  BY AppendProperties, LenProperties

LEMMA Taking ==
    ASSUME NEW S, NEW q \in Seq(S), q # <<>>
    PROVE  /\ 1 \in DOMAIN q /\ q[1] \in S /\ Len(q) \in Nat \ {0} /\ DOMAIN q = 1..Len(q)
           /\ RemoveAt(q, 1) \in Seq(S)
           /\ Len(RemoveAt(q, 1)) = Len(q) - 1 /\ DOMAIN RemoveAt(q, 1) = 1..(Len(q) - 1)
           /\ \A i \in 1..(Len(q) - 1) : RemoveAt(q, 1)[i] = q[i + 1]
           /\ RemoveAt(q, 1) = <<>> <=> Len(q) = 1
  <1>1. Len(q) \in Nat \ {0} /\ DOMAIN q = 1..Len(q)
    BY LenProperties, EmptySeq
  <1>2. q[1] \in S /\ 1 \in DOMAIN q
    BY <1>1, ElementOfSeq
  <1>3. SubSeq(q, 1, 0) = <<>> /\ SubSeq(q, 1, 1 - 1) = <<>>
    BY <1>1, SubSeqProperties
  <1>4. SubSeq(q, 2, Len(q)) \in Seq(S) /\ Len(SubSeq(q, 2, Len(q))) = Len(q) - 1
        /\ \A i \in 1..(Len(q) - 1) : SubSeq(q, 2, Len(q))[i] = q[i + 1]
    BY <1>1, SubSeqProperties
  <1>5. RemoveAt(q, 1) = SubSeq(q, 2, Len(q))
    BY <1>3, <1>4, ConcatEmptySeq DEF RemoveAt
  <1>6. RemoveAt(q, 1) \in Seq(S) /\ Len(RemoveAt(q, 1)) = Len(q) - 1
        /\ \A i \in 1..(Len(q) - 1) : RemoveAt(q, 1)[i] = q[i + 1]
    BY <1>4, <1>5
  <1>7. DOMAIN RemoveAt(q, 1) = 1..(Len(q) - 1) /\ (RemoveAt(q, 1) = <<>> <=> Len(RemoveAt(q, 1)) = 0)
    BY <1>6, LenProperties, EmptySeq
  <1>8. RemoveAt(q, 1) = <<>> <=> Len(q) = 1
    <2>1. PICK r \in Seq(S) : r = RemoveAt(q, 1)
      BY <1>6
    <2>2. Len(r) = Len(q) - 1 /\ (r = <<>> <=> Len(r) = 0)
      BY <1>6, <1>7, <2>1
    <2>3. r = <<>> <=> Len(q) = 1
      BY <1>1, <2>2
    <2> QED
      BY <2>1, <2>3
  <1> QED
    BY <1>1, <1>2, <1>6, <1>7, <1>8

LEMMA Writes ==
    ASSUME NEW S, NEW q \in Seq(S)
    PROVE  /\ Len(q) \in Nat /\ DOMAIN q = 1..Len(q) /\ \A i \in DOMAIN q : q[i] \in S
           /\ q = <<>> <=> Len(q) = 0
  BY LenProperties, ElementOfSeq, EmptySeq

LEMMA MoreDocs ==
    ASSUME NEW n \in Nat
    PROVE  /\ Docs(n) \subseteq Docs(n + 1) /\ Texts(n) \subseteq Texts(n + 1) /\ Saves(n) \subseteq Saves(n + 1)
           /\ SaveRuns(n) \subseteq SaveRuns(n + 1) /\ Loads(n) \subseteq Loads(n + 1)
           /\ SUBSET (0..n) \subseteq SUBSET (0..(n + 1))
  <1>1. 0..n \subseteq 0..(n + 1)
    OBVIOUS
  <1>2. SUBSET (0..n) \subseteq SUBSET (0..(n + 1))
    BY <1>1
  <1>3. Docs(n) \subseteq Docs(n + 1)
    BY <1>2 DEF Docs
  <1>4. Texts(n) \subseteq Texts(n + 1)
    BY <1>3 DEF Texts
  <1>5. Saves(n) \subseteq Saves(n + 1)
    BY <1>4 DEF Saves
  <1>6. SaveRuns(n) \subseteq SaveRuns(n + 1)
    BY <1>4 DEF SaveRuns
  <1>7. Loads(n) \subseteq Loads(n + 1)
    BY <1>4 DEF Loads
  <1> QED
    BY <1>2, <1>3, <1>4, <1>5, <1>6, <1>7

LEMMA Nones ==
    ASSUME NEW n \in 0..MaxEdits
    PROVE  /\ None \notin Docs(n) /\ None \notin Texts(n) /\ None \notin Loads(n) /\ None \notin Removal
           /\ None \notin SaveRuns(n) /\ None \notin DeleteRuns
  <1>1. MaxEdits \in Nat
    BY WritesAssumption
  <1>2. Docs(n) \subseteq Transcript
    BY <1>1 DEF Docs, Transcript
  <1>3. Texts(n) \subseteq Transcript
    BY <1>2 DEF Texts
  <1>4. Loads(n) \subseteq Load
    BY <1>3 DEF Loads, Load
  <1>5. SaveRuns(n) \subseteq Run
    BY <1>3 DEF SaveRuns, Run
  <1>6. DeleteRuns \subseteq Run
    BY DEF DeleteRuns, Run
  <1> QED
    BY <1>2, <1>3, <1>4, <1>5, <1>6, WriteRecordsAssumption
-----------------------------------------------------------------------------
(* Every step keeps what is typed.                                           *)

LEMMA UpsertTyped ==
    ASSUME NEW n, queue \in [Sessions -> Seq(Saves(n) \cup Deletes)], leadById \subseteq Sessions,
           NEW docs \in [Sessions -> Docs(n) \cup {None}], NEW tells \in BOOLEAN, Upsert(docs, tells)
    PROVE  /\ queue' \in [Sessions -> Seq(Saves(n) \cup Deletes)] /\ leadById' \subseteq Sessions
           /\ running' = running /\ tombs' = tombs
  <1>1. ASSUME NEW s \in Sessions, ShouldPersist(docs[s])
        PROVE  Append(queue[s], [op |-> "save", doc |-> docs[s], tells |-> tells,
                                 old |-> ~(open[s].text \subseteq docs[s].text)]) \in Seq(Saves(n) \cup Deletes)
    <2>1. docs[s] \in Texts(n)
      BY <1>1 DEF ShouldPersist, Texts
    <2>2. PICK old \in BOOLEAN : old = ~(open[s].text \subseteq docs[s].text)
      OBVIOUS
    <2>3. [op |-> "save", doc |-> docs[s], tells |-> tells, old |-> old] \in Saves(n) \cup Deletes
      BY <2>1 DEF Saves
    <2> QED
      BY <2>2, <2>3, Adding
  <1> QED
    BY <1>1 DEF Upsert

LEMMA PersistTyped ==
    ASSUME NEW n, queue \in [Sessions -> Seq(Saves(n) \cup Deletes)], leadById \subseteq Sessions,
           NEW docs \in [Sessions -> Docs(n) \cup {None}], Persist(docs)
    PROVE  /\ queue' \in [Sessions -> Seq(Saves(n) \cup Deletes)] /\ leadById' \subseteq Sessions
           /\ running' = running /\ tombs' = tombs
  <1>1. Upsert([x \in Sessions |-> IF removing[x] = None /\ docs[x] # last[x] THEN docs[x] ELSE None], TRUE)
    BY DEF Persist
  <1>2. [x \in Sessions |-> IF removing[x] = None /\ docs[x] # last[x] THEN docs[x] ELSE None]
          \in [Sessions -> Docs(n) \cup {None}]
    OBVIOUS
  <1> QED
    BY <1>1, <1>2, UpsertTyped

LEMMA EffectTyped ==
    ASSUME NEW n, NEW now \in [Sessions -> Docs(n) \cup {None}], NEW waiting \in [Sessions -> Texts(n) \cup {None}],
           NEW turned, NEW fresh,
           observed \in [Sessions -> Docs(n) \cup {None}], Effect(now, waiting, turned, fresh)
    PROVE  /\ open' \in [Sessions -> Docs(n) \cup {None}] /\ observed' \in [Sessions -> Docs(n) \cup {None}]
           /\ pending' \in [Sessions -> Texts(n) \cup {None}]
  <1>1. ASSUME NEW s \in Sessions, ShouldPersist(now[s])
        PROVE  now[s] \in Texts(n)
    BY <1>1 DEF ShouldPersist, Texts
  <1> QED
    BY <1>1 DEF Effect

LEMMA ChangeTyped ==
    ASSUME NEW n, queue \in [Sessions -> Seq(Saves(n) \cup Deletes)], leadById \subseteq Sessions,
           NEW now \in [Sessions -> Docs(n) \cup {None}], pending \in [Sessions -> Texts(n) \cup {None}],
           observed \in [Sessions -> Docs(n) \cup {None}],
           NEW s \in Sessions, NEW turned, Change(s, now, turned)
    PROVE  /\ open' \in [Sessions -> Docs(n) \cup {None}] /\ observed' \in [Sessions -> Docs(n) \cup {None}]
           /\ pending' \in [Sessions -> Texts(n) \cup {None}]
           /\ queue' \in [Sessions -> Seq(Saves(n) \cup Deletes)] /\ leadById' \subseteq Sessions
           /\ running' = running /\ tombs' = tombs /\ removing' = removing
  <1>1. PICK fresh \in SUBSET {s} :
          /\ Effect(now, pending, turned, fresh)
          /\ IF fresh = {} THEN UNCHANGED queueVars ELSE Persist(Only(s, now[s]))
    BY DEF Change
  <1>2. Only(s, now[s]) \in [Sessions -> Docs(n) \cup {None}]
    BY DEF Only
  <1>3. /\ queue' \in [Sessions -> Seq(Saves(n) \cup Deletes)] /\ leadById' \subseteq Sessions
        /\ running' = running /\ tombs' = tombs
    BY <1>1, <1>2, PersistTyped DEF queueVars
  <1> QED
    BY <1>1, <1>3, EffectTyped DEF Change

LEMMA StoreTyped ==
    ASSUME TInv, DInv, NEW s \in Sessions, Invoke(s) \/ SaveLands(s) \/ DeleteLands(s) \/ WriteFails(s)
    PROVE  TInv'
  <1>1. queue[s] \in Seq(Saves(edits) \cup Deletes)
    BY DEF TInv
  <1>2. Counted(s) \in [Sessions -> Removal \cup {None}]
    BY DEF Counted, TInv, Removal
  <1>3. CASE Invoke(s)
    <2>1. PICK i \in Turn(s) :
            LET w == queue[s][i]
                left == RemoveAt(queue[s], i)
            IN IF w.op = "save" /\ s \in tombs
                 THEN Settled(s, left) /\ removing' = Counted(s)
                 ELSE /\ queue' = [queue EXCEPT ![s] = left]
                      /\ running' = [running EXCEPT ![s] = [op |-> w.op, doc |-> w.doc, tells |-> w.tells, old |-> w.old,
                                                         sent |-> IF w.doc = None THEN None ELSE Stripped(w.doc)]]
                      /\ UNCHANGED <<leadById, removing>>
      BY <1>3 DEF Invoke
    <2>2. i = 1 /\ queue[s] # <<>>
      BY DEF Turn
    <2>3. queue[s][1] \in Saves(edits) \cup Deletes /\ RemoveAt(queue[s], 1) \in Seq(Saves(edits) \cup Deletes)
      BY <1>1, <2>2, Taking
    <2>4. ASSUME NEW w \in Saves(edits) \cup Deletes
          PROVE  [op |-> w.op, doc |-> w.doc, tells |-> w.tells, old |-> w.old,
                  sent |-> IF w.doc = None THEN None ELSE Stripped(w.doc)] \in SaveRuns(edits) \cup DeleteRuns
      <3>1. None \notin Texts(edits)
        BY Nones DEF TInv
      <3>2. CASE w \in Saves(edits)
        <4>1. w.doc \in Texts(edits) /\ w.op = "save" /\ w.tells \in BOOLEAN /\ w.old \in BOOLEAN
          BY <3>2 DEF Saves
        <4>2. Stripped(w.doc) \in Texts(edits) /\ Stripped(w.doc).text = w.doc.text
              /\ (Stripped(w.doc).led => w.doc.led)
          BY <4>1 DEF Stripped, Texts, Docs
        <4> QED
          BY <3>1, <4>1, <4>2 DEF SaveRuns
      <3>3. CASE w \in Deletes
        BY <3>3 DEF Deletes, DeleteRuns
      <3> QED
        BY <3>2, <3>3
    <2>5. queue' \in [Sessions -> Seq(Saves(edits) \cup Deletes)]
      <3>1. queue' = [queue EXCEPT ![s] = RemoveAt(queue[s], 1)]
        BY <2>1, <2>2 DEF Settled
      <3> QED
        BY <2>3, <3>1 DEF TInv
    <2>6. running' \in [Sessions -> SaveRuns(edits) \cup DeleteRuns \cup {None}]
      <3>1. PICK w \in Saves(edits) \cup Deletes : w = queue[s][1]
        BY <2>3
      <3>2. \/ running' = [running EXCEPT ![s] = None]
            \/ running' = [running EXCEPT ![s] = [op |-> w.op, doc |-> w.doc, tells |-> w.tells, old |-> w.old,
                                                 sent |-> IF w.doc = None THEN None ELSE Stripped(w.doc)]]
        BY <2>1, <2>2, <3>1 DEF Settled
      <3>3. PICK r \in SaveRuns(edits) \cup DeleteRuns :
              r = [op |-> w.op, doc |-> w.doc, tells |-> w.tells, old |-> w.old,
                   sent |-> IF w.doc = None THEN None ELSE Stripped(w.doc)]
        BY <2>4
      <3>4. running' = [running EXCEPT ![s] = None] \/ running' = [running EXCEPT ![s] = r]
        BY <3>2, <3>3
      <3> QED
        BY <3>4 DEF TInv
    <2>7. leadById' \subseteq Sessions
      BY <2>1, <2>2 DEF Settled, TInv
    <2>8. removing' \in [Sessions -> Removal \cup {None}]
      BY <1>2, <2>1, <2>2 DEF Settled, TInv
    <2> QED
      BY <1>3, <2>5, <2>6, <2>7, <2>8
         DEF Invoke, TInv, storeVars, appVars, closedVars, pastVars, budget
  <1>4. CASE SaveLands(s)
    <2>1. running[s] \in SaveRuns(edits)
      BY <1>4 DEF SaveLands, TInv, DeleteRuns
    <2>2. running[s].sent \in Texts(edits) /\ running[s].doc \in Docs(edits)
      BY <2>1 DEF SaveRuns, Texts
    <2> QED
      BY <1>1, <1>2, <1>4, <2>2 DEF SaveLands, Settled, TInv, closedVars, budget
  <1>5. CASE DeleteLands(s)
    <2>1. Released(stored, s) \in [Sessions -> Texts(edits) \cup {None}]
      BY DEF Released, TInv, Texts, Docs
    <2>2. removing' \in [Sessions -> Removal \cup {None}]
      <3>1. CASE running[s].tells
        <4>1. removing[s] # None
          BY <1>5, <3>1 DEF DeleteLands, DInv, OneEnd, Ends, Stage
        <4>2. PICK c \in [Sessions -> Removal \cup {None}] : c = Counted(s)
          BY <1>2
        <4>3. c[s] \in Removal
          BY <4>1, <4>2, WriteRecordsAssumption DEF Counted, TInv, Removal
        <4>4. [c[s] EXCEPT !.at = "deleted"] \in Removal
          BY <4>3 DEF Removal
        <4>5. removing' = [c EXCEPT ![s] = [c[s] EXCEPT !.at = "deleted"]]
          BY <1>5, <3>1, <4>2 DEF DeleteLands
        <4> QED
          BY <4>2, <4>4, <4>5
      <3> QED
        BY <1>2, <1>5, <3>1 DEF DeleteLands
    <2> QED
      BY <1>1, <1>5, <2>1, <2>2 DEF DeleteLands, Settled, TInv, appVars, closedVars, budget
  <1>6. CASE WriteFails(s)
    <2>1. removing' \in [Sessions -> Removal \cup {None}]
      BY <1>2, <1>6 DEF WriteFails
    <2>2. tombs' \subseteq Sessions /\ dropped' \subseteq Sessions
      BY <1>6 DEF WriteFails, TInv
    <2>3. queue' \in [Sessions -> Seq(Saves(edits) \cup Deletes)] /\ leadById' \subseteq Sessions
          /\ running' \in [Sessions -> SaveRuns(edits) \cup DeleteRuns \cup {None}]
      BY <1>1, <1>6 DEF WriteFails, Settled, TInv
    <2> QED
      BY <1>6, <2>1, <2>2, <2>3 DEF WriteFails, TInv, storeVars, appVars, closedVars
  <1> QED
    BY <1>3, <1>4, <1>5, <1>6

LEMMA AppTyped ==
    ASSUME TInv, NEW s \in Sessions, Edit(s) \/ Begin(s) \/ End(s) \/ PersistNow(s) \/ Discard(s) \/ Flush \/ Hide
    PROVE  TInv'
  <1>0. /\ queue \in [Sessions -> Seq(Saves(edits) \cup Deletes)] /\ leadById \subseteq Sessions
        /\ open \in [Sessions -> Docs(edits) \cup {None}] /\ observed \in [Sessions -> Docs(edits) \cup {None}]
        /\ pending \in [Sessions -> Texts(edits) \cup {None}]
    BY DEF TInv
  <1>1. CASE Edit(s)
    <2>1. edits \in Nat /\ edits' = edits + 1 /\ edits + 1 \in 0..MaxEdits
      BY <1>1, WritesAssumption DEF Edit, TInv
    <2>2. /\ Docs(edits) \subseteq Docs(edits + 1) /\ Texts(edits) \subseteq Texts(edits + 1)
          /\ Saves(edits) \subseteq Saves(edits + 1) /\ SaveRuns(edits) \subseteq SaveRuns(edits + 1)
          /\ Loads(edits) \subseteq Loads(edits + 1) /\ SUBSET (0..edits) \subseteq SUBSET (0..(edits + 1))
      BY <2>1, MoreDocs
    <2>3. Seq(Saves(edits) \cup Deletes) \subseteq Seq(Saves(edits + 1) \cup Deletes)
      BY <2>2, SeqMonotonic
    <2>4. [open EXCEPT ![s].text = @ \cup {edits + 1}] \in [Sessions -> Docs(edits + 1) \cup {None}]
      <3>1. open[s] \in Docs(edits)
        BY <1>1 DEF Edit, TInv
      <3>2. [open[s] EXCEPT !.text = open[s].text \cup {edits + 1}] \in Docs(edits + 1)
        BY <2>1, <3>1 DEF Docs
      <3> QED
        BY <2>2, <3>2 DEF TInv
    <2>5. Change(s, [open EXCEPT ![s].text = @ \cup {edits + 1}], {})
      BY <1>1 DEF Edit
    <2>6. /\ observed \in [Sessions -> Docs(edits + 1) \cup {None}] /\ pending \in [Sessions -> Texts(edits + 1) \cup {None}]
          /\ queue \in [Sessions -> Seq(Saves(edits + 1) \cup Deletes)]
      BY <2>2, <2>3 DEF TInv
    <2>7. /\ open' \in [Sessions -> Docs(edits + 1) \cup {None}] /\ observed' \in [Sessions -> Docs(edits + 1) \cup {None}]
          /\ pending' \in [Sessions -> Texts(edits + 1) \cup {None}]
          /\ queue' \in [Sessions -> Seq(Saves(edits + 1) \cup Deletes)] /\ leadById' \subseteq Sessions
          /\ running' = running /\ tombs' = tombs /\ removing' = removing
      BY <1>0, <2>4, <2>5, <2>6, ChangeTyped
    <2>8. UNCHANGED <<stored, gone, busy, last, cache, loading, dropped, withdrawn, early, outdated>>
      BY <1>1 DEF Edit, storeVars, closedVars, pastVars
    <2>9. /\ stored \in [Sessions -> Texts(edits + 1) \cup {None}]
          /\ last \in [Sessions -> Docs(edits + 1) \cup {None}] /\ cache \in [Sessions -> Texts(edits + 1) \cup {None}]
          /\ loading \in [Sessions -> Loads(edits + 1) \cup {None}]
          /\ running \in [Sessions -> SaveRuns(edits + 1) \cup DeleteRuns \cup {None}]
          /\ withdrawn \in [Sessions -> SUBSET (0..(edits + 1))]
      BY <2>2 DEF TInv
    <2> QED
      BY <2>1, <2>7, <2>8, <2>9 DEF TInv
  <1>6. CASE Begin(s) \/ End(s)
    <2>1. Change(s, open, {s}) /\ busy' \subseteq Sessions
      BY <1>6 DEF Begin, End, TInv
    <2>2. UNCHANGED <<stored, gone, last, cache, loading, dropped, withdrawn, early, outdated, edits>>
      BY <1>6 DEF Begin, End, storeVars, closedVars, pastVars, budget
    <2>3. /\ open' \in [Sessions -> Docs(edits) \cup {None}] /\ observed' \in [Sessions -> Docs(edits) \cup {None}]
          /\ pending' \in [Sessions -> Texts(edits) \cup {None}]
          /\ queue' \in [Sessions -> Seq(Saves(edits) \cup Deletes)] /\ leadById' \subseteq Sessions
          /\ running' = running /\ tombs' = tombs /\ removing' = removing
      BY <1>0, <2>1, ChangeTyped
    <2> QED
      BY <2>1, <2>2, <2>3 DEF TInv
  <1>2. CASE PersistNow(s)
    <2>1. Persist(Only(s, open[s])) /\ Only(s, open[s]) \in [Sessions -> Docs(edits) \cup {None}]
      BY <1>0, <1>2 DEF PersistNow, Only
    <2>2. /\ queue' \in [Sessions -> Seq(Saves(edits) \cup Deletes)] /\ leadById' \subseteq Sessions
          /\ running' = running /\ tombs' = tombs
      BY <1>0, <2>1, PersistTyped
    <2> QED
      BY <1>2, <2>2 DEF PersistNow, TInv, storeVars, appVars, closedVars, pastVars
  <1>3. CASE Discard(s)
    <2>1. open[s] \in Docs(edits)
      BY <1>3 DEF Discard, TInv
    <2>2. [open[s] EXCEPT !.text = {}] \in Docs(edits) /\ open[s].text \in SUBSET (0..edits)
      BY <2>1 DEF Docs
    <2>3. [open EXCEPT ![s].text = {}] \in [Sessions -> Docs(edits) \cup {None}]
      BY <2>2 DEF TInv
    <2>4. [pending EXCEPT ![s] = None] \in [Sessions -> Texts(edits) \cup {None}]
      BY DEF TInv
    <2>5. observed \in [Sessions -> Docs(edits) \cup {None}]
      BY DEF TInv
    <2>6. Effect([open EXCEPT ![s].text = {}], [pending EXCEPT ![s] = None], {}, {})
      BY <1>3 DEF Discard
    <2>7. /\ open' \in [Sessions -> Docs(edits) \cup {None}] /\ observed' \in [Sessions -> Docs(edits) \cup {None}]
          /\ pending' \in [Sessions -> Texts(edits) \cup {None}]
      BY <2>3, <2>4, <2>5, <2>6, EffectTyped
    <2>8. [op |-> "delete", doc |-> None, tells |-> FALSE, old |-> FALSE] \in Saves(edits) \cup Deletes
      BY DEF Deletes
    <2>9. Append(queue[s], [op |-> "delete", doc |-> None, tells |-> FALSE, old |-> FALSE]) \in Seq(Saves(edits) \cup Deletes)
      BY <2>8, Adding DEF TInv
    <2>10. queue' \in [Sessions -> Seq(Saves(edits) \cup Deletes)]
      BY <1>3, <2>9 DEF Discard, TInv
    <2>11. last' \in [Sessions -> Docs(edits) \cup {None}] /\ loading' \in [Sessions -> Loads(edits) \cup {None}]
           /\ cache' \in [Sessions -> Texts(edits) \cup {None}] /\ withdrawn' \in [Sessions -> SUBSET (0..edits)]
      BY <1>3, <2>2 DEF Discard, TInv
    <2> QED
      BY <1>3, <2>7, <2>10, <2>11 DEF Discard, TInv, storeVars
  <1>4. CASE Flush
    <2>2. pending \in [Sessions -> Docs(edits) \cup {None}] /\ Persist(pending)
      BY <1>4 DEF Flush, Texts, TInv
    <2>3. /\ queue' \in [Sessions -> Seq(Saves(edits) \cup Deletes)] /\ leadById' \subseteq Sessions
          /\ running' = running /\ tombs' = tombs
      BY <1>0, <2>2, PersistTyped
    <2>4. pending' \in [Sessions -> Texts(edits) \cup {None}] /\ dropped' \subseteq Sessions
      BY <1>4 DEF Flush, TInv
    <2> QED
      BY <1>4, <2>3, <2>4 DEF Flush, TInv, storeVars, closedVars, budget
  <1>5. CASE Hide
    <2>1. open \in [Sessions -> Docs(edits) \cup {None}]
      BY DEF TInv
    <2>2. /\ queue' \in [Sessions -> Seq(Saves(edits) \cup Deletes)] /\ leadById' \subseteq Sessions
          /\ running' = running /\ tombs' = tombs
      BY <1>0, <1>5, <2>1, UpsertTyped DEF Hide
    <2> QED
      BY <1>5, <2>2 DEF Hide, TInv, storeVars, appVars, closedVars, pastVars
  <1> QED
    BY <1>1, <1>2, <1>3, <1>4, <1>5, <1>6

LEMMA ClosedTyped ==
    ASSUME TInv, NEW s \in Sessions, Close(s) \/ Reopen(s) \/ Prefetch(s) \/ Reads(s) \/ Loaded(s)
    PROVE  TInv'
  <1>0. /\ observed \in [Sessions -> Docs(edits) \cup {None}] /\ pending \in [Sessions -> Texts(edits) \cup {None}]
        /\ Texts(edits) \subseteq Docs(edits)
        /\ queue \in [Sessions -> Seq(Saves(edits) \cup Deletes)] /\ leadById \subseteq Sessions
        /\ open \in [Sessions -> Docs(edits) \cup {None}]
        /\ [opens |-> TRUE, read |-> FALSE, doc |-> None] \in Loads(edits)
        /\ [opens |-> FALSE, read |-> FALSE, doc |-> None] \in Loads(edits)
    BY DEF TInv, Texts, Loads
  <1>1. CASE Close(s)
    <2>1. Persist(Only(s, open[s])) /\ Only(s, open[s]) \in [Sessions -> Docs(edits) \cup {None}]
      BY <1>0, <1>1 DEF Close, Only
    <2>3. /\ queue' \in [Sessions -> Seq(Saves(edits) \cup Deletes)] /\ leadById' \subseteq Sessions
          /\ running' = running /\ tombs' = tombs
      BY <1>0, <2>1, PersistTyped
    <2>4. [open EXCEPT ![s] = None] \in [Sessions -> Docs(edits) \cup {None}]
      BY DEF TInv
    <2>5. Effect([open EXCEPT ![s] = None], pending, {}, {})
      BY <1>1 DEF Close
    <2>6. /\ open' \in [Sessions -> Docs(edits) \cup {None}] /\ observed' \in [Sessions -> Docs(edits) \cup {None}]
          /\ pending' \in [Sessions -> Texts(edits) \cup {None}]
      BY <1>0, <2>4, <2>5, EffectTyped
    <2>7. cache' \in [Sessions -> Texts(edits) \cup {None}] /\ dropped' \subseteq Sessions
      <3>1. ShouldPersist(open[s]) => open[s] \in Texts(edits)
        BY DEF ShouldPersist, Texts, TInv
      <3> QED
        BY <1>1, <3>1 DEF Close, TInv
    <2> QED
      BY <1>1, <2>3, <2>6, <2>7 DEF Close, TInv, storeVars
  <1>2. CASE Reopen(s)
    <2>1. ASSUME NEW doc \in Texts(edits)
          PROVE  [open EXCEPT ![s] = doc] \in [Sessions -> Docs(edits) \cup {None}]
      BY <1>0 DEF TInv
    <2>2. CASE cache[s] # None
      <3>1. cache[s] \in Texts(edits)
        BY <2>2 DEF TInv
      <3>2. \/ UNCHANGED appVars
            \/ /\ Effect([open EXCEPT ![s] = cache[s]], pending, {}, {})
               /\ last' = [last EXCEPT ![s] = cache[s]]
        BY <1>2, <2>2 DEF Reopen
      <3>3. /\ open' \in [Sessions -> Docs(edits) \cup {None}] /\ observed' \in [Sessions -> Docs(edits) \cup {None}]
            /\ pending' \in [Sessions -> Texts(edits) \cup {None}] /\ last' \in [Sessions -> Docs(edits) \cup {None}]
        <4>1. CASE UNCHANGED appVars
          BY <4>1 DEF appVars, TInv
        <4>2. CASE Effect([open EXCEPT ![s] = cache[s]], pending, {}, {}) /\ last' = [last EXCEPT ![s] = cache[s]]
          <5>1. [open EXCEPT ![s] = cache[s]] \in [Sessions -> Docs(edits) \cup {None}]
            BY <2>1, <3>1
          <5>2. last' \in [Sessions -> Docs(edits) \cup {None}]
            BY <1>0, <3>1, <4>2 DEF TInv
          <5> QED
            BY <1>0, <4>2, <5>1, <5>2, EffectTyped
        <4> QED
          BY <3>2, <4>1, <4>2
      <3>4. cache' \in [Sessions -> Texts(edits) \cup {None}] /\ loading' = loading
        BY <1>2, <2>2 DEF Reopen, TInv
      <3> QED
        BY <1>2, <3>3, <3>4 DEF Reopen, TInv, storeVars, queueVars, pastVars, budget
    <2>3. CASE cache[s] = None
      <3>1. loading[s] # None =>
              [opens |-> TRUE, read |-> loading[s].read, doc |-> loading[s].doc] \in Loads(edits)
        BY DEF Loads, TInv
      <3>2. loading' \in [Sessions -> Loads(edits) \cup {None}]
        <4>1. PICK l \in Loads(edits) :
                l = IF loading[s] = None THEN [opens |-> TRUE, read |-> FALSE, doc |-> None]
                    ELSE [opens |-> TRUE, read |-> loading[s].read, doc |-> loading[s].doc]
          BY <1>0, <3>1
        <4>2. loading' = [loading EXCEPT ![s] = l]
          BY <1>2, <2>3, <4>1 DEF Reopen
        <4> QED
          BY <4>2 DEF TInv
      <3> QED
        BY <1>2, <2>3, <3>2 DEF Reopen, TInv, storeVars, queueVars, appVars, pastVars, budget
    <2> QED
      BY <2>2, <2>3
  <1>3. CASE Prefetch(s)
    <2>1. loading' \in [Sessions -> Loads(edits) \cup {None}]
      BY <1>0, <1>3 DEF Prefetch, TInv
    <2> QED
      BY <1>3, <2>1 DEF Prefetch, TInv, storeVars, queueVars, appVars, pastVars, budget
  <1>4. CASE Reads(s)
    <2>1. [opens |-> loading[s].opens, read |-> TRUE, doc |-> stored[s]] \in Loads(edits)
      BY <1>4 DEF Reads, Loads, TInv
    <2>2. loading' \in [Sessions -> Loads(edits) \cup {None}] /\ early' \subseteq Sessions
      BY <1>4, <2>1 DEF Reads, TInv
    <2> QED
      BY <1>4, <2>2 DEF Reads, TInv, storeVars, queueVars, appVars, budget
  <1>5. CASE Loaded(s)
    <2>1. PICK doc \in Texts(edits) \cup {None} : doc = IF removing[s] = None THEN loading[s].doc ELSE None
      BY <1>5 DEF Loaded, Loads, TInv
    <2>2. \/ /\ doc # None /\ Effect([open EXCEPT ![s] = doc], pending, {}, {})
             /\ last' = [last EXCEPT ![s] = doc] /\ cache' = [cache EXCEPT ![s] = None]
          \/ /\ cache' = IF doc # None /\ open[s] = None THEN [cache EXCEPT ![s] = doc] ELSE cache
             /\ UNCHANGED appVars
      BY <1>5, <2>1 DEF Loaded
    <2>3. /\ open' \in [Sessions -> Docs(edits) \cup {None}] /\ observed' \in [Sessions -> Docs(edits) \cup {None}]
          /\ pending' \in [Sessions -> Texts(edits) \cup {None}] /\ last' \in [Sessions -> Docs(edits) \cup {None}]
          /\ cache' \in [Sessions -> Texts(edits) \cup {None}]
      <3>1. CASE UNCHANGED appVars /\ cache' = IF doc # None /\ open[s] = None THEN [cache EXCEPT ![s] = doc] ELSE cache
        BY <3>1 DEF appVars, TInv
      <3>2. CASE /\ doc # None /\ Effect([open EXCEPT ![s] = doc], pending, {}, {})
                 /\ last' = [last EXCEPT ![s] = doc] /\ cache' = [cache EXCEPT ![s] = None]
        <4>1. doc \in Docs(edits)
          BY <1>0, <3>2
        <4>2. [open EXCEPT ![s] = doc] \in [Sessions -> Docs(edits) \cup {None}]
          BY <4>1 DEF TInv
        <4>3. last' \in [Sessions -> Docs(edits) \cup {None}] /\ cache' \in [Sessions -> Texts(edits) \cup {None}]
          BY <3>2, <4>1 DEF TInv
        <4> QED
          BY <1>0, <3>2, <4>2, <4>3, EffectTyped
      <3> QED
        BY <2>2, <3>1, <3>2
    <2>4. loading' \in [Sessions -> Loads(edits) \cup {None}]
      BY <1>5 DEF Loaded, TInv
    <2> QED
      BY <1>5, <2>3, <2>4 DEF Loaded, TInv, storeVars, queueVars, pastVars, budget
  <1> QED
    BY <1>1, <1>2, <1>3, <1>4, <1>5

LEMMA RemovalTyped ==
    ASSUME TInv, NEW s \in Sessions,
           \/ AskRemoval(s) \/ CancelRemoval(s) \/ BeginDelete(s) \/ Drained(s) \/ EndRemoval(s) \/ Expire(s)
    PROVE  TInv'
  <1>1. CASE AskRemoval(s)
    <2>1. [at |-> "asked", waits |-> [x \in Sessions |-> 0]] \in Removal
      BY DEF Removal
    <2> QED
      BY <1>1, <2>1 DEF AskRemoval, TInv, storeVars, queueVars
  <1>2. CASE CancelRemoval(s)
    BY <1>2 DEF CancelRemoval, TInv, storeVars, queueVars, appVars, closedVars, pastVars, budget
  <1>3. CASE BeginDelete(s)
    <2>1. \A x \in Sessions : Len(queue[x]) \in Nat
      BY LenProperties DEF TInv
    <2>2. [x \in Sessions |-> IF x \in DrainedBy(s) THEN Len(queue[x]) + IF running[x] = None THEN 0 ELSE 1 ELSE 0]
            \in [Sessions -> Nat]
      <3>1. ASSUME NEW n \in Nat, NEW x
            PROVE  (n + IF running[x] = None THEN 0 ELSE 1) \in Nat
        OBVIOUS
      <3> QED
        BY <2>1, <3>1
    <2>3. removing' \in [Sessions -> Removal \cup {None}]
      BY <1>3, <2>2 DEF BeginDelete, Removal, TInv
    <2> QED
      BY <1>3, <2>3 DEF BeginDelete, TInv, storeVars, appVars, closedVars, pastVars, budget
  <1>4. CASE Drained(s)
    <2>1. removing[s] \in Removal
      BY <1>4 DEF Drained, TInv
    <2>2. [removing[s] EXCEPT !.at = "deleting"] \in Removal
      BY <2>1 DEF Removal
    <2>3. removing' \in [Sessions -> Removal \cup {None}]
      BY <1>4, <2>2 DEF Drained, TInv
    <2>4. [op |-> "delete", doc |-> None, tells |-> TRUE, old |-> FALSE] \in Saves(edits) \cup Deletes
      BY DEF Deletes
    <2>5. Append(queue[s], [op |-> "delete", doc |-> None, tells |-> TRUE, old |-> FALSE]) \in Seq(Saves(edits) \cup Deletes)
      BY <2>4, Adding DEF TInv
    <2>6. queue' \in [Sessions -> Seq(Saves(edits) \cup Deletes)]
      BY <1>4, <2>5 DEF Drained, TInv
    <2> QED
      BY <1>4, <2>3, <2>6 DEF Drained, TInv, storeVars, appVars, closedVars, pastVars, budget
  <1>5. CASE EndRemoval(s)
    <2>1. [Released(open, s) EXCEPT ![s] = None] \in [Sessions -> Docs(edits) \cup {None}]
      BY DEF Released, TInv, Docs
    <2>2. [Released(pending, s) EXCEPT ![s] = None] \in [Sessions -> Texts(edits) \cup {None}]
      BY DEF Released, TInv, Texts, Docs
    <2>3. observed \in [Sessions -> Docs(edits) \cup {None}]
      BY DEF TInv
    <2>4. /\ open' \in [Sessions -> Docs(edits) \cup {None}] /\ observed' \in [Sessions -> Docs(edits) \cup {None}]
          /\ pending' \in [Sessions -> Texts(edits) \cup {None}]
      BY <1>5, <2>1, <2>2, <2>3, EffectTyped DEF EndRemoval
    <2>5. /\ last' \in [Sessions -> Docs(edits) \cup {None}] /\ cache' \in [Sessions -> Texts(edits) \cup {None}]
          /\ loading' \in [Sessions -> Loads(edits) \cup {None}] /\ removing' \in [Sessions -> Removal \cup {None}]
      BY <1>5 DEF EndRemoval, TInv
    <2> QED
      BY <1>5, <2>4, <2>5 DEF EndRemoval, TInv, storeVars, queueVars, pastVars, budget
  <1>6. CASE Expire(s)
    BY <1>6 DEF Expire, TInv, storeVars, appVars, closedVars, pastVars, budget
  <1> QED
    BY <1>1, <1>2, <1>3, <1>4, <1>5, <1>6
-----------------------------------------------------------------------------
(* What a step does to one conversation.                                     *)

SameStore(x)  == stored'[x] = stored[x] /\ (x \in gone' <=> x \in gone)
SameLead(x)   == x \in leadById' <=> x \in leadById
SameQueue(x)  == queue'[x] = queue[x] /\ running'[x] = running[x] /\ SameLead(x)
SameMark(x)   == (x \in tombs' <=> x \in tombs) /\ Stage(x)' = Stage(x)
SameTurn(x)   == x \in busy' <=> x \in busy
SameApp(x)    == /\ open'[x] = open[x] /\ observed'[x] = observed[x] /\ pending'[x] = pending[x] /\ last'[x] = last[x]
                 /\ SameTurn(x)
SameClosed(x) == cache'[x] = cache[x] /\ loading'[x] = loading[x]
SameAge(x)    == x \in outdated' <=> x \in outdated
SameLoss(x)   == (x \in dropped' <=> x \in dropped) /\ (x \in early' <=> x \in early) /\ withdrawn'[x] = withdrawn[x]
SamePast(x)   == SameLoss(x) /\ SameAge(x)

\* The effect looks at it; waiting is what was pending.  It looks again at one
\* whose turn began or ended.
Sees(x, waiting) ==
    /\ observed'[x] = open'[x] /\ pending'[x] \in {waiting, open'[x]}
    /\ open'[x].text = {} => pending'[x] = waiting
    /\ open'[x].text # {} /\ x \notin busy' => pending'[x] = open'[x]
Looks(x, waiting) ==
    IF open'[x] = None THEN observed'[x] = None /\ pending'[x] = None
    ELSE IF Stage(x)' = "none" /\ observed[x] # open'[x] THEN Sees(x, waiting)
    ELSE observed'[x] = observed[x] /\ pending'[x] = waiting
LooksAgain(x, waiting) ==
    IF Stage(x)' = "none" THEN Sees(x, waiting) ELSE observed'[x] = None /\ pending'[x] = waiting

\* The step is about another one: it may lose its lead, or its place.
Alike(doc, other) == (doc = None <=> other = None) /\ (doc # None => other.text = doc.text)
Aside(x) ==
    /\ Alike(stored[x], stored'[x]) /\ (x \in gone' <=> x \in gone)
    /\ SameQueue(x) /\ SameMark(x) /\ SamePast(x) /\ SameTurn(x) /\ last'[x] = last[x]
    /\ Alike(open[x], open'[x])
    /\ \/ SameApp(x)
       \/ Looks(x, IF pending[x] = None THEN None ELSE [text |-> pending[x].text, led |-> open'[x].led])
    /\ cache'[x] \in {cache[x], None} /\ loading'[x] \in {loading[x], None}
    /\ stored'[x] # stored[x] => RunsDelete(Lead) /\ ~Led(stored'[x])
    /\ open'[x] # open[x] => Stage(Lead) = "deleted" /\ ~Led(open'[x])

\* Its queue.
Taken(x) == queue[x] # <<>> /\ running[x] = None /\ queue'[x] = RemoveAt(queue[x], 1)
SaveOf(doc, tells, old) == [op |-> "save", doc |-> doc, tells |-> tells, old |-> old]
DeleteOf(tells) == [op |-> "delete", doc |-> None, tells |-> tells, old |-> FALSE]
\* What is mounted is queued.
Queued(x, tells) ==
    /\ queue'[x] = Append(queue[x], SaveOf(open'[x], tells, FALSE))
    /\ running'[x] = running[x] /\ (x \in leadById' <=> open'[x].led)
Skips(x) ==
    /\ Taken(x) /\ IsSave(queue[x][1]) /\ x \in tombs /\ running'[x] = None
    /\ queue'[x] # <<>> => SameLead(x)
    /\ SameStore(x) /\ SameMark(x) /\ SameApp(x) /\ SameClosed(x) /\ SamePast(x)
Starts(x) ==
    /\ Taken(x) /\ ~(IsSave(queue[x][1]) /\ x \in tombs) /\ running'[x] # None
    /\ running'[x].op = queue[x][1].op /\ running'[x].doc = queue[x][1].doc /\ running'[x].tells = queue[x][1].tells
    /\ running'[x].old = queue[x][1].old
    /\ IsSave(queue[x][1]) => running'[x].sent.led = (queue[x][1].doc.led /\ Lead \notin tombs)
    /\ SameLead(x)
    /\ SameStore(x) /\ SameMark(x) /\ SameApp(x) /\ SameClosed(x) /\ SamePast(x)
Stores(x) ==
    /\ RunsSave(x) /\ stored'[x] = running[x].sent /\ running'[x] = None /\ queue'[x] = queue[x]
    /\ queue[x] # <<>> => SameLead(x)
    /\ last'[x] = IF running[x].tells THEN running[x].doc ELSE last[x]
    /\ x \in gone' <=> x \in gone
    /\ open'[x] = open[x] /\ observed'[x] = observed[x] /\ pending'[x] = pending[x] /\ SameTurn(x)
    /\ SameMark(x) /\ SameClosed(x) /\ SameLoss(x) /\ (x \in outdated' <=> running[x].old)
Erases(x) ==
    /\ RunsDelete(x) /\ stored'[x] = None /\ running'[x] = None /\ queue'[x] = queue[x]
    /\ queue[x] # <<>> => SameLead(x)
    /\ x \in tombs' <=> x \in tombs
    /\ IF Ends(running[x]) THEN x \in gone' /\ Stage(x)' = "deleted"
                           ELSE (x \in gone' <=> x \in gone) /\ Stage(x)' = Stage(x)
    /\ SameApp(x) /\ SameClosed(x) /\ SameLoss(x) /\ x \notin outdated'
Fails(x) ==
    /\ running[x] # None /\ running'[x] = None /\ queue'[x] = queue[x]
    /\ queue[x] # <<>> => SameLead(x)
    /\ IF Ends(running[x]) THEN x \notin tombs' /\ Stage(x)' = "none" ELSE SameMark(x)
    /\ x \in dropped' /\ (x \in early' <=> x \in early) /\ withdrawn'[x] = withdrawn[x]
    /\ SameStore(x) /\ SameApp(x) /\ SameClosed(x)
SavesOpen(x) ==
    /\ open[x] # None /\ open[x].text # {} /\ x \notin tombs
    /\ \E tells \in BOOLEAN : Queued(x, tells)
    /\ SameStore(x) /\ SameMark(x) /\ SameApp(x) /\ SameClosed(x) /\ SamePast(x)
Flushes(x) ==
    /\ pending[x] # None /\ pending'[x] = None /\ x \notin tombs
    /\ IF pending[x] # last[x]
         THEN /\ queue'[x] = Append(queue[x], SaveOf(pending[x], TRUE, ~(open[x].text \subseteq pending[x].text)))
              /\ x \in leadById' <=> pending[x].led
         ELSE queue'[x] = queue[x] /\ SameLead(x)
    /\ running'[x] = running[x]
    /\ open'[x] = open[x] /\ observed'[x] = observed[x] /\ last'[x] = last[x] /\ SameTurn(x)
    /\ SameStore(x) /\ SameMark(x) /\ SameClosed(x) /\ SamePast(x)

\* Its mounted transcript, which may be saved at once.
Grows(x) ==
    /\ open[x] # None /\ open'[x] # None
    /\ \/ open'[x] = [text |-> open[x].text \cup {edits + 1}, led |-> open[x].led] /\ Looks(x, pending[x]) /\ SameTurn(x)
       \/ open'[x] = open[x] /\ LooksAgain(x, pending[x])
    /\ SameQueue(x) \/ (Stage(x) = "none" /\ x \notin tombs /\ open'[x].text # {} /\ Queued(x, TRUE))
    /\ last'[x] = last[x]
    /\ SameStore(x) /\ SameMark(x) /\ SameClosed(x) /\ SamePast(x)
Discards(x) ==
    /\ x # Lead /\ open[x] # None /\ open'[x] = [text |-> {}, led |-> open[x].led]
    /\ Looks(x, None) /\ last'[x] = None /\ cache'[x] = None /\ loading'[x] = None
    /\ queue'[x] = Append(queue[x], DeleteOf(FALSE)) /\ running'[x] = running[x] /\ SameLead(x)
    /\ withdrawn'[x] = withdrawn[x] \cup open[x].text
    /\ (x \in dropped' <=> x \in dropped) /\ (x \in early' <=> x \in early)
    /\ SameStore(x) /\ SameMark(x)
Closes(x) ==
    /\ open[x] # None /\ open'[x] = None /\ observed'[x] = None /\ pending'[x] = None /\ last'[x] = last[x]
    /\ cache'[x] = cache[x] \/ (open[x].text # {} /\ cache'[x] = open[x])
    /\ loading'[x] = loading[x]
    /\ queue'[x] = IF Stage(x) = "none" /\ open[x] # last[x] /\ open[x].text # {} /\ x \notin tombs
                     THEN Append(queue[x], SaveOf(open[x], TRUE, FALSE)) ELSE queue[x]
    /\ running'[x] = running[x] /\ SameAge(x)
    /\ (Stage(x) = "none" /\ open[x] # last[x] /\ open[x].text # {} /\ x \notin tombs => (x \in leadById' <=> open[x].led))
    /\ (~(Stage(x) = "none" /\ open[x] # last[x] /\ open[x].text # {} /\ x \notin tombs) => SameLead(x))
    /\ x \in dropped' <=> x \in dropped \/ Stage(x) # "none"
    /\ (x \in early' <=> x \in early) /\ withdrawn'[x] = withdrawn[x]
    /\ SameStore(x) /\ SameMark(x)
Recalls(x) ==
    /\ open[x] = None /\ cache[x] # None /\ cache'[x] = None /\ loading'[x] = loading[x]
    /\ IF Stage(x) = "none" THEN open'[x] = cache[x] /\ Looks(x, pending[x]) /\ last'[x] = cache[x] ELSE SameApp(x)
    /\ SameStore(x) /\ SameQueue(x) /\ SameMark(x) /\ SamePast(x)

\* Its loads.
Asks(x) ==
    /\ x \notin gone /\ open[x] = None /\ cache[x] = None /\ loading'[x] # None
    /\ loading'[x].read = (loading[x] # None /\ loading[x].read)
    /\ loading'[x].doc = IF loading[x] = None THEN None ELSE loading[x].doc
    /\ cache'[x] = cache[x]
    /\ SameStore(x) /\ SameQueue(x) /\ SameMark(x) /\ SameApp(x) /\ SamePast(x)
Looked(x) ==
    /\ loading[x] # None /\ ~loading[x].read /\ loading'[x] # None /\ loading'[x].read /\ loading'[x].doc = stored[x]
    /\ x \in early' <=> x \in early \/ Unstored(x)
    /\ (x \in dropped' <=> x \in dropped) /\ withdrawn'[x] = withdrawn[x] /\ cache'[x] = cache[x]
    /\ SameStore(x) /\ SameQueue(x) /\ SameMark(x) /\ SameApp(x) /\ SameAge(x)
Arrives(x) ==
    /\ loading[x] # None /\ loading[x].read /\ loading'[x] = None
    /\ \/ /\ Stage(x) = "none" /\ loading[x].doc # None /\ open'[x] = loading[x].doc
          /\ Looks(x, pending[x]) /\ last'[x] = loading[x].doc /\ cache'[x] = None
       \/ /\ Stage(x) = "none" /\ loading[x].doc # None /\ cache'[x] = loading[x].doc /\ SameApp(x)
       \/ cache'[x] = cache[x] /\ SameApp(x)
    /\ SameStore(x) /\ SameQueue(x) /\ SameMark(x) /\ SamePast(x)

\* Its removal.
Goes(x, from, to) == Stage(x) = from /\ Stage(x)' = to
RemovalAsked(x) ==
    /\ Goes(x, "none", "asked") /\ x \notin gone /\ (x \in tombs' <=> x \in tombs)
    /\ cache'[x] = None /\ loading'[x] = None /\ pending'[x] = None
    /\ x \in dropped' <=> x \in dropped \/ pending[x] # None
    /\ (x \in early' <=> x \in early) /\ withdrawn'[x] = withdrawn[x]
    /\ open'[x] = open[x] /\ observed'[x] = observed[x] /\ last'[x] = last[x] /\ SameTurn(x) /\ SameAge(x)
    /\ SameStore(x) /\ SameQueue(x)
RemovalTakenBack(x) ==
    /\ Goes(x, "asked", "none") /\ (x \in tombs' <=> x \in tombs)
    /\ SameStore(x) /\ SameQueue(x) /\ SameApp(x) /\ SameClosed(x) /\ SamePast(x)
RemovalBegins(x) ==
    /\ Goes(x, "asked", "draining") /\ x \in tombs'
    /\ SameStore(x) /\ SameQueue(x) /\ SameApp(x) /\ SameClosed(x) /\ SamePast(x)
RemovalDrains(x) ==
    /\ Goes(x, "draining", "deleting") /\ queue'[x] = Append(queue[x], DeleteOf(TRUE)) /\ running'[x] = running[x]
    /\ SameLead(x) /\ (x \in tombs' <=> x \in tombs)
    /\ SameStore(x) /\ SameApp(x) /\ SameClosed(x) /\ SamePast(x)
RemovalEnds(x) ==
    /\ Goes(x, "deleted", "none") /\ (x \in tombs' <=> x \in tombs)
    /\ open'[x] = None /\ observed'[x] = None /\ pending'[x] = None /\ last'[x] = None
    /\ cache'[x] = None /\ loading'[x] = None
    /\ SameStore(x) /\ SameQueue(x) /\ SamePast(x)
Expires(x) ==
    /\ x \in gone /\ Stage(x) = "none" /\ Stage(x)' = "none" /\ queue[x] = <<>> /\ running[x] = None /\ x \notin tombs'
    /\ SameStore(x) /\ SameQueue(x) /\ SameApp(x) /\ SameClosed(x) /\ SamePast(x)

InStore(x)   == Skips(x) \/ Starts(x) \/ Stores(x) \/ Erases(x) \/ Fails(x)
InApp(x)     == SavesOpen(x) \/ Flushes(x) \/ Grows(x) \/ Discards(x)
InClosed(x)  == Closes(x) \/ Recalls(x) \/ Asks(x) \/ Looked(x) \/ Arrives(x)
InRemoval(x) ==
    \/ RemovalAsked(x) \/ RemovalTakenBack(x) \/ RemovalBegins(x) \/ RemovalDrains(x)
    \/ RemovalEnds(x) \/ Expires(x)
Changes(x) == Aside(x) \/ InStore(x) \/ InApp(x) \/ InClosed(x) \/ InRemoval(x)

LEMMA Stages ==
    ASSUME TInv, NEW x \in Sessions
    PROVE  /\ Stage(x) \in {"none", "asked", "draining", "deleting", "deleted"}
           /\ removing[x] = None <=> Stage(x) = "none"
           /\ removing[x] # None => removing[x].at = Stage(x) /\ removing[x] \in Removal
  BY DEF TInv, Stage, Removal

LEMMA StagesNext ==
    ASSUME TInv', NEW x \in Sessions
    PROVE  /\ Stage(x)' \in {"none", "asked", "draining", "deleting", "deleted"}
           /\ removing'[x] = None <=> Stage(x)' = "none"
           /\ removing'[x] # None => removing'[x].at = Stage(x)' /\ removing'[x] \in Removal
  BY DEF TInv, Stage, Removal

LEMMA StageKept ==
    ASSUME NEW x \in Sessions, removing'[x] = removing[x]
    PROVE  Stage(x)' = Stage(x)
  BY DEF Stage

LEMMA CountedStage ==
    ASSUME TInv, NEW s \in Sessions
    PROVE  \A x \in Sessions :
             /\ Counted(s)[x] = None <=> removing[x] = None
             /\ Counted(s)[x] # None => Counted(s)[x].at = removing[x].at
  <1> SUFFICES ASSUME NEW x \in Sessions
               PROVE  /\ Counted(s)[x] = None <=> removing[x] = None
                      /\ Counted(s)[x] # None => Counted(s)[x].at = removing[x].at
    OBVIOUS
  <1>1. CASE removing[x] = None
    BY <1>1 DEF Counted
  <1>2. CASE removing[x] # None
    <2>1. removing[x] \in Removal
      BY <1>2 DEF TInv
    <2>2. [at |-> removing[x].at, waits |-> [removing[x].waits EXCEPT ![s] = IF @ = 0 THEN 0 ELSE @ - 1]] \in Removal
      BY <2>1 DEF Removal
    <2> QED
      BY <1>2, <2>2, WriteRecordsAssumption DEF Counted
  <1> QED
    BY <1>1, <1>2

LEMMA EffectLooks ==
    ASSUME TInv', NEW now, NEW waiting, NEW turned, NEW fresh, Effect(now, waiting, turned, fresh), NEW x \in Sessions
    PROVE  /\ open' = now
           /\ x \notin turned => Looks(x, waiting[x])
           /\ x \in turned /\ now[x] # None => LooksAgain(x, waiting[x])
  BY StagesNext DEF Effect, Looks, LooksAgain, Sees, ShouldPersist

LEMMA EffectLooksOnce ==
    ASSUME TInv', NEW now, NEW waiting, Effect(now, waiting, {}, {}), NEW x \in Sessions
    PROVE  open' = now /\ Looks(x, waiting[x])
  <1>1. PICK none : none = {} /\ Effect(now, waiting, none, none)
    OBVIOUS
  <1> QED
    BY <1>1, EffectLooks

LEMMA AsideSame ==
    ASSUME NEW x \in Sessions, SameStore(x), SameQueue(x), SameMark(x), SameApp(x), SameClosed(x), SamePast(x)
    PROVE  Aside(x)
  BY DEF Aside, Alike, SameStore, SameApp, SameClosed

LEMMA AsideLooks ==
    ASSUME TInv, LInv, NEW x \in Sessions, SameStore(x), SameQueue(x), SameMark(x), SameClosed(x), SamePast(x),
           SameTurn(x), open'[x] = open[x], Looks(x, pending[x]), last'[x] = last[x]
    PROVE  Aside(x)
  <1>1. pending[x] # None => pending[x] = [text |-> pending[x].text, led |-> open'[x].led]
    <2>1. pending[x] # None => pending[x] \in Docs(edits) /\ pending[x].led = open[x].led
      BY DEF TInv, LInv, OnePlace, Texts
    <2> QED
      BY <2>1 DEF Docs
  <1>2. Looks(x, IF pending[x] = None THEN None ELSE [text |-> pending[x].text, led |-> open'[x].led])
    BY <1>1
  <1> QED
    BY <1>2 DEF Aside, Alike, SameStore, SameClosed

LEMMA StoreChanges ==
    ASSUME TInv, TInv', DInv, NEW s \in Sessions, Invoke(s) \/ SaveLands(s) \/ DeleteLands(s) \/ WriteFails(s),
           NEW x \in Sessions
    PROVE  Changes(x)
  <1>0. removing' = Counted(s) => Stage(x)' = Stage(x)
    BY CountedStage, Stages, StagesNext
  <1>a. Settled(s, queue[s]) /\ (x # s \/ queue[x] # <<>>) => SameLead(x)
    BY DEF Settled, SameLead
  <1>1. CASE Invoke(s)
    <2>1. PICK i \in Turn(s) :
            LET w == queue[s][i]
                left == RemoveAt(queue[s], i)
            IN IF w.op = "save" /\ s \in tombs
                 THEN Settled(s, left) /\ removing' = Counted(s)
                 ELSE /\ queue' = [queue EXCEPT ![s] = left]
                      /\ running' = [running EXCEPT ![s] = [op |-> w.op, doc |-> w.doc, tells |-> w.tells, old |-> w.old,
                                                         sent |-> IF w.doc = None THEN None ELSE Stripped(w.doc)]]
                      /\ UNCHANGED <<leadById, removing>>
      BY <1>1 DEF Invoke
    <2>2. i = 1 /\ queue[s] # <<>> /\ running[s] = None
      BY DEF Turn
    <2>3. queue' = [queue EXCEPT ![s] = RemoveAt(queue[s], 1)]
      BY <2>1, <2>2 DEF Settled
    <2>4. Stage(x)' = Stage(x)
      BY <1>0, <2>1, StageKept DEF Settled
    <2>5. SameStore(x) /\ SameMark(x) /\ SameApp(x) /\ SameClosed(x) /\ SamePast(x)
      BY <1>1, <2>4 DEF Invoke, SameStore, SameMark, SameApp, SameTurn, SameClosed, SamePast, SameLoss,
                        SameAge, storeVars, appVars, closedVars, pastVars
    <2>6. CASE x # s
      <3>1. queue'[x] = queue[x]
        BY <2>3, <2>6 DEF TInv
      <3>2. running'[x] = running[x] /\ SameLead(x)
        BY <2>1, <2>2, <2>6 DEF Settled, SameLead, TInv
      <3> QED
        BY <2>5, <3>1, <3>2, AsideSame DEF Changes, SameQueue
    <2>7. CASE x = s
      <3>1. Taken(x)
        BY <2>2, <2>3, <2>7 DEF Taken, TInv
      <3>2. queue[x][1].op = "save" /\ x \in tombs => running'[x] = None
        BY <2>1, <2>2, <2>7 DEF Settled, TInv
      <3>3. ~(queue[x][1].op = "save" /\ x \in tombs) =>
              running'[x] = [op |-> queue[x][1].op, doc |-> queue[x][1].doc, tells |-> queue[x][1].tells, old |-> queue[x][1].old,
                             sent |-> IF queue[x][1].doc = None THEN None ELSE Stripped(queue[x][1].doc)]
        BY <2>1, <2>2, <2>7 DEF TInv
      <3>6. queue'[x] # <<>> \/ ~(queue[x][1].op = "save" /\ x \in tombs) => SameLead(x)
        <4>1. queue'[s] = RemoveAt(queue[s], 1)
          BY <2>3 DEF TInv
        <4> QED
          BY <2>1, <2>2, <2>7, <4>1 DEF Settled, SameLead
      <3>4. CASE queue[x][1].op = "save" /\ x \in tombs
        BY <2>5, <3>1, <3>2, <3>4, <3>6 DEF Changes, InStore, Skips, IsSave
      <3>5. CASE ~(queue[x][1].op = "save" /\ x \in tombs)
        <4>1. queue[x] \in Seq(Saves(edits) \cup Deletes) /\ queue[x] # <<>>
          BY <3>1 DEF Taken, TInv
        <4>2. queue[x][1] \in Saves(edits) \cup Deletes
          BY <4>1, Taking
        <4>3. queue[x][1].op \in {"save", "delete"}
          BY <4>2 DEF Saves, Deletes
        <4>4. running'[x].op = queue[x][1].op /\ running'[x].doc = queue[x][1].doc
              /\ running'[x].tells = queue[x][1].tells /\ running'[x].old = queue[x][1].old
          BY <3>3, <3>5
        <4>6. IsSave(queue[x][1]) => running'[x].sent.led = (queue[x][1].doc.led /\ Lead \notin tombs)
          <5>1. PICK w \in Saves(edits) \cup Deletes : w = queue[x][1]
            BY <4>2
          <5>2. IsSave(w) => w.doc \in Texts(edits) /\ w.doc # None
            BY Nones DEF Saves, Deletes, IsSave, TInv
          <5>3. \A d \in Texts(edits) : Stripped(d).led = (d.led /\ Lead \notin tombs)
            BY DEF Texts, Docs, Stripped
          <5>4. w.doc # None => running'[x].sent = Stripped(w.doc)
            BY <3>3, <3>5, <5>1
          <5> QED
            BY <5>1, <5>2, <5>3, <5>4
        <4>5. running'[x] # None
          <5>1. [op |-> queue[x][1].op, doc |-> queue[x][1].doc, tells |-> queue[x][1].tells, old |-> queue[x][1].old,
                 sent |-> IF queue[x][1].doc = None THEN None ELSE Stripped(queue[x][1].doc)] \in Run
            <6>1. PICK w \in Saves(edits) \cup Deletes : w = queue[x][1]
              BY <4>2
            <6>2. w.op \in {"save", "delete"} /\ w.tells \in BOOLEAN /\ w.old \in BOOLEAN
                  /\ (w.doc # None => w.doc \in Docs(edits))
              BY DEF Saves, Deletes, Texts
            <6>3. MaxEdits \in Nat /\ edits \in 0..MaxEdits
              BY WritesAssumption DEF TInv
            <6>4. Docs(edits) \subseteq Transcript
              BY <6>3 DEF Docs, Transcript
            <6>5. w.doc # None => w.doc \in Transcript /\ Stripped(w.doc) \in Transcript
              BY <6>2, <6>4 DEF Stripped, Transcript
            <6>6. [op |-> w.op, doc |-> w.doc, tells |-> w.tells, old |-> w.old,
                   sent |-> IF w.doc = None THEN None ELSE Stripped(w.doc)] \in Run
              BY <6>2, <6>5 DEF Run
            <6> QED
              BY <6>1, <6>6
          <5> QED
            BY <3>3, <3>5, <5>1, WriteRecordsAssumption
        <4> QED
          BY <2>5, <3>1, <3>5, <3>6, <4>4, <4>5, <4>6 DEF Changes, InStore, Starts, IsSave
      <3> QED
        BY <3>4, <3>5
    <2> QED
      BY <2>6, <2>7
  <1>2. CASE SaveLands(s)
    <2>1. Stage(x)' = Stage(x)
      BY <1>0, <1>2 DEF SaveLands
    <2>2. SameMark(x) /\ SameClosed(x) /\ SameLoss(x) /\ SameTurn(x) /\ (x \in gone' <=> x \in gone)
          /\ open'[x] = open[x] /\ observed'[x] = observed[x] /\ pending'[x] = pending[x] /\ queue'[x] = queue[x]
      BY <1>2, <2>1 DEF SaveLands, Settled, SameMark, SameClosed, SameLoss, SameTurn, closedVars, TInv
    <2>5. x # s \/ queue[x] # <<>> => SameLead(x)
      BY <1>2, <1>a DEF SaveLands
    <2>3. CASE x # s
      <3>1. stored'[x] = stored[x] /\ last'[x] = last[x] /\ running'[x] = running[x] /\ SameLead(x) /\ SameAge(x)
        BY <1>2, <2>3, <2>5 DEF SaveLands, Settled, SameAge, TInv
      <3> QED
        BY <2>2, <3>1, AsideSame DEF Changes, SameStore, SameApp, SameQueue, SamePast
    <2>4. CASE x = s
      <3>1. /\ RunsSave(x) /\ stored'[x] = running[x].sent /\ running'[x] = None
            /\ last'[x] = IF running[x].tells THEN running[x].doc ELSE last[x]
            /\ x \in outdated' <=> running[x].old
        BY <1>2, <2>4 DEF SaveLands, Settled, RunsSave, IsSave, TInv
      <3> QED
        BY <2>2, <2>5, <3>1 DEF Changes, InStore, Stores
    <2> QED
      BY <2>3, <2>4
  <1>3. CASE DeleteLands(s)
    <2>1. SameApp(x) /\ SameClosed(x) /\ SameLoss(x) /\ (x \in tombs' <=> x \in tombs) /\ queue'[x] = queue[x]
          /\ outdated' = outdated \ {s}
      BY <1>3 DEF DeleteLands, Settled, SameApp, SameTurn, SameClosed, SameLoss, appVars, closedVars, TInv
    <2>5. x # s \/ queue[x] # <<>> => SameLead(x)
      BY <1>3, <1>a DEF DeleteLands
    <2>2. /\ Alike(stored[x], Released(stored, s)[x])
          /\ Released(stored, s)[x] # stored[x] => s = Lead /\ ~Led(Released(stored, s)[x])
      <3>1. stored[x] # None =>
              /\ [stored[x] EXCEPT !.led = FALSE].text = stored[x].text
              /\ [stored[x] EXCEPT !.led = FALSE] # None
              /\ ~[stored[x] EXCEPT !.led = FALSE].led
        <4>1. stored[x] # None => [stored[x] EXCEPT !.led = FALSE] \in Docs(edits)
                                   /\ [stored[x] EXCEPT !.led = FALSE].text = stored[x].text
                                   /\ ~[stored[x] EXCEPT !.led = FALSE].led
          <5>1. ASSUME NEW d \in Docs(edits)
                PROVE  [d EXCEPT !.led = FALSE] \in Docs(edits) /\ [d EXCEPT !.led = FALSE].text = d.text
                       /\ ~[d EXCEPT !.led = FALSE].led
            BY DEF Docs
          <5>2. stored[x] # None => stored[x] \in Docs(edits)
            BY DEF Texts, TInv
          <5> QED
            BY <5>1, <5>2
        <4> QED
          BY <4>1, Nones DEF TInv
      <3> QED
        BY <3>1 DEF Released, Alike, Led
    <2>3. CASE x # s
      <3>1. stored'[x] = Released(stored, s)[x]
        BY <1>3, <2>3 DEF DeleteLands, Released
      <3>2. removing'[x] = Counted(s)[x] /\ (x \in gone' <=> x \in gone) /\ running'[x] = running[x]
        <4>1. running'[x] = running[x] /\ (x \in gone' <=> x \in gone)
          BY <1>3, <2>3 DEF DeleteLands, Settled, TInv
        <4>2. removing'[x] = Counted(s)[x]
          BY <1>3, <2>3 DEF DeleteLands, Counted
        <4> QED
          BY <4>1, <4>2
      <3>3. Stage(x)' = Stage(x)
        BY <3>2, CountedStage, Stages, StagesNext
      <3>4. RunsDelete(s)
        BY <1>3 DEF DeleteLands, RunsDelete
      <3> QED
        BY <2>1, <2>2, <2>3, <2>5, <3>1, <3>2, <3>3, <3>4
           DEF Changes, Aside, SameQueue, SameMark, SameApp, SameClosed, SamePast, SameAge, Alike
    <2>4. CASE x = s
      <3>1. RunsDelete(x) /\ stored'[x] = None /\ running'[x] = None
        BY <1>3, <2>4 DEF DeleteLands, Settled, Released, RunsDelete, TInv
      <3>2. CASE running[x].tells
        <4>1. Ends(running[x]) /\ removing[x] # None /\ x \in gone'
          BY <1>3, <2>4, <3>2 DEF DeleteLands, Ends, DInv, OneEnd, Stage
        <4>2. removing' = [Counted(s) EXCEPT ![s] = [Counted(s)[s] EXCEPT !.at = "deleted"]]
          BY <1>3, <2>4, <3>2 DEF DeleteLands
        <4>3. removing'[x] = [Counted(s)[x] EXCEPT !.at = "deleted"]
          BY <2>4, <4>2 DEF Counted
        <4>4. Counted(s)[x] = [at |-> removing[x].at, waits |-> [removing[x].waits EXCEPT ![s] = IF @ = 0 THEN 0 ELSE @ - 1]]
          BY <4>1 DEF Counted
        <4>5. removing'[x].at = "deleted"
          BY <4>3, <4>4
        <4>6. removing'[x] # None
          <5>1. removing[x] \in Removal
            BY <4>1 DEF TInv
          <5>2. removing'[x] \in Removal
            BY <4>3, <4>4, <5>1 DEF Removal
          <5> QED
            BY <5>2, WriteRecordsAssumption
        <4>7. Stage(x)' = "deleted"
          BY <4>5, <4>6 DEF Stage
        <4> QED
          BY <2>1, <2>4, <2>5, <3>1, <4>1, <4>7 DEF Changes, InStore, Erases
      <3>3. CASE ~running[x].tells
        <4>1. ~Ends(running[x]) /\ (x \in gone' <=> x \in gone) /\ removing' = Counted(s)
          BY <1>3, <2>4, <3>3 DEF DeleteLands, Ends
        <4> QED
          BY <1>0, <2>1, <2>4, <2>5, <3>1, <4>1 DEF Changes, InStore, Erases
      <3> QED
        BY <3>2, <3>3
    <2> QED
      BY <2>3, <2>4
  <1>4. CASE WriteFails(s)
    <2>1. SameStore(x) /\ SameApp(x) /\ SameClosed(x) /\ (x \in early' <=> x \in early)
          /\ withdrawn'[x] = withdrawn[x] /\ queue'[x] = queue[x] /\ SameAge(x)
      BY <1>4 DEF WriteFails, Settled, SameStore, SameApp, SameTurn, SameClosed, SameAge, storeVars, appVars, closedVars, TInv
    <2>5. x # s \/ queue[x] # <<>> => SameLead(x)
      BY <1>4, <1>a DEF WriteFails
    <2>2. CASE x # s
      <3>1. running'[x] = running[x] /\ (x \in dropped' <=> x \in dropped) /\ (x \in tombs' <=> x \in tombs)
            /\ removing'[x] = Counted(s)[x]
        <4>1. running'[x] = running[x] /\ (x \in dropped' <=> x \in dropped) /\ (x \in tombs' <=> x \in tombs)
          BY <1>4, <2>2 DEF WriteFails, Settled, TInv
        <4>2. removing'[x] = Counted(s)[x]
          BY <1>4, <2>2 DEF WriteFails, Counted
        <4> QED
          BY <4>1, <4>2
      <3>2. Stage(x)' = Stage(x)
        BY <3>1, CountedStage, Stages, StagesNext
      <3> QED
        BY <2>1, <2>2, <2>5, <3>1, <3>2, AsideSame DEF Changes, SameQueue, SameMark, SamePast, SameLoss
    <2>3. CASE x = s
      <3>1. running[x] # None /\ running'[x] = None /\ x \in dropped'
        BY <1>4, <2>3 DEF WriteFails, Settled, TInv
      <3>2. CASE Ends(running[x])
        <4>1. removing'[x] = None /\ x \notin tombs'
          BY <1>4, <2>3, <3>2 DEF WriteFails, Ends, Counted
        <4>2. Stage(x)' = "none"
          BY <4>1 DEF Stage
        <4> QED
          BY <2>1, <2>5, <3>1, <3>2, <4>1, <4>2 DEF Changes, InStore, Fails
      <3>3. CASE ~Ends(running[x])
        <4>1. removing' = Counted(s) /\ tombs' = tombs
          BY <1>4, <2>3, <3>3 DEF WriteFails, Ends
        <4>2. SameMark(x)
          BY <1>0, <4>1 DEF SameMark
        <4> QED
          BY <2>1, <2>5, <3>1, <3>3, <4>2 DEF Changes, InStore, Fails
      <3> QED
        BY <3>2, <3>3
    <2> QED
      BY <2>2, <2>3
  <1> QED
    BY <1>1, <1>2, <1>3, <1>4

Old(x, doc) == ~(open[x].text \subseteq doc.text)

LEMMA UpsertAt ==
    ASSUME NEW docs, NEW tells, Upsert(docs, tells), NEW x \in Sessions
    PROVE  /\ running' = running /\ tombs' = tombs
           /\ ShouldPersist(docs[x]) /\ x \notin tombs =>
                queue'[x] = Append(queue[x], SaveOf(docs[x], tells, Old(x, docs[x]))) /\ (x \in leadById' <=> docs[x].led)
           /\ ~(ShouldPersist(docs[x]) /\ x \notin tombs) => queue'[x] = queue[x] /\ SameLead(x)
  BY DEF Upsert, SaveOf, SameLead, Old

\* Of docs a save writes those that are not being removed and have changed.
Kept(x, doc) == removing[x] = None /\ doc # last[x] /\ ShouldPersist(doc) /\ x \notin tombs

LEMMA PersistAt ==
    ASSUME NEW docs, Persist(docs), NEW x \in Sessions
    PROVE  /\ running' = running /\ tombs' = tombs
           /\ Kept(x, docs[x]) =>
                queue'[x] = Append(queue[x], SaveOf(docs[x], TRUE, Old(x, docs[x]))) /\ (x \in leadById' <=> docs[x].led)
           /\ ~Kept(x, docs[x]) => queue'[x] = queue[x] /\ SameLead(x)
  <1>1. PICK kept : kept = [y \in Sessions |-> IF removing[y] = None /\ docs[y] # last[y] THEN docs[y] ELSE None]
    OBVIOUS
  <1>2. Upsert(kept, TRUE)
    BY <1>1 DEF Persist
  <1>3. kept[x] = IF removing[x] = None /\ docs[x] # last[x] THEN docs[x] ELSE None
    BY <1>1
  <1>4. Kept(x, docs[x]) => kept[x] = docs[x] /\ ShouldPersist(kept[x]) /\ x \notin tombs
    BY <1>3 DEF Kept
  <1>5. ~Kept(x, docs[x]) => ~(ShouldPersist(kept[x]) /\ x \notin tombs)
    BY <1>3 DEF Kept, ShouldPersist
  <1> QED
    BY <1>2, <1>4, <1>5, UpsertAt

\* A save of what is mounted, which is never an old copy.
LEMMA PersistedAt ==
    ASSUME NEW s \in Sessions, Persist(Only(s, open[s])), NEW x \in Sessions
    PROVE  /\ running' = running /\ tombs' = tombs
           /\ x = s /\ Kept(x, open[x]) =>
                queue'[x] = Append(queue[x], SaveOf(open[x], TRUE, FALSE)) /\ (x \in leadById' <=> open[x].led)
           /\ ~(x = s /\ Kept(x, open[x])) => queue'[x] = queue[x] /\ SameLead(x)
  <1>1. Only(s, open[s])[x] = IF x = s THEN open[x] ELSE None
    BY DEF Only
  <1>2. ~Kept(x, None) /\ Old(x, open[x]) = FALSE
    BY DEF Kept, ShouldPersist, Old
  <1> QED
    BY <1>1, <1>2, PersistAt

LEMMA ChangeAt ==
    ASSUME TInv, TInv', NEW s \in Sessions, NEW now, NEW turned, turned \subseteq {s}, Change(s, now, turned),
           open[s].text \subseteq now[s].text, NEW x \in Sessions
    PROVE  /\ open' = now /\ running' = running /\ tombs' = tombs /\ removing' = removing
           /\ x \notin turned => Looks(x, pending[x])
           /\ x \in turned /\ now[x] # None => LooksAgain(x, pending[x])
           /\ x # s => SameQueue(x)
           /\ SameQueue(x) \/ (Stage(x) = "none" /\ x \notin tombs /\ ShouldPersist(open'[x]) /\ Queued(x, TRUE))
  <1>1. PICK fresh \in SUBSET {s} :
          /\ Effect(now, pending, turned, fresh)
          /\ IF fresh = {} THEN UNCHANGED queueVars ELSE Persist(Only(s, now[s]))
    BY DEF Change
  <1>2. /\ open' = now /\ removing' = removing
        /\ x \notin turned => Looks(x, pending[x])
        /\ x \in turned /\ now[x] # None => LooksAgain(x, pending[x])
    BY <1>1, EffectLooks DEF Change
  <1>3. CASE UNCHANGED queueVars
    BY <1>2, <1>3 DEF SameQueue, SameLead, queueVars
  <1>4. CASE Persist(Only(s, now[s]))
    <2>0. PICK docs : docs = Only(s, now[s])
      OBVIOUS
    <2>1. Persist(docs) /\ docs[x] = IF x = s THEN now[x] ELSE None
      BY <1>4, <2>0 DEF Only
    <2>2. running' = running /\ tombs' = tombs
      BY <2>1, PersistAt
    <2>3. ~Kept(x, None) /\ (x = s => Old(x, now[x]) = FALSE)
      BY DEF Kept, ShouldPersist, Old
    <2>6. Kept(x, docs[x]) =>
            queue'[x] = Append(queue[x], SaveOf(docs[x], TRUE, Old(x, docs[x]))) /\ (x \in leadById' <=> docs[x].led)
      BY <2>1, PersistAt
    <2>7. x = s => docs[x] = now[x]
      BY <2>1
    <2>4. CASE x = s /\ Kept(x, now[x])
      <3>1. queue'[x] = Append(queue[x], SaveOf(now[x], TRUE, FALSE)) /\ (x \in leadById' <=> now[x].led)
        BY <2>3, <2>4, <2>6, <2>7
      <3>2. removing[x] = None /\ x \notin tombs /\ ShouldPersist(now[x]) /\ Stage(x) = "none"
        BY <2>4, Stages DEF Kept
      <3> QED
        BY <1>2, <2>2, <2>4, <3>1, <3>2 DEF Queued
    <2>5. CASE ~(x = s /\ Kept(x, now[x]))
      <3>1. queue'[x] = queue[x] /\ SameLead(x)
        BY <2>1, <2>3, <2>5, PersistAt
      <3> QED
        BY <1>2, <2>2, <3>1 DEF SameQueue
    <2> QED
      BY <2>4, <2>5
  <1> QED
    BY <1>1, <1>3, <1>4

\* What is mounted is no deleted conversation, unless its removal is ending.
LEMMA PendingAt ==
    ASSUME TInv, DInv, LInv, NEW x \in Sessions, pending[x] # None
    PROVE  /\ open[x] # None /\ open[x].text # {} /\ observed[x] = open[x]
           /\ pending[x].text \subseteq open[x].text /\ pending[x].led = open[x].led /\ ShouldPersist(pending[x])
           /\ removing[x] = None /\ Stage(x) = "none" /\ x \notin tombs /\ x \notin gone
  <1>1. /\ open[x] # None /\ observed[x] = open[x] /\ Stage(x) = "none"
        /\ pending[x].text \subseteq open[x].text /\ pending[x].led = open[x].led
    BY DEF LInv, OnePlace
  <1>2. pending[x].text # {}
    BY DEF TInv, Texts
  <1>3. x \notin gone
    BY <1>1 DEF DInv, Deleted
  <1>4. x \notin tombs
    BY <1>1, <1>3 DEF DInv, Marked
  <1> QED
    BY <1>1, <1>2, <1>3, <1>4, Stages DEF ShouldPersist

LEMMA AppChanges ==
    ASSUME TInv, TInv', DInv, LInv, NEW s \in Sessions,
           Edit(s) \/ Begin(s) \/ End(s) \/ PersistNow(s) \/ Discard(s) \/ Flush \/ Hide,
           NEW x \in Sessions
    PROVE  Changes(x)
  <1>1. CASE Edit(s)
    <2>0. open[s] \in Docs(edits) /\ open[s] # None
      BY <1>1 DEF Edit, TInv
    <2>1. PICK now, none : now = [open EXCEPT ![s].text = @ \cup {edits + 1}] /\ none = {} /\ Change(s, now, none)
      BY <1>1 DEF Edit
    <2>8. /\ now[s] = [open[s] EXCEPT !.text = open[s].text \cup {edits + 1}]
          /\ x # s => now[x] = open[x]
      BY <2>1 DEF TInv
    <2>2. now[s] = [text |-> open[s].text \cup {edits + 1}, led |-> open[s].led]
      BY <2>0, <2>8 DEF Docs
    <2>3. open[s].text \subseteq now[s].text /\ none \subseteq {s} /\ x \notin none
      BY <2>1, <2>2
    <2>6. /\ open' = now /\ running' = running /\ tombs' = tombs /\ removing' = removing
          /\ Looks(x, pending[x]) /\ (x # s => SameQueue(x))
          /\ SameQueue(x) \/ (Stage(x) = "none" /\ x \notin tombs /\ ShouldPersist(open'[x]) /\ Queued(x, TRUE))
      BY <2>1, <2>3, ChangeAt
    <2>7. SameStore(x) /\ SameMark(x) /\ SameClosed(x) /\ SamePast(x) /\ SameTurn(x) /\ last'[x] = last[x]
      BY <1>1, <2>6, StageKept DEF Edit, SameStore, SameMark, SameClosed, SamePast, SameLoss, SameAge, SameTurn,
                                  storeVars, closedVars, pastVars
    <2>4. CASE x # s
      BY <2>4, <2>6, <2>7, <2>8, AsideLooks DEF Changes
    <2>5. CASE x = s
      <3>1. open'[x] # None
        <4>1. edits + 1 \in 0..MaxEdits /\ edits \in Nat
          BY <1>1, WritesAssumption DEF Edit, TInv
        <4>2. now[s] \in Docs(edits + 1)
          <5>1. open[s].text \cup {edits + 1} \in SUBSET (0..(edits + 1)) /\ open[s].led \in BOOLEAN
            BY <2>0, <4>1 DEF Docs
          <5> QED
            BY <2>2, <5>1 DEF Docs
        <4> QED
          BY <2>5, <2>6, <4>1, <4>2, Nones
      <3> QED
        BY <2>0, <2>2, <2>5, <2>6, <2>7, <3>1 DEF Changes, InApp, Grows, ShouldPersist
    <2> QED
      BY <2>4, <2>5
  <1>6. CASE Begin(s) \/ End(s)
    <2>1. PICK turned : turned = {s} /\ Change(s, open, turned)
      BY <1>6 DEF Begin, End
    <2>6. open[s] # None /\ open[s].text \subseteq open[s].text /\ turned \subseteq {s} /\ (x \in turned <=> x = s)
      BY <1>6, <2>1 DEF Begin, End, ShouldPersist
    <2>2. /\ open' = open /\ running' = running /\ tombs' = tombs /\ removing' = removing
          /\ (x # s => Looks(x, pending[x])) /\ (x = s => LooksAgain(x, pending[x])) /\ (x # s => SameQueue(x))
          /\ SameQueue(x) \/ (Stage(x) = "none" /\ x \notin tombs /\ ShouldPersist(open'[x]) /\ Queued(x, TRUE))
      BY <2>1, <2>6, ChangeAt
    <2>3. SameStore(x) /\ SameMark(x) /\ SameClosed(x) /\ SamePast(x) /\ last'[x] = last[x]
      BY <1>6, <2>2, StageKept DEF Begin, End, SameStore, SameMark, SameClosed, SamePast, SameLoss, SameAge,
                                  storeVars, closedVars, pastVars
    <2>4. CASE x # s
      <3>1. SameTurn(x)
        BY <1>6, <2>4 DEF Begin, End, SameTurn
      <3> QED
        BY <2>2, <2>3, <2>4, <3>1, AsideLooks DEF Changes
    <2>5. CASE x = s
      BY <2>2, <2>3, <2>5, <2>6 DEF Changes, InApp, Grows, ShouldPersist
    <2> QED
      BY <2>4, <2>5
  <1>2. CASE PersistNow(s)
    <2>1. Persist(Only(s, open[s]))
      BY <1>2 DEF PersistNow
    <2>2. SameStore(x) /\ SameMark(x) /\ SameApp(x) /\ SameClosed(x) /\ SamePast(x) /\ running'[x] = running[x]
      BY <1>2, <2>1, StageKept, PersistedAt
         DEF PersistNow, SameStore, SameMark, SameApp, SameTurn, SameClosed, SamePast, SameLoss, SameAge,
             storeVars, appVars, closedVars, pastVars
    <2>5. CASE ~(x = s /\ Kept(x, open[x]))
      BY <2>1, <2>2, <2>5, PersistedAt, AsideSame DEF Changes, SameQueue
    <2>6. CASE x = s /\ Kept(x, open[x])
      <3>1. open[x] # None /\ open[x].text # {} /\ x \notin tombs
            /\ queue'[x] = Append(queue[x], SaveOf(open[x], TRUE, FALSE)) /\ (x \in leadById' <=> open[x].led)
        BY <2>1, <2>6, PersistedAt DEF Kept, ShouldPersist
      <3>2. open'[x] = open[x]
        BY <2>2 DEF SameApp
      <3> QED
        BY <2>2, <3>1, <3>2 DEF Changes, InApp, SavesOpen, Queued
    <2> QED
      BY <2>5, <2>6
  <1>3. CASE Discard(s)
    <2>1. Effect([open EXCEPT ![s].text = {}], [pending EXCEPT ![s] = None], {}, {})
      BY <1>3 DEF Discard
    <2>2. open' = [open EXCEPT ![s].text = {}] /\ Looks(x, [pending EXCEPT ![s] = None][x])
      BY <2>1, EffectLooksOnce
    <2>3. SameStore(x) /\ SameMark(x) /\ running'[x] = running[x]
          /\ (x \in dropped' <=> x \in dropped) /\ (x \in early' <=> x \in early) /\ SameTurn(x) /\ SameAge(x)
      BY <1>3, StageKept DEF Discard, SameStore, SameMark, SameTurn, SameAge, storeVars
    <2>4. CASE x # s
      <3>1. open'[x] = open[x] /\ Looks(x, pending[x])
        BY <2>2, <2>4 DEF TInv
      <3>2. SameQueue(x) /\ SameClosed(x) /\ SamePast(x) /\ last'[x] = last[x]
        BY <1>3, <2>3, <2>4 DEF Discard, SameQueue, SameLead, SameClosed, SamePast, SameLoss, TInv
      <3> QED
        BY <2>3, <3>1, <3>2, AsideLooks DEF Changes
    <2>5. CASE x = s
      <3>1. open[x] \in Docs(edits) /\ open[x] # None
        BY <1>3, <2>5 DEF Discard, TInv
      <3>2. open'[x] = [open[x] EXCEPT !.text = {}] /\ Looks(x, None)
        BY <2>2, <2>5 DEF TInv
      <3>3. open'[x] = [text |-> {}, led |-> open[x].led]
        BY <3>1, <3>2 DEF Docs
      <3>4. last'[x] = None /\ cache'[x] = None /\ loading'[x] = None
            /\ queue'[x] = Append(queue[x], DeleteOf(FALSE))
            /\ withdrawn'[x] = withdrawn[x] \cup open[x].text /\ SameLead(x) /\ x # Lead
        BY <1>3, <2>5 DEF Discard, DeleteOf, SameLead, TInv
      <3> QED
        BY <2>3, <3>1, <3>2, <3>3, <3>4 DEF Changes, InApp, Discards
    <2> QED
      BY <2>4, <2>5
  <1>4. CASE Flush
    <2>1. Persist(pending)
      BY <1>4 DEF Flush
    <2>3. SameStore(x) /\ SameMark(x) /\ SameClosed(x) /\ running'[x] = running[x] /\ SameTurn(x) /\ SameAge(x)
          /\ open'[x] = open[x] /\ observed'[x] = observed[x] /\ last'[x] = last[x] /\ pending'[x] = None
          /\ (x \in early' <=> x \in early) /\ withdrawn'[x] = withdrawn[x]
      BY <1>4, <2>1, StageKept, PersistAt
         DEF Flush, SameStore, SameMark, SameClosed, SameTurn, SameAge, storeVars, closedVars
    <2>4. CASE pending[x] = None
      <3>1. queue'[x] = queue[x] /\ SameLead(x)
        BY <2>1, <2>4, PersistAt DEF Kept, ShouldPersist
      <3>2. x \in dropped' <=> x \in dropped
        BY <1>4, <2>4 DEF Flush
      <3> QED
        BY <2>3, <2>4, <3>1, <3>2, AsideSame DEF Changes, SameQueue, SameApp, SamePast, SameLoss
    <2>5. CASE pending[x] # None
      <3>1. removing[x] = None /\ x \notin tombs /\ ShouldPersist(pending[x])
        BY <2>5, PendingAt
      <3>2. IF pending[x] # last[x]
              THEN /\ queue'[x] = Append(queue[x], SaveOf(pending[x], TRUE, Old(x, pending[x])))
                   /\ x \in leadById' <=> pending[x].led
              ELSE queue'[x] = queue[x] /\ SameLead(x)
        BY <2>1, <3>1, PersistAt DEF Kept
      <3>3. x \in dropped' <=> x \in dropped
        BY <1>4, <3>1 DEF Flush
      <3> QED
        BY <2>3, <2>5, <3>1, <3>2, <3>3 DEF Changes, InApp, Flushes, SamePast, SameLoss, Old
    <2> QED
      BY <2>4, <2>5
  <1>5. CASE Hide
    <2>1. /\ running' = running /\ tombs' = tombs
          /\ ShouldPersist(open[x]) /\ x \notin tombs =>
               queue'[x] = Append(queue[x], SaveOf(open[x], FALSE, FALSE)) /\ (x \in leadById' <=> open[x].led)
          /\ ~(ShouldPersist(open[x]) /\ x \notin tombs) => queue'[x] = queue[x] /\ SameLead(x)
      <3>1. Old(x, open[x]) = FALSE
        BY DEF Old
      <3> QED
        BY <1>5, <3>1, UpsertAt DEF Hide
    <2>2. SameStore(x) /\ SameMark(x) /\ SameApp(x) /\ SameClosed(x) /\ SamePast(x) /\ running'[x] = running[x]
      BY <1>5, <2>1, StageKept
         DEF Hide, SameStore, SameMark, SameApp, SameTurn, SameClosed, SamePast, SameLoss, SameAge,
             storeVars, appVars, closedVars, pastVars
    <2>3. CASE ShouldPersist(open[x]) /\ x \notin tombs
      <3>1. open'[x] = open[x]
        BY <2>2 DEF SameApp
      <3> QED
        BY <2>1, <2>2, <2>3, <3>1 DEF Changes, InApp, SavesOpen, ShouldPersist, Queued
    <2>4. CASE ~(ShouldPersist(open[x]) /\ x \notin tombs)
      BY <2>1, <2>2, <2>4, AsideSame DEF Changes, SameQueue
    <2> QED
      BY <2>3, <2>4
  <1> QED
    BY <1>1, <1>2, <1>3, <1>4, <1>5, <1>6

LEMMA ClosedChanges ==
    ASSUME TInv, TInv', DInv, LInv, NEW s \in Sessions,
           Close(s) \/ Reopen(s) \/ Prefetch(s) \/ Reads(s) \/ Loaded(s),
           NEW x \in Sessions
    PROVE  Changes(x)
  <1>0. None \notin Loads(edits)
    BY Nones DEF TInv
  <1>1. CASE Close(s)
    <2>1. Persist(Only(s, open[s])) /\ s \notin busy
      BY <1>1 DEF Close
    <2>2. /\ running' = running /\ tombs' = tombs
          /\ x = s /\ Kept(x, open[x]) =>
               queue'[x] = Append(queue[x], SaveOf(open[x], TRUE, FALSE)) /\ (x \in leadById' <=> open[x].led)
          /\ ~(x = s /\ Kept(x, open[x])) => queue'[x] = queue[x] /\ SameLead(x)
      BY <2>1, PersistedAt
    <2>3. Effect([open EXCEPT ![s] = None], pending, {}, {})
      BY <1>1 DEF Close
    <2>4. open' = [open EXCEPT ![s] = None] /\ Looks(x, pending[x])
      BY <2>3, EffectLooksOnce
    <2>5. SameStore(x) /\ SameMark(x) /\ running'[x] = running[x] /\ last'[x] = last[x] /\ loading'[x] = loading[x]
          /\ (x \in early' <=> x \in early) /\ withdrawn'[x] = withdrawn[x] /\ SameAge(x) /\ SameTurn(x)
      BY <1>1, <2>2, StageKept DEF Close, SameStore, SameMark, SameAge, SameTurn, storeVars
    <2>6. CASE x # s
      <3>1. open'[x] = open[x] /\ cache'[x] = cache[x] /\ (x \in dropped' <=> x \in dropped)
        BY <1>1, <2>4, <2>6 DEF Close, TInv
      <3>2. queue'[x] = queue[x] /\ SameLead(x)
        BY <2>2, <2>6
      <3> QED
        BY <2>4, <2>5, <3>1, <3>2, AsideLooks DEF Changes, SameQueue, SameClosed, SamePast, SameLoss, SameAge
    <2>7. CASE x = s
      <3>1. open[x] # None /\ open'[x] = None /\ observed'[x] = None /\ pending'[x] = None
        BY <1>1, <2>4, <2>7 DEF Close, TInv, Looks
      <3>2. cache'[x] = cache[x] \/ (open[x].text # {} /\ cache'[x] = open[x])
        BY <1>1, <2>7 DEF Close, TInv, ShouldPersist
      <3>3. x \in dropped' <=> x \in dropped \/ Stage(x) # "none"
        BY <1>1, <2>7, Stages DEF Close
      <3>4. Kept(x, open[x]) <=> Stage(x) = "none" /\ open[x] # last[x] /\ open[x].text # {} /\ x \notin tombs
        BY <3>1, Stages DEF Kept, ShouldPersist
      <3> QED
        BY <2>2, <2>5, <2>7, <3>1, <3>2, <3>3, <3>4 DEF Changes, InClosed, Closes
    <2> QED
      BY <2>6, <2>7
  <1>2. CASE Reopen(s)
    <2>1. SameStore(x) /\ SameQueue(x) /\ SameMark(x) /\ SamePast(x) /\ SameTurn(x)
      BY <1>2, StageKept DEF Reopen, SameTurn, SameStore, SameQueue, SameLead, SameMark, SamePast, SameLoss, SameAge, storeVars,
         queueVars, pastVars
    <2>2. CASE cache[s] # None
      <3>1. cache' = [cache EXCEPT ![s] = None] /\ loading' = loading
        BY <1>2, <2>2 DEF Reopen
      <3>2. CASE removing[s] # None
        <4>1. SameApp(x)
          BY <1>2, <2>2, <3>2 DEF Reopen, SameApp, SameTurn, appVars
        <4>2. CASE x # s
          <5>1. SameClosed(x)
            BY <3>1, <4>2 DEF SameClosed, TInv
          <5> QED
            BY <2>1, <4>1, <5>1, AsideSame DEF Changes
        <4>3. CASE x = s
          <5>1. open[x] = None /\ cache[x] # None /\ cache'[x] = None /\ loading'[x] = loading[x] /\ Stage(x) # "none"
            BY <1>2, <2>2, <3>1, <3>2, <4>3, Stages DEF Reopen, TInv
          <5> QED
            BY <2>1, <4>1, <5>1 DEF Changes, InClosed, Recalls
        <4> QED
          BY <4>2, <4>3
      <3>3. CASE removing[s] = None
        <4>1. Effect([open EXCEPT ![s] = cache[s]], pending, {}, {}) /\ last' = [last EXCEPT ![s] = cache[s]]
          BY <1>2, <2>2, <3>3 DEF Reopen
        <4>2. open' = [open EXCEPT ![s] = cache[s]] /\ Looks(x, pending[x])
          BY <4>1, EffectLooksOnce
        <4>3. CASE x # s
          <5>1. SameClosed(x) /\ open'[x] = open[x] /\ last'[x] = last[x]
            BY <3>1, <4>1, <4>2, <4>3 DEF SameClosed, TInv
          <5> QED
            BY <2>1, <4>2, <5>1, AsideLooks DEF Changes
        <4>4. CASE x = s
          <5>1. open[x] = None /\ cache[x] # None /\ cache'[x] = None /\ loading'[x] = loading[x] /\ Stage(x) = "none"
                /\ open'[x] = cache[x] /\ last'[x] = cache[x]
            BY <1>2, <2>2, <3>1, <3>3, <4>1, <4>2, <4>4, Stages DEF Reopen, TInv
          <5> QED
            BY <2>1, <4>2, <5>1 DEF Changes, InClosed, Recalls
        <4> QED
          BY <4>3, <4>4
      <3> QED
        BY <3>2, <3>3
    <2>3. CASE cache[s] = None
      <3>1. SameApp(x) /\ cache' = cache
        BY <1>2, <2>3 DEF Reopen, SameApp, SameTurn, appVars
      <3>2. PICK l : /\ l = IF loading[s] = None THEN [opens |-> TRUE, read |-> FALSE, doc |-> None]
                            ELSE [opens |-> TRUE, read |-> loading[s].read, doc |-> loading[s].doc]
                     /\ loading' = [loading EXCEPT ![s] = l]
        BY <1>2, <2>3 DEF Reopen
      <3>3. CASE x # s
        <4>1. SameClosed(x)
          BY <3>1, <3>2, <3>3 DEF SameClosed, TInv
        <4> QED
          BY <2>1, <3>1, <4>1, AsideSame DEF Changes
      <3>4. CASE x = s
        <4>1. l \in Loads(edits)
          BY <3>2 DEF Loads, TInv
        <4>2. l # None /\ loading'[x] = l
          BY <1>0, <3>2, <3>4, <4>1 DEF TInv
        <4>3. l.read = (loading[x] # None /\ loading[x].read) /\ l.doc = IF loading[x] = None THEN None ELSE loading[x].doc
          <5>1. loading[s] # None => loading[s].read \in BOOLEAN
            BY DEF TInv, Loads
          <5> QED
            BY <3>2, <3>4, <5>1
        <4>4. x \notin gone /\ open[x] = None /\ cache[x] = None /\ cache'[x] = cache[x]
          BY <1>2, <2>3, <3>1, <3>4 DEF Reopen
        <4> QED
          BY <2>1, <3>1, <4>2, <4>3, <4>4 DEF Changes, InClosed, Asks
      <3> QED
        BY <3>3, <3>4
    <2> QED
      BY <2>2, <2>3
  <1>3. CASE Prefetch(s)
    <2>1. SameStore(x) /\ SameQueue(x) /\ SameMark(x) /\ SamePast(x) /\ SameApp(x) /\ cache'[x] = cache[x]
      BY <1>3, StageKept DEF Prefetch, SameStore, SameQueue, SameLead, SameMark, SamePast, SameLoss, SameAge, SameApp, SameTurn,
                             storeVars, queueVars, appVars, pastVars
    <2>2. CASE x # s
      <3>1. loading'[x] = loading[x]
        BY <1>3, <2>2 DEF Prefetch, TInv
      <3> QED
        BY <2>1, <3>1, AsideSame DEF Changes, SameClosed
    <2>3. CASE x = s
      <3>1. PICK l \in Loads(edits) : l = [opens |-> FALSE, read |-> FALSE, doc |-> None]
        BY DEF Loads
      <3>2. l # None /\ loading'[x] = l /\ l.read = FALSE /\ l.doc = None
        BY <1>0, <1>3, <2>3, <3>1 DEF Prefetch, TInv
      <3>3. x \notin gone /\ open[x] = None /\ cache[x] = None /\ loading[x] = None
        BY <1>3, <2>3 DEF Prefetch
      <3> QED
        BY <2>1, <3>2, <3>3 DEF Changes, InClosed, Asks
    <2> QED
      BY <2>2, <2>3
  <1>4. CASE Reads(s)
    <2>1. SameStore(x) /\ SameQueue(x) /\ SameMark(x) /\ SameApp(x) /\ cache'[x] = cache[x]
          /\ (x \in dropped' <=> x \in dropped) /\ withdrawn'[x] = withdrawn[x] /\ SameAge(x)
      BY <1>4, StageKept DEF Reads, SameAge, SameStore, SameQueue, SameLead, SameMark, SameApp, SameTurn, storeVars, queueVars,
         appVars
    <2>2. CASE x # s
      <3>1. loading'[x] = loading[x] /\ (x \in early' <=> x \in early)
        BY <1>4, <2>2 DEF Reads, TInv
      <3> QED
        BY <2>1, <3>1, AsideSame DEF Changes, SameClosed, SamePast, SameLoss, SameAge
    <2>3. CASE x = s
      <3>1. PICK l \in Loads(edits) : l = [opens |-> loading[s].opens, read |-> TRUE, doc |-> stored[s]]
        BY <1>4 DEF Reads, Loads, TInv
      <3>2. l # None /\ loading'[x] = l /\ l.read /\ l.doc = stored[x]
        BY <1>0, <1>4, <2>3, <3>1 DEF Reads, TInv
      <3>3. loading[x] # None /\ ~loading[x].read /\ (x \in early' <=> x \in early \/ Unstored(x))
        BY <1>4, <2>3 DEF Reads
      <3> QED
        BY <2>1, <3>2, <3>3 DEF Changes, InClosed, Looked
    <2> QED
      BY <2>2, <2>3
  <1>5. CASE Loaded(s)
    <2>1. PICK doc \in Texts(edits) \cup {None} : doc = IF removing[s] = None THEN loading[s].doc ELSE None
      BY <1>5 DEF Loaded, Loads, TInv
    <2>2. \/ /\ doc # None /\ Effect([open EXCEPT ![s] = doc], pending, {}, {})
             /\ last' = [last EXCEPT ![s] = doc] /\ cache' = [cache EXCEPT ![s] = None]
          \/ /\ cache' = IF doc # None /\ open[s] = None THEN [cache EXCEPT ![s] = doc] ELSE cache
             /\ UNCHANGED appVars
      BY <1>5, <2>1 DEF Loaded
    <2>3. SameStore(x) /\ SameQueue(x) /\ SameMark(x) /\ SamePast(x) /\ SameTurn(x)
          /\ loading' = [loading EXCEPT ![s] = None]
      BY <1>5, StageKept DEF Loaded, SameTurn, SameStore, SameQueue, SameLead, SameMark, SamePast, SameLoss, SameAge, storeVars,
         queueVars, pastVars
    <2>4. CASE UNCHANGED appVars /\ cache' = IF doc # None /\ open[s] = None THEN [cache EXCEPT ![s] = doc] ELSE cache
      <3>1. SameApp(x)
        BY <2>4 DEF SameApp, SameTurn, appVars
      <3>2. CASE x # s
        <4>1. SameClosed(x)
          BY <2>3, <2>4, <3>2 DEF SameClosed, TInv
        <4> QED
          BY <2>3, <3>1, <4>1, AsideSame DEF Changes
      <3>3. CASE x = s
        <4>1. loading[x] # None /\ loading[x].read /\ loading'[x] = None
          BY <1>5, <2>3, <3>3 DEF Loaded, TInv
        <4>2. \/ cache'[x] = cache[x]
              \/ Stage(x) = "none" /\ loading[x].doc # None /\ cache'[x] = loading[x].doc
          BY <2>1, <2>4, <3>3, Stages DEF TInv
        <4> QED
          BY <2>3, <3>1, <4>1, <4>2 DEF Changes, InClosed, Arrives
      <3> QED
        BY <3>2, <3>3
    <2>5. CASE /\ doc # None /\ Effect([open EXCEPT ![s] = doc], pending, {}, {})
               /\ last' = [last EXCEPT ![s] = doc] /\ cache' = [cache EXCEPT ![s] = None]
      <3>1. open' = [open EXCEPT ![s] = doc] /\ Looks(x, pending[x])
        BY <2>5, EffectLooksOnce
      <3>2. CASE x # s
        <4>1. SameClosed(x) /\ open'[x] = open[x] /\ last'[x] = last[x]
          BY <2>3, <2>5, <3>1, <3>2 DEF SameClosed, TInv
        <4> QED
          BY <2>3, <3>1, <4>1, AsideLooks DEF Changes
      <3>3. CASE x = s
        <4>1. loading[x] # None /\ loading[x].read /\ loading'[x] = None
          BY <1>5, <2>3, <3>3 DEF Loaded, TInv
        <4>2. Stage(x) = "none" /\ doc = loading[x].doc
          BY <2>1, <2>5, <3>3, Stages
        <4>3. open'[x] = doc /\ last'[x] = doc /\ cache'[x] = None
          BY <2>5, <3>1, <3>3 DEF TInv
        <4> QED
          BY <2>3, <2>5, <3>1, <4>1, <4>2, <4>3 DEF Changes, InClosed, Arrives
      <3> QED
        BY <3>2, <3>3
    <2> QED
      BY <2>2, <2>4, <2>5
  <1> QED
    BY <1>1, <1>2, <1>3, <1>4, <1>5

LEMMA DrainCounts ==
    ASSUME TInv, NEW s \in Sessions
    PROVE  [y \in Sessions |-> IF y \in DrainedBy(s) THEN Len(queue[y]) + IF running[y] = None THEN 0 ELSE 1 ELSE 0]
             \in [Sessions -> Nat]
  <1>1. \A y \in Sessions : Len(queue[y]) \in Nat
    BY LenProperties DEF TInv
  <1>2. ASSUME NEW n \in Nat, NEW y
        PROVE  (n + IF running[y] = None THEN 0 ELSE 1) \in Nat
    OBVIOUS
  <1> QED
    BY <1>1, <1>2

LEMMA RemovalChanges ==
    ASSUME TInv, TInv', DInv, LInv, NEW s \in Sessions,
           \/ AskRemoval(s) \/ CancelRemoval(s) \/ BeginDelete(s) \/ Drained(s) \/ EndRemoval(s) \/ Expire(s),
           NEW x \in Sessions
    PROVE  Changes(x)
  <1>0. x # s /\ removing'[x] = removing[x] => Stage(x)' = Stage(x)
    BY StageKept
  <1>1. CASE AskRemoval(s)
    <2>1. SameStore(x) /\ SameQueue(x) /\ (x \in tombs' <=> x \in tombs) /\ (x \in early' <=> x \in early)
          /\ withdrawn'[x] = withdrawn[x] /\ open'[x] = open[x] /\ observed'[x] = observed[x] /\ last'[x] = last[x]
          /\ SameTurn(x) /\ SameAge(x)
      BY <1>1 DEF AskRemoval, SameTurn, SameAge, SameStore, SameQueue, SameLead, storeVars, queueVars
    <2>2. CASE x # s
      <3>1. pending'[x] = pending[x] /\ SameClosed(x) /\ (x \in dropped' <=> x \in dropped) /\ removing'[x] = removing[x]
        BY <1>1, <2>2 DEF AskRemoval, SameClosed, TInv
      <3> QED
        BY <1>0, <2>1, <2>2, <3>1, AsideSame DEF Changes, SameMark, SameApp, SameTurn, SamePast, SameLoss, SameAge
    <2>3. CASE x = s
      <3>1. removing[x] = None /\ x \notin gone /\ cache'[x] = None /\ loading'[x] = None /\ pending'[x] = None
            /\ (x \in dropped' <=> x \in dropped \/ pending[x] # None)
        BY <1>1, <2>3 DEF AskRemoval, TInv
      <3>2. [at |-> "asked", waits |-> [y \in Sessions |-> 0]] \in Removal
        BY DEF Removal
      <3>3. removing'[x] # None /\ removing'[x].at = "asked"
        BY <1>1, <2>3, <3>2, WriteRecordsAssumption DEF AskRemoval, TInv
      <3>4. Goes(x, "none", "asked")
        BY <3>1, <3>3 DEF Goes, Stage
      <3> QED
        BY <2>1, <3>1, <3>4 DEF Changes, InRemoval, RemovalAsked
    <2> QED
      BY <2>2, <2>3
  <1>2. CASE CancelRemoval(s)
    <2>1. SameStore(x) /\ SameQueue(x) /\ SameApp(x) /\ SameClosed(x) /\ SamePast(x) /\ (x \in tombs' <=> x \in tombs)
      BY <1>2 DEF CancelRemoval, SameStore, SameQueue, SameLead, SameApp, SameTurn, SameClosed, SamePast, SameLoss, SameAge,
                  storeVars, queueVars, appVars, closedVars, pastVars
    <2>2. CASE x # s
      <3>1. removing'[x] = removing[x]
        BY <1>2, <2>2 DEF CancelRemoval, TInv
      <3> QED
        BY <1>0, <2>1, <2>2, <3>1, AsideSame DEF Changes, SameMark
    <2>3. CASE x = s
      <3>1. Goes(x, "asked", "none")
        BY <1>2, <2>3 DEF CancelRemoval, TInv, Goes, Stage
      <3> QED
        BY <2>1, <3>1 DEF Changes, InRemoval, RemovalTakenBack
    <2> QED
      BY <2>2, <2>3
  <1>3. CASE BeginDelete(s)
    <2>1. SameStore(x) /\ SameQueue(x) /\ SameApp(x) /\ SameClosed(x) /\ SamePast(x)
      BY <1>3 DEF BeginDelete, SameStore, SameQueue, SameLead, SameApp, SameTurn, SameClosed, SamePast, SameLoss, SameAge,
                  storeVars, appVars, closedVars, pastVars
    <2>2. CASE x # s
      <3>1. removing'[x] = removing[x] /\ (x \in tombs' <=> x \in tombs)
        BY <1>3, <2>2 DEF BeginDelete, TInv
      <3> QED
        BY <1>0, <2>1, <2>2, <3>1, AsideSame DEF Changes, SameMark
    <2>3. CASE x = s
      <3>1. Stage(x) = "asked"
        BY <1>3, <2>3 DEF BeginDelete, Stage
      <3>2. PICK w : removing' = [removing EXCEPT ![s] = [at |-> "draining", waits |-> w]] /\ w \in [Sessions -> Nat]
        BY <1>3, DrainCounts DEF BeginDelete
      <3>3. [at |-> "draining", waits |-> w] \in Removal
        BY <3>2 DEF Removal
      <3>4. removing'[x] # None /\ removing'[x].at = "draining"
        BY <2>3, <3>2, <3>3, WriteRecordsAssumption DEF TInv
      <3>7. Goes(x, "asked", "draining") /\ x \in tombs'
        BY <1>3, <2>3, <3>1, <3>4 DEF Goes, Stage, BeginDelete
      <3> QED
        BY <2>1, <3>7 DEF Changes, InRemoval, RemovalBegins
    <2> QED
      BY <2>2, <2>3
  <1>4. CASE Drained(s)
    <2>1. SameStore(x) /\ SameApp(x) /\ SameClosed(x) /\ SamePast(x) /\ (x \in tombs' <=> x \in tombs)
          /\ running'[x] = running[x] /\ SameLead(x)
      BY <1>4 DEF Drained, SameLead, SameStore, SameApp, SameTurn, SameClosed, SamePast, SameLoss, SameAge,
                  storeVars, appVars, closedVars, pastVars
    <2>2. CASE x # s
      <3>1. removing'[x] = removing[x] /\ queue'[x] = queue[x]
        BY <1>4, <2>2 DEF Drained, TInv
      <3> QED
        BY <1>0, <2>1, <2>2, <3>1, AsideSame DEF Changes, SameMark, SameQueue
    <2>3. CASE x = s
      <3>1. removing[x] \in Removal /\ removing[x] # None /\ removing[x].at = "draining"
        BY <1>4, <2>3 DEF Drained, TInv
      <3>2. removing'[x] = [removing[x] EXCEPT !.at = "deleting"]
        BY <1>4, <2>3 DEF Drained, TInv
      <3>3. removing'[x] \in Removal /\ removing'[x].at = "deleting"
        BY <3>1, <3>2 DEF Removal
      <3>4. Goes(x, "draining", "deleting")
        BY <3>1, <3>3, WriteRecordsAssumption DEF Goes, Stage
      <3>5. queue'[x] = Append(queue[x], DeleteOf(TRUE))
        BY <1>4, <2>3 DEF Drained, DeleteOf, TInv
      <3> QED
        BY <2>1, <3>4, <3>5 DEF Changes, InRemoval, RemovalDrains
    <2> QED
      BY <2>2, <2>3
  <1>5. CASE EndRemoval(s)
    <2>1. SameStore(x) /\ SameQueue(x) /\ SamePast(x) /\ (x \in tombs' <=> x \in tombs) /\ SameTurn(x)
      BY <1>5 DEF EndRemoval, SameTurn, SameStore, SameQueue, SameLead, SamePast, SameLoss, SameAge, storeVars, queueVars, pastVars
    <2>2. Effect([Released(open, s) EXCEPT ![s] = None], [Released(pending, s) EXCEPT ![s] = None], {}, {})
      BY <1>5 DEF EndRemoval
    <2>3. open' = [Released(open, s) EXCEPT ![s] = None] /\ Looks(x, [Released(pending, s) EXCEPT ![s] = None][x])
      BY <2>2, EffectLooksOnce
    <2>4. CASE x # s
      <3>1. open'[x] = Released(open, s)[x] /\ Looks(x, Released(pending, s)[x])
        BY <2>3, <2>4 DEF Released
      <3>2. Alike(open[x], open'[x]) /\ (open'[x] # open[x] => s = Lead /\ ~Led(open'[x]))
        <4>1. ASSUME NEW d \in Docs(edits)
              PROVE  [d EXCEPT !.led = FALSE] \in Docs(edits) /\ [d EXCEPT !.led = FALSE].text = d.text
                     /\ ~[d EXCEPT !.led = FALSE].led
          BY DEF Docs
        <4>2. open[x] # None => open[x] \in Docs(edits)
          BY DEF TInv
        <4>3. None \notin Docs(edits)
          BY Nones DEF TInv
        <4>4. open'[x] = IF s = Lead /\ open[x] # None THEN [open[x] EXCEPT !.led = FALSE] ELSE open[x]
          BY <3>1 DEF Released
        <4> QED
          BY <4>1, <4>2, <4>3, <4>4 DEF Alike, Led
      <3>3. Released(pending, s)[x] = IF pending[x] = None THEN None
                                      ELSE [text |-> pending[x].text, led |-> open'[x].led]
        <4>1. pending[x] # None => open[x] # None /\ pending[x].led = open[x].led /\ pending[x] \in Docs(edits)
                                   /\ open[x] \in Docs(edits)
          BY DEF TInv, LInv, OnePlace, Texts
        <4>2. Released(pending, s)[x] =
                IF s = Lead /\ pending[x] # None THEN [pending[x] EXCEPT !.led = FALSE] ELSE pending[x]
          BY DEF Released
        <4>3. open'[x] = IF s = Lead /\ open[x] # None THEN [open[x] EXCEPT !.led = FALSE] ELSE open[x]
          BY <3>1 DEF Released
        <4>4. ASSUME NEW d \in Docs(edits)
              PROVE  /\ d = [text |-> d.text, led |-> d.led] /\ [d EXCEPT !.led = FALSE].led = FALSE
                     /\ [d EXCEPT !.led = FALSE] = [text |-> d.text, led |-> FALSE]
          <5>1. \A e \in Docs(edits) : e = [text |-> e.text, led |-> e.led]
            BY DEF Docs
          <5>2. PICK e : e = [d EXCEPT !.led = FALSE]
            OBVIOUS
          <5>3. e \in Docs(edits) /\ e.text = d.text /\ e.led = FALSE
            BY <5>2 DEF Docs
          <5> QED
            BY <5>1, <5>2, <5>3
        <4> QED
          BY <4>1, <4>2, <4>3, <4>4
      <3>4. last'[x] = last[x] /\ removing'[x] = removing[x] /\ loading'[x] \in {loading[x], None}
            /\ cache'[x] \in {cache[x], None}
        BY <1>5, <2>4 DEF EndRemoval, TInv
      <3>5. SameMark(x)
        BY <1>0, <2>1, <2>4, <3>4 DEF SameMark
      <3>6. Stage(s) = "deleted"
        BY <1>5 DEF EndRemoval, Stage
      <3> QED
        BY <2>1, <3>1, <3>2, <3>3, <3>4, <3>5, <3>6 DEF Changes, Aside, SameStore, Alike
    <2>5. CASE x = s
      <3>1. Goes(x, "deleted", "none")
        BY <1>5, <2>5 DEF EndRemoval, TInv, Goes, Stage
      <3>2. open'[x] = None
        BY <2>3, <2>5 DEF Released
      <3>3. observed'[x] = None /\ pending'[x] = None
        BY <2>3, <3>2 DEF Looks
      <3>4. last'[x] = None /\ cache'[x] = None /\ loading'[x] = None
        BY <1>5, <2>5 DEF EndRemoval, TInv, Reloaded
      <3> QED
        BY <2>1, <3>1, <3>2, <3>3, <3>4 DEF Changes, InRemoval, RemovalEnds
    <2> QED
      BY <2>4, <2>5
  <1>6. CASE Expire(s)
    <2>1. SameStore(x) /\ SameQueue(x) /\ SameApp(x) /\ SameClosed(x) /\ SamePast(x) /\ Stage(x)' = Stage(x)
      BY <1>6, StageKept DEF Expire, SameStore, SameQueue, SameLead, SameApp, SameTurn, SameClosed, SamePast, SameLoss, SameAge,
                  storeVars, appVars, closedVars, pastVars
    <2>2. CASE x # s
      <3>1. x \in tombs' <=> x \in tombs
        BY <1>6, <2>2 DEF Expire
      <3> QED
        BY <2>1, <3>1, AsideSame DEF Changes, SameMark
    <2>3. CASE x = s
      <3>1. x \in gone /\ removing[x] = None /\ queue[x] = <<>> /\ running[x] = None /\ x \notin tombs'
        BY <1>6, <2>3 DEF Expire
      <3> QED
        BY <2>1, <3>1 DEF Changes, InRemoval, Expires, Stage
    <2> QED
      BY <2>2, <2>3
  <1> QED
    BY <1>1, <1>2, <1>3, <1>4, <1>5, <1>6

LEMMA StepTyped ==
    ASSUME TInv, DInv, [WritesNext]_writesVars
    PROVE  TInv'
  <1>1. CASE UNCHANGED writesVars
    BY <1>1 DEF writesVars, storeVars, queueVars, appVars, closedVars, pastVars, budget, TInv
  <1>2. ASSUME NEW s \in Sessions, Invoke(s) \/ SaveLands(s) \/ DeleteLands(s) \/ WriteFails(s)
        PROVE  TInv'
    BY <1>2, StoreTyped
  <1>3. ASSUME NEW s \in Sessions, Edit(s) \/ Begin(s) \/ End(s) \/ PersistNow(s) \/ Discard(s) \/ Flush \/ Hide
        PROVE  TInv'
    BY <1>3, AppTyped
  <1>4. ASSUME NEW s \in Sessions, Close(s) \/ Reopen(s) \/ Prefetch(s) \/ Reads(s) \/ Loaded(s)
        PROVE  TInv'
    BY <1>4, ClosedTyped
  <1>5. ASSUME NEW s \in Sessions,
               \/ AskRemoval(s) \/ CancelRemoval(s) \/ BeginDelete(s) \/ Drained(s) \/ EndRemoval(s) \/ Expire(s)
        PROVE  TInv'
    BY <1>5, RemovalTyped
  <1> QED
    BY <1>1, <1>2, <1>3, <1>4, <1>5, WritesAssumption DEF WritesNext

LEMMA StepChanges ==
    ASSUME TInv, TInv', DInv, LInv, [WritesNext]_writesVars, NEW x \in Sessions
    PROVE  Changes(x)
  <1>1. CASE UNCHANGED writesVars
    <2>1. SameStore(x) /\ SameQueue(x) /\ SameMark(x) /\ SameApp(x) /\ SameClosed(x) /\ SamePast(x)
      BY <1>1, StageKept DEF writesVars, storeVars, queueVars, appVars, closedVars, pastVars,
                             SameStore, SameQueue, SameLead, SameMark, SameApp, SameTurn, SameClosed, SamePast, SameLoss, SameAge
    <2> QED
      BY <2>1, AsideSame DEF Changes
  <1>2. ASSUME NEW s \in Sessions, Invoke(s) \/ SaveLands(s) \/ DeleteLands(s) \/ WriteFails(s)
        PROVE  Changes(x)
    BY <1>2, StoreChanges
  <1>3. ASSUME NEW s \in Sessions, Edit(s) \/ Begin(s) \/ End(s) \/ PersistNow(s) \/ Discard(s) \/ Flush \/ Hide
        PROVE  Changes(x)
    BY <1>3, AppChanges
  <1>4. ASSUME NEW s \in Sessions, Close(s) \/ Reopen(s) \/ Prefetch(s) \/ Reads(s) \/ Loaded(s)
        PROVE  Changes(x)
    BY <1>4, ClosedChanges
  <1>5. ASSUME NEW s \in Sessions,
               \/ AskRemoval(s) \/ CancelRemoval(s) \/ BeginDelete(s) \/ Drained(s) \/ EndRemoval(s) \/ Expire(s)
        PROVE  Changes(x)
    BY <1>5, RemovalChanges
  <1> QED
    BY <1>1, <1>2, <1>3, <1>4, <1>5, WritesAssumption DEF WritesNext

-----------------------------------------------------------------------------
(* Deletions.                                                                *)

\* How the writes waiting change.
LEMMA TakenWrites ==
    ASSUME TInv, NEW x \in Sessions, Taken(x)
    PROVE  /\ DOMAIN queue[x] = 1..Len(queue[x]) /\ Len(queue[x]) \in Nat \ {0} /\ 1 \in DOMAIN queue[x]
           /\ DOMAIN queue'[x] = 1..(Len(queue[x]) - 1) /\ Len(queue'[x]) = Len(queue[x]) - 1
           /\ \A i \in DOMAIN queue'[x] : i + 1 \in DOMAIN queue[x] /\ queue'[x][i] = queue[x][i + 1]
           /\ queue'[x] = <<>> <=> Len(queue[x]) = 1
  <1>1. queue[x] \in Seq(Saves(edits) \cup Deletes) /\ queue[x] # <<>> /\ queue'[x] = RemoveAt(queue[x], 1)
    BY DEF Taken, TInv
  <1>2. PICK q \in Seq(Saves(edits) \cup Deletes) : q = queue[x] /\ q # <<>>
    BY <1>1
  <1>3. /\ 1 \in DOMAIN q /\ Len(q) \in Nat \ {0} /\ DOMAIN q = 1..Len(q)
        /\ Len(RemoveAt(q, 1)) = Len(q) - 1 /\ DOMAIN RemoveAt(q, 1) = 1..(Len(q) - 1)
        /\ \A i \in 1..(Len(q) - 1) : RemoveAt(q, 1)[i] = q[i + 1]
        /\ RemoveAt(q, 1) = <<>> <=> Len(q) = 1
    BY <1>2, Taking
  <1>4. \A i \in 1..(Len(q) - 1) : i + 1 \in 1..Len(q)
    BY <1>3
  <1> QED
    BY <1>1, <1>2, <1>3, <1>4

LEMMA AddedWrites ==
    ASSUME TInv, NEW x \in Sessions, NEW w, queue'[x] = Append(queue[x], w)
    PROVE  /\ DOMAIN queue[x] = 1..Len(queue[x]) /\ Len(queue[x]) \in Nat
           /\ DOMAIN queue'[x] = 1..(Len(queue[x]) + 1) /\ Len(queue'[x]) = Len(queue[x]) + 1
           /\ \A i \in DOMAIN queue[x] : queue'[x][i] = queue[x][i]
           /\ queue'[x][Len(queue[x]) + 1] = w /\ queue'[x] # <<>>
  <1>a. PICK S : S = Saves(edits) \cup Deletes \cup {w}
    OBVIOUS
  <1>0. Saves(edits) \cup Deletes \subseteq S /\ w \in S
    BY <1>a
  <1>1. PICK q \in Seq(S) : q = queue[x]
    BY <1>0, SeqMonotonic DEF TInv
  <1>2. /\ Append(q, w) # <<>> /\ Len(q) \in Nat /\ DOMAIN q = 1..Len(q)
        /\ Len(Append(q, w)) = Len(q) + 1 /\ DOMAIN Append(q, w) = 1..(Len(q) + 1)
        /\ \A i \in DOMAIN q : Append(q, w)[i] = q[i]
        /\ Append(q, w)[Len(q) + 1] = w
    BY <1>0, Adding
  <1>3. queue'[x] = Append(q, w)
    BY <1>1
  <1> QED
    BY <1>1, <1>2, <1>3

LEMMA WritesQueued ==
    ASSUME TInv, NEW x \in Sessions
    PROVE  /\ DOMAIN queue[x] = 1..Len(queue[x]) /\ Len(queue[x]) \in Nat
           /\ \A i \in DOMAIN queue[x] : queue[x][i] \in Saves(edits) \cup Deletes
           /\ queue[x] = <<>> <=> Len(queue[x]) = 0
  <1>1. PICK q \in Seq(Saves(edits) \cup Deletes) : q = queue[x]
    BY DEF TInv
  <1> QED
    BY <1>1, Writes

LEMMA SaveOfKind ==
    ASSUME NEW doc, NEW tells, NEW old
    PROVE  /\ IsSave(SaveOf(doc, tells, old)) /\ ~Ends(SaveOf(doc, tells, old))
           /\ SaveOf(doc, tells, old).doc = doc /\ SaveOf(doc, tells, old).old = old
  BY DEF SaveOf, IsSave, Ends

LEMMA DeleteOfKind ==
    ASSUME NEW tells \in BOOLEAN
    PROVE  /\ ~IsSave(DeleteOf(tells)) /\ (Ends(DeleteOf(tells)) <=> tells)
           /\ DeleteOf(tells).doc = None /\ ~DeleteOf(tells).old
  BY DEF DeleteOf, IsSave, Ends

LEMMA Kinds ==
    ASSUME NEW n, NEW w \in Saves(n) \cup Deletes
    PROVE  /\ w.op \in {"save", "delete"} /\ w.tells \in BOOLEAN /\ w.old \in BOOLEAN
           /\ IsSave(w) => w \in Saves(n) /\ w.doc \in Texts(n) /\ ~Ends(w)
           /\ ~IsSave(w) => w.doc = None /\ w.op = "delete" /\ ~w.old
  BY DEF Saves, Deletes, IsSave, Ends

LEMMA RunKinds ==
    ASSUME TInv, NEW x \in Sessions, running[x] # None
    PROVE  /\ (RunsSave(x) <=> ~RunsDelete(x))
           /\ RunsSave(x) => /\ running[x].doc \in Texts(edits) /\ running[x].sent \in Texts(edits)
                             /\ running[x].sent.text = running[x].doc.text
                             /\ (running[x].sent.led => running[x].doc.led) /\ ~Ends(running[x])
           /\ RunsDelete(x) => running[x].doc = None /\ ~running[x].old
           /\ running[x].old \in BOOLEAN
  <1>1. running[x] \in SaveRuns(edits) \/ running[x] \in DeleteRuns
    BY DEF TInv
  <1> QED
    BY <1>1 DEF RunsSave, RunsDelete, IsSave, SaveRuns, DeleteRuns, Ends

LEMMA MarkedNext ==
    ASSUME TInv, TInv', DInv, LInv, NEW x \in Sessions, Changes(x)
    PROVE  Marked(x)'
  <1>0. Marked(x) /\ OneEnd(x) /\ Deleted(x) /\ Stage(x) \in {"none", "asked", "draining", "deleting", "deleted"}
    BY Stages DEF DInv
  <1>1. CASE Aside(x)
    BY <1>0, <1>1 DEF Aside, Marked, OneEnd, Deleted, Goes, SameStore, SameQueue, SameMark, SameApp,
       SameClosed, SamePast, SameLoss
  <1>2. CASE Skips(x)
    BY <1>0, <1>2 DEF Skips, Marked, OneEnd, Deleted, Goes, SameStore, SameQueue, SameMark, SameApp,
       SameClosed, SamePast, SameLoss
  <1>3. CASE Starts(x)
    BY <1>0, <1>3 DEF Starts, Marked, OneEnd, Deleted, Goes, SameStore, SameQueue, SameMark, SameApp,
       SameClosed, SamePast, SameLoss
  <1>4. CASE Stores(x)
    BY <1>0, <1>4 DEF Stores, Marked, OneEnd, Deleted, Goes, SameStore, SameQueue, SameMark, SameApp,
       SameClosed, SamePast, SameLoss
  <1>5. CASE Erases(x)
    BY <1>0, <1>5 DEF Erases, RunsDelete, Marked, OneEnd, Deleted, Goes, SameStore, SameQueue, SameMark,
       SameApp, SameClosed, SamePast, SameLoss
  <1>6. CASE Fails(x)
    BY <1>0, <1>6 DEF Fails, Marked, OneEnd, Deleted, Goes, SameStore, SameQueue, SameMark, SameApp,
       SameClosed, SamePast, SameLoss
  <1>7. CASE SavesOpen(x)
    BY <1>0, <1>7 DEF SavesOpen, Marked, OneEnd, Deleted, Goes, SameStore, SameQueue, SameMark, SameApp,
       SameClosed, SamePast, SameLoss
  <1>8. CASE Flushes(x)
    BY <1>0, <1>8 DEF Flushes, Marked, OneEnd, Deleted, Goes, SameStore, SameQueue, SameMark, SameApp,
       SameClosed, SamePast, SameLoss
  <1>9. CASE Grows(x)
    BY <1>0, <1>9 DEF Grows, Marked, OneEnd, Deleted, Goes, SameStore, SameQueue, SameMark, SameApp,
       SameClosed, SamePast, SameLoss
  <1>10. CASE Discards(x)
    BY <1>0, <1>10 DEF Discards, Marked, OneEnd, Deleted, Goes, SameStore, SameQueue, SameMark, SameApp,
       SameClosed, SamePast, SameLoss
  <1>11. CASE Closes(x)
    BY <1>0, <1>11 DEF Closes, Marked, OneEnd, Deleted, Goes, SameStore, SameQueue, SameMark, SameApp,
       SameClosed, SamePast, SameLoss
  <1>12. CASE Recalls(x)
    BY <1>0, <1>12 DEF Recalls, Marked, OneEnd, Deleted, Goes, SameStore, SameQueue, SameMark, SameApp,
       SameClosed, SamePast, SameLoss
  <1>13. CASE Asks(x)
    BY <1>0, <1>13 DEF Asks, Marked, OneEnd, Deleted, Goes, SameStore, SameQueue, SameMark, SameApp,
       SameClosed, SamePast, SameLoss
  <1>14. CASE Looked(x)
    BY <1>0, <1>14 DEF Looked, Marked, OneEnd, Deleted, Goes, SameStore, SameQueue, SameMark, SameApp,
       SameClosed, SamePast, SameLoss
  <1>15. CASE Arrives(x)
    BY <1>0, <1>15 DEF Arrives, Marked, OneEnd, Deleted, Goes, SameStore, SameQueue, SameMark, SameApp,
       SameClosed, SamePast, SameLoss
  <1>16. CASE RemovalAsked(x)
    BY <1>0, <1>16 DEF RemovalAsked, Marked, OneEnd, Deleted, Goes, SameStore, SameQueue, SameMark, SameApp,
       SameClosed, SamePast, SameLoss
  <1>17. CASE RemovalTakenBack(x)
    BY <1>0, <1>17 DEF RemovalTakenBack, Marked, OneEnd, Deleted, Goes, SameStore, SameQueue, SameMark,
       SameApp, SameClosed, SamePast, SameLoss
  <1>18. CASE RemovalBegins(x)
    BY <1>0, <1>18 DEF RemovalBegins, Marked, OneEnd, Deleted, Goes, SameStore, SameQueue, SameMark, SameApp,
       SameClosed, SamePast, SameLoss
  <1>19. CASE RemovalDrains(x)
    BY <1>0, <1>19 DEF RemovalDrains, Marked, OneEnd, Deleted, Goes, SameStore, SameQueue, SameMark, SameApp,
       SameClosed, SamePast, SameLoss
  <1>20. CASE RemovalEnds(x)
    BY <1>0, <1>20 DEF RemovalEnds, Marked, OneEnd, Deleted, Goes, SameStore, SameQueue, SameMark, SameApp,
       SameClosed, SamePast, SameLoss
  <1>21. CASE Expires(x)
    BY <1>0, <1>21 DEF Expires, Marked, OneEnd, Deleted, Goes, SameStore, SameQueue, SameMark, SameApp,
       SameClosed, SamePast, SameLoss
  <1> QED
    BY <1>1, <1>2, <1>3, <1>4, <1>5, <1>6, <1>7, <1>8, <1>9, <1>10, <1>11, <1>12, <1>13, <1>14, <1>15, <1>16,
       <1>17, <1>18, <1>19, <1>20, <1>21 DEF Changes, InStore, InApp, InClosed, InRemoval

LEMMA DeletedNext ==
    ASSUME TInv, TInv', DInv, LInv, NEW x \in Sessions, Changes(x)
    PROVE  Deleted(x)'
  <1>0. Deleted(x) /\ Marked(x) /\ OneEnd(x) /\ OnePlace(x)
    BY DEF DInv, LInv
  <1>1. CASE Aside(x)
    BY <1>0, <1>1 DEF Aside, Deleted, Marked, OneEnd, RunsSave, Goes, Looks, Alike, SameStore, SameQueue,
       SameMark, SameApp, SameClosed, SamePast, SameLoss
  <1>2. CASE Skips(x)
    BY <1>0, <1>2 DEF Skips, Deleted, Marked, OneEnd, RunsSave, Goes, Looks, Alike, SameStore, SameQueue,
       SameMark, SameApp, SameClosed, SamePast, SameLoss
  <1>3. CASE Starts(x)
    BY <1>0, <1>3 DEF Starts, Taken, IsSave, Deleted, Marked, OneEnd, RunsSave, Goes, Looks, Alike,
       SameStore, SameQueue, SameMark, SameApp, SameClosed, SamePast, SameLoss
  <1>4. CASE Stores(x)
    BY <1>0, <1>4 DEF Stores, Deleted, Marked, OneEnd, RunsSave, Goes, Looks, Alike, SameStore, SameQueue,
       SameMark, SameApp, SameClosed, SamePast, SameLoss
  <1>5. CASE Erases(x)
    BY <1>0, <1>5 DEF Erases, RunsDelete, Deleted, Marked, OneEnd, RunsSave, Goes, Looks, Alike, SameStore,
       SameQueue, SameMark, SameApp, SameClosed, SamePast, SameLoss
  <1>6. CASE Fails(x)
    BY <1>0, <1>6 DEF Fails, Deleted, Marked, OneEnd, RunsSave, Goes, Looks, Alike, SameStore, SameQueue,
       SameMark, SameApp, SameClosed, SamePast, SameLoss
  <1>7. CASE SavesOpen(x)
    BY <1>0, <1>7 DEF SavesOpen, Queued, Deleted, Marked, OneEnd, RunsSave, Goes, Looks, Alike, SameStore, SameQueue,
       SameMark, SameApp, SameClosed, SamePast, SameLoss
  <1>8. CASE Flushes(x)
    BY <1>0, <1>8, PendingAt DEF Flushes, Deleted, Marked, OneEnd, RunsSave, Goes, Looks, Alike, SameStore,
       SameQueue, SameMark, SameApp, SameClosed, SamePast, SameLoss
  <1>9. CASE Grows(x)
    BY <1>0, <1>9 DEF Grows, Queued, Deleted, Marked, OneEnd, RunsSave, Goes, Looks, Alike, SameStore, SameQueue,
       SameMark, SameApp, SameClosed, SamePast, SameLoss
  <1>10. CASE Discards(x)
    BY <1>0, <1>10 DEF Discards, Deleted, Marked, OneEnd, RunsSave, Goes, Looks, Alike, SameStore, SameQueue,
       SameMark, SameApp, SameClosed, SamePast, SameLoss
  <1>11. CASE Closes(x)
    BY <1>0, <1>11 DEF Closes, Deleted, Marked, OneEnd, RunsSave, Goes, Looks, Alike, SameStore, SameQueue,
       SameMark, SameApp, SameClosed, SamePast, SameLoss
  <1>12. CASE Recalls(x)
    BY <1>0, <1>12 DEF Recalls, Deleted, Marked, OneEnd, RunsSave, Goes, Looks, Alike, SameStore, SameQueue,
       SameMark, SameApp, SameClosed, SamePast, SameLoss
  <1>13. CASE Asks(x)
    BY <1>0, <1>13 DEF Asks, Deleted, Marked, OneEnd, RunsSave, Goes, Looks, Alike, SameStore, SameQueue,
       SameMark, SameApp, SameClosed, SamePast, SameLoss
  <1>14. CASE Looked(x)
    BY <1>0, <1>14 DEF Looked, Deleted, Marked, OneEnd, RunsSave, Goes, Looks, Alike, SameStore, SameQueue,
       SameMark, SameApp, SameClosed, SamePast, SameLoss
  <1>15. CASE Arrives(x)
    BY <1>0, <1>15 DEF Arrives, Deleted, Marked, OneEnd, RunsSave, Goes, Looks, Alike, SameStore, SameQueue,
       SameMark, SameApp, SameClosed, SamePast, SameLoss
  <1>16. CASE RemovalAsked(x)
    BY <1>0, <1>16 DEF RemovalAsked, Deleted, Marked, OneEnd, RunsSave, Goes, Looks, Alike, SameStore,
       SameQueue, SameMark, SameApp, SameClosed, SamePast, SameLoss
  <1>17. CASE RemovalTakenBack(x)
    BY <1>0, <1>17 DEF RemovalTakenBack, Deleted, Marked, OneEnd, RunsSave, Goes, Looks, Alike, SameStore,
       SameQueue, SameMark, SameApp, SameClosed, SamePast, SameLoss
  <1>18. CASE RemovalBegins(x)
    BY <1>0, <1>18 DEF RemovalBegins, Deleted, Marked, OneEnd, RunsSave, Goes, Looks, Alike, SameStore,
       SameQueue, SameMark, SameApp, SameClosed, SamePast, SameLoss
  <1>19. CASE RemovalDrains(x)
    BY <1>0, <1>19 DEF RemovalDrains, Deleted, Marked, OneEnd, RunsSave, Goes, Looks, Alike, SameStore,
       SameQueue, SameMark, SameApp, SameClosed, SamePast, SameLoss
  <1>20. CASE RemovalEnds(x)
    BY <1>0, <1>20 DEF RemovalEnds, Deleted, Marked, OneEnd, RunsSave, Goes, Looks, Alike, SameStore,
       SameQueue, SameMark, SameApp, SameClosed, SamePast, SameLoss
  <1>21. CASE Expires(x)
    BY <1>0, <1>21 DEF Expires, Deleted, Marked, OneEnd, RunsSave, Goes, Looks, Alike, SameStore, SameQueue,
       SameMark, SameApp, SameClosed, SamePast, SameLoss
  <1> QED
    BY <1>1, <1>2, <1>3, <1>4, <1>5, <1>6, <1>7, <1>8, <1>9, <1>10, <1>11, <1>12, <1>13, <1>14, <1>15, <1>16,
       <1>17, <1>18, <1>19, <1>20, <1>21 DEF Changes, InStore, InApp, InClosed, InRemoval

LEMMA AddsNoEnd ==
    ASSUME TInv, NEW x \in Sessions, OneEnd(x), NEW w, ~Ends(w),
           queue'[x] = Append(queue[x], w), running'[x] = running[x], Stage(x)' = Stage(x)
    PROVE  OneEnd(x)'
  <1>1. /\ DOMAIN queue[x] = 1..Len(queue[x]) /\ Len(queue[x]) \in Nat
        /\ DOMAIN queue'[x] = 1..(Len(queue[x]) + 1)
        /\ \A i \in DOMAIN queue[x] : queue'[x][i] = queue[x][i]
        /\ queue'[x][Len(queue[x]) + 1] = w
    BY AddedWrites
  <1>3. \A i \in DOMAIN queue'[x] : i \in DOMAIN queue[x] \/ i = Len(queue[x]) + 1
    BY <1>1
  <1>4. \A i \in DOMAIN queue'[x] : Ends(queue'[x][i]) => i \in DOMAIN queue[x] /\ Ends(queue[x][i])
    BY <1>1, <1>3
  <1> QED
    BY <1>4 DEF OneEnd

LEMMA OneEndNext ==
    ASSUME TInv, TInv', DInv, LInv, NEW x \in Sessions, Changes(x)
    PROVE  OneEnd(x)'
  <1>0. Marked(x) /\ OneEnd(x)
    BY DEF DInv
  <1>1. CASE Aside(x)
    BY <1>0, <1>1 DEF Aside, OneEnd, Goes, SameStore, SameQueue, SameMark, SameApp, SameClosed, SamePast, SameLoss
  <1>2. CASE Skips(x)
    <2>1. /\ DOMAIN queue'[x] = 1..(Len(queue[x]) - 1) /\ Len(queue[x]) \in Nat
          /\ \A i \in DOMAIN queue'[x] : i + 1 \in DOMAIN queue[x] /\ queue'[x][i] = queue[x][i + 1]
      BY <1>2, TakenWrites DEF Skips
    <2>2. Stage(x)' = Stage(x) /\ running'[x] = None
      BY <1>2 DEF Skips, SameMark
    <2>3. \A i, j \in DOMAIN queue[x] : Ends(queue[x][i]) /\ Ends(queue[x][j]) => i = j
      BY <1>0 DEF OneEnd
    <2>4. \A i \in DOMAIN queue[x] : Ends(queue[x][i]) => Stage(x) = "deleting"
      BY <1>0 DEF OneEnd
    <2>5. \A i, j \in DOMAIN queue'[x] : i + 1 = j + 1 => i = j
      BY <2>1
    <2>6. \A i, j \in DOMAIN queue'[x] : Ends(queue'[x][i]) /\ Ends(queue'[x][j]) => i = j
      BY <2>1, <2>3, <2>5
    <2>7. \A i \in DOMAIN queue'[x] : Ends(queue'[x][i]) => Stage(x)' = "deleting"
      BY <2>1, <2>2, <2>4
    <2> QED
      BY <2>2, <2>6, <2>7 DEF OneEnd
  <1>3. CASE Starts(x)
    <2>1. /\ DOMAIN queue[x] = 1..Len(queue[x]) /\ Len(queue[x]) \in Nat \ {0} /\ 1 \in DOMAIN queue[x]
          /\ DOMAIN queue'[x] = 1..(Len(queue[x]) - 1)
          /\ \A i \in DOMAIN queue'[x] : i + 1 \in DOMAIN queue[x] /\ queue'[x][i] = queue[x][i + 1]
      BY <1>3, TakenWrites DEF Starts
    <2>2. Stage(x)' = Stage(x) /\ (Ends(running'[x]) <=> Ends(queue[x][1]))
      BY <1>3 DEF Starts, SameMark, Ends
    <2>3. \A i, j \in DOMAIN queue[x] : Ends(queue[x][i]) /\ Ends(queue[x][j]) => i = j /\ Stage(x) = "deleting"
      BY <1>0 DEF OneEnd
    <2>4. \A i \in DOMAIN queue'[x] : i + 1 # 1
      BY <2>1
    <2>5. \A i, j \in DOMAIN queue'[x] : i + 1 = j + 1 => i = j
      BY <2>1
    <2> QED
      BY <2>1, <2>2, <2>3, <2>4, <2>5 DEF OneEnd
  <1>4. CASE Stores(x)
    BY <1>0, <1>4 DEF Stores, OneEnd, Goes, SameStore, SameQueue, SameMark, SameApp, SameClosed, SamePast, SameLoss
  <1>5. CASE Erases(x)
    BY <1>0, <1>5 DEF Erases, RunsDelete, Ends, OneEnd, Goes, SameStore, SameQueue, SameMark, SameApp,
       SameClosed, SamePast, SameLoss
  <1>6. CASE Fails(x)
    BY <1>0, <1>6 DEF Fails, Ends, OneEnd, Goes, SameStore, SameQueue, SameMark, SameApp, SameClosed, SamePast, SameLoss
  <1>7. CASE SavesOpen(x)
    <2>1. PICK w : ~Ends(w) /\ queue'[x] = Append(queue[x], w)
      BY <1>7, SaveOfKind DEF SavesOpen, Queued
    <2> QED
      BY <1>0, <1>7, <2>1, AddsNoEnd DEF SavesOpen, Queued, SameMark
  <1>8. CASE Flushes(x)
    <2>1. PICK w : ~Ends(w) /\ (queue'[x] = queue[x] \/ queue'[x] = Append(queue[x], w))
      BY <1>8, SaveOfKind DEF Flushes
    <2>2. running'[x] = running[x] /\ Stage(x)' = Stage(x)
      BY <1>8 DEF Flushes, SameMark
    <2> QED
      BY <1>0, <2>1, <2>2, AddsNoEnd DEF OneEnd
  <1>9. CASE Grows(x)
    <2>1. PICK w : ~Ends(w) /\ (queue'[x] = queue[x] \/ queue'[x] = Append(queue[x], w))
      BY <1>9, SaveOfKind DEF Grows, Queued, SameQueue
    <2>2. running'[x] = running[x] /\ Stage(x)' = Stage(x)
      BY <1>9 DEF Grows, Queued, SameQueue, SameMark
    <2> QED
      BY <1>0, <2>1, <2>2, AddsNoEnd DEF OneEnd
  <1>10. CASE Discards(x)
    BY <1>0, <1>10, DeleteOfKind, AddsNoEnd DEF Discards, SameMark
  <1>11. CASE Closes(x)
    <2>1. PICK w : ~Ends(w) /\ (queue'[x] = queue[x] \/ queue'[x] = Append(queue[x], w))
      BY <1>11, SaveOfKind DEF Closes
    <2>2. running'[x] = running[x] /\ Stage(x)' = Stage(x)
      BY <1>11 DEF Closes, SameMark
    <2> QED
      BY <1>0, <2>1, <2>2, AddsNoEnd DEF OneEnd
  <1>12. CASE Recalls(x)
    BY <1>0, <1>12 DEF Recalls, OneEnd, Goes, SameStore, SameQueue, SameMark, SameApp, SameClosed, SamePast, SameLoss
  <1>13. CASE Asks(x)
    BY <1>0, <1>13 DEF Asks, OneEnd, Goes, SameStore, SameQueue, SameMark, SameApp, SameClosed, SamePast, SameLoss
  <1>14. CASE Looked(x)
    BY <1>0, <1>14 DEF Looked, OneEnd, Goes, SameStore, SameQueue, SameMark, SameApp, SameClosed, SamePast, SameLoss
  <1>15. CASE Arrives(x)
    BY <1>0, <1>15 DEF Arrives, OneEnd, Goes, SameStore, SameQueue, SameMark, SameApp, SameClosed, SamePast, SameLoss
  <1>16. CASE RemovalAsked(x)
    BY <1>0, <1>16 DEF RemovalAsked, OneEnd, Goes, SameStore, SameQueue, SameMark, SameApp, SameClosed,
       SamePast, SameLoss
  <1>17. CASE RemovalTakenBack(x)
    BY <1>0, <1>17 DEF RemovalTakenBack, OneEnd, Goes, SameStore, SameQueue, SameMark, SameApp, SameClosed,
       SamePast, SameLoss
  <1>18. CASE RemovalBegins(x)
    BY <1>0, <1>18 DEF RemovalBegins, OneEnd, Goes, SameStore, SameQueue, SameMark, SameApp, SameClosed,
       SamePast, SameLoss
  <1>19. CASE RemovalDrains(x)
    <2>1. Ends(DeleteOf(TRUE))
      BY DeleteOfKind
    <2>2. /\ DOMAIN queue[x] = 1..Len(queue[x]) /\ Len(queue[x]) \in Nat
          /\ DOMAIN queue'[x] = 1..(Len(queue[x]) + 1)
          /\ \A i \in DOMAIN queue[x] : queue'[x][i] = queue[x][i]
          /\ queue'[x][Len(queue[x]) + 1] = DeleteOf(TRUE)
      BY <1>19, <2>1, AddedWrites DEF RemovalDrains
    <2>3. \A i \in DOMAIN queue[x] : ~Ends(queue[x][i])
      BY <1>0, <1>19 DEF OneEnd, RemovalDrains, Goes
    <2>4. \A i \in DOMAIN queue'[x] : i \in DOMAIN queue[x] \/ i = Len(queue[x]) + 1
      BY <2>2
    <2>5. \A i \in DOMAIN queue'[x] : Ends(queue'[x][i]) => i = Len(queue[x]) + 1
      BY <2>2, <2>3, <2>4
    <2> QED
      BY <1>0, <1>19, <2>5 DEF OneEnd, RemovalDrains, Goes
  <1>20. CASE RemovalEnds(x)
    BY <1>0, <1>20 DEF RemovalEnds, OneEnd, Goes, SameStore, SameQueue, SameMark, SameApp, SameClosed,
       SamePast, SameLoss
  <1>21. CASE Expires(x)
    BY <1>0, <1>21 DEF Expires, OneEnd, Goes, SameStore, SameQueue, SameMark, SameApp, SameClosed, SamePast, SameLoss
  <1> QED
    BY <1>1, <1>2, <1>3, <1>4, <1>5, <1>6, <1>7, <1>8, <1>9, <1>10, <1>11, <1>12, <1>13, <1>14, <1>15, <1>16,
       <1>17, <1>18, <1>19, <1>20, <1>21 DEF Changes, InStore, InApp, InClosed, InRemoval

-----------------------------------------------------------------------------
(* Where a transcript is.                                                    *)

LEMMA OnePlaceNext ==
    ASSUME TInv, TInv', DInv, LInv, NEW x \in Sessions, Changes(x)
    PROVE  OnePlace(x)'
  <1>0. /\ OnePlace(x) /\ OneEnd(x) /\ (pending[x] # None => pending[x].text # {})
        /\ loading[x] # None /\ loading[x].doc # None => loading[x].doc.text # {}
    BY DEF LInv, DInv, TInv, Texts, Loads
  <1>1. CASE Aside(x)
    <2>1. open'[x] # None => open'[x] \in Docs(edits')
      BY DEF TInv
    <2>2. \A d \in Docs(edits') : d = [text |-> d.text, led |-> d.led]
      BY DEF Docs
    <2>3. PICK led : led = open'[x].led
      OBVIOUS
    <2>4. Alike(open[x], open'[x]) /\ SameMark(x) /\ SameTurn(x)
      BY <1>1 DEF Aside
    <2>5. /\ open'[x] # None => cache'[x] = None /\ loading'[x] = None
          /\ cache'[x] # None => loading'[x] = None
      BY <1>0, <1>1 DEF Aside, OnePlace, Alike
    <2>6. CASE SameApp(x)
      BY <1>0, <2>4, <2>5, <2>6 DEF SameApp, SameMark, SameTurn, OnePlace
    <2>7. CASE Looks(x, IF pending[x] = None THEN None ELSE [text |-> pending[x].text, led |-> led])
      <3>1. CASE pending[x] = None
        BY <1>0, <2>1, <2>2, <2>4, <2>5, <2>7, <3>1 DEF Looks, Sees, Alike, SameMark, SameTurn, OnePlace
      <3>2. CASE pending[x] # None
        <4>1. PICK waits : waits = [text |-> pending[x].text, led |-> led]
          OBVIOUS
        <4>2. /\ Looks(x, waits) /\ waits.text = pending[x].text /\ waits.led = led
              /\ x \notin busy => waits = open'[x]
          BY <1>0, <2>1, <2>2, <2>3, <2>4, <2>7, <3>2, <4>1 DEF Alike, OnePlace
        <4>3. /\ open'[x] # None /\ observed[x] = open[x] /\ Stage(x) = "none"
              /\ waits.text \subseteq open'[x].text /\ open'[x].text # {}
          BY <1>0, <2>4, <3>2, <4>2 DEF Alike, OnePlace
        <4> QED
          BY <2>3, <2>4, <2>5, <4>2, <4>3 DEF Looks, Sees, SameMark, SameTurn, OnePlace
      <3> QED
        BY <3>1, <3>2
    <2> QED
      BY <1>1, <2>3, <2>6, <2>7 DEF Aside
  <1>2. CASE Skips(x)
    BY <1>0, <1>2 DEF Skips, OnePlace, Goes, Looks, Sees, LooksAgain, Alike, SameTurn, SameStore, SameQueue, SameMark, SameApp,
       SameClosed, SamePast, SameLoss
  <1>3. CASE Starts(x)
    BY <1>0, <1>3 DEF Starts, OnePlace, Goes, Looks, Sees, LooksAgain, Alike, SameTurn, SameStore, SameQueue, SameMark, SameApp,
       SameClosed, SamePast, SameLoss
  <1>4. CASE Stores(x)
    BY <1>0, <1>4 DEF Stores, OnePlace, Goes, Looks, Sees, LooksAgain, Alike, SameTurn, SameStore, SameQueue, SameMark, SameApp,
       SameClosed, SamePast, SameLoss
  <1>5. CASE Erases(x)
    BY <1>0, <1>5 DEF Erases, RunsDelete, OneEnd, OnePlace, Goes, Looks, Sees, LooksAgain, Alike, SameTurn, SameStore, SameQueue,
       SameMark, SameApp, SameClosed, SamePast, SameLoss
  <1>6. CASE Fails(x)
    BY <1>0, <1>6 DEF Fails, OnePlace, Goes, Looks, Sees, LooksAgain, Alike, SameTurn, SameStore, SameQueue, SameMark, SameApp,
       SameClosed, SamePast, SameLoss
  <1>7. CASE SavesOpen(x)
    BY <1>0, <1>7 DEF SavesOpen, OnePlace, Goes, Looks, Sees, LooksAgain, Alike, SameTurn, SameStore, SameQueue, SameMark, SameApp,
       SameClosed, SamePast, SameLoss
  <1>8. CASE Flushes(x)
    BY <1>0, <1>8, PendingAt DEF Flushes, OnePlace, Goes, Looks, Sees, LooksAgain, Alike, SameTurn, SameStore, SameQueue, SameMark,
       SameApp, SameClosed, SamePast, SameLoss
  <1>9. CASE Grows(x)
    BY <1>0, <1>9 DEF Grows, OnePlace, Goes, Looks, Sees, LooksAgain, Alike, SameTurn, SameStore, SameQueue, SameMark, SameApp,
       SameClosed, SamePast, SameLoss
  <1>10. CASE Discards(x)
    BY <1>0, <1>10 DEF Discards, OnePlace, Goes, Looks, Sees, LooksAgain, Alike, SameTurn, SameStore, SameQueue, SameMark, SameApp,
       SameClosed, SamePast, SameLoss
  <1>11. CASE Closes(x)
    BY <1>0, <1>11 DEF Closes, OnePlace, Goes, Looks, Sees, LooksAgain, Alike, SameTurn, SameStore, SameQueue, SameMark, SameApp,
       SameClosed, SamePast, SameLoss
  <1>12. CASE Recalls(x)
    BY <1>0, <1>12 DEF Recalls, OnePlace, Goes, Looks, Sees, LooksAgain, Alike, SameTurn, SameStore, SameQueue, SameMark, SameApp,
       SameClosed, SamePast, SameLoss
  <1>13. CASE Asks(x)
    BY <1>0, <1>13 DEF Asks, OnePlace, Goes, Looks, Sees, LooksAgain, Alike, SameTurn, SameStore, SameQueue, SameMark, SameApp,
       SameClosed, SamePast, SameLoss
  <1>14. CASE Looked(x)
    BY <1>0, <1>14 DEF Looked, OnePlace, Goes, Looks, Sees, LooksAgain, Alike, SameTurn, SameStore, SameQueue, SameMark, SameApp,
       SameClosed, SamePast, SameLoss
  <1>15. CASE Arrives(x)
    BY <1>0, <1>15 DEF Arrives, OnePlace, Goes, Looks, Sees, LooksAgain, Alike, SameTurn, SameStore, SameQueue, SameMark, SameApp,
       SameClosed, SamePast, SameLoss
  <1>16. CASE RemovalAsked(x)
    BY <1>0, <1>16 DEF RemovalAsked, OnePlace, Goes, Looks, Sees, LooksAgain, Alike, SameTurn, SameStore, SameQueue, SameMark, SameApp,
       SameClosed, SamePast, SameLoss
  <1>17. CASE RemovalTakenBack(x)
    BY <1>0, <1>17 DEF RemovalTakenBack, OnePlace, Goes, Looks, Sees, LooksAgain, Alike, SameTurn, SameStore, SameQueue, SameMark,
       SameApp, SameClosed, SamePast, SameLoss
  <1>18. CASE RemovalBegins(x)
    BY <1>0, <1>18 DEF RemovalBegins, OnePlace, Goes, Looks, Sees, LooksAgain, Alike, SameTurn, SameStore, SameQueue, SameMark, SameApp,
       SameClosed, SamePast, SameLoss
  <1>19. CASE RemovalDrains(x)
    BY <1>0, <1>19 DEF RemovalDrains, OnePlace, Goes, Looks, Sees, LooksAgain, Alike, SameTurn, SameStore, SameQueue, SameMark, SameApp,
       SameClosed, SamePast, SameLoss
  <1>20. CASE RemovalEnds(x)
    BY <1>0, <1>20 DEF RemovalEnds, OnePlace, Goes, Looks, Sees, LooksAgain, Alike, SameTurn, SameStore, SameQueue, SameMark, SameApp,
       SameClosed, SamePast, SameLoss
  <1>21. CASE Expires(x)
    BY <1>0, <1>21 DEF Expires, OnePlace, Goes, Looks, Sees, LooksAgain, Alike, SameTurn, SameStore, SameQueue, SameMark, SameApp,
       SameClosed, SamePast, SameLoss
  <1> QED
    BY <1>1, <1>2, <1>3, <1>4, <1>5, <1>6, <1>7, <1>8, <1>9, <1>10, <1>11, <1>12, <1>13, <1>14, <1>15, <1>16,
       <1>17, <1>18, <1>19, <1>20, <1>21 DEF Changes, InStore, InApp, InClosed, InRemoval

LEMMA NothingBehindNext ==
    ASSUME TInv, TInv', DInv, LInv, NEW x \in Sessions, Changes(x)
    PROVE  NothingBehind(x)'
  <1>0. NothingBehind(x) /\ OnePlace(x)
    BY DEF LInv
  <1>1. CASE Aside(x)
    BY <1>0, <1>1 DEF Aside, NothingBehind, RunsSave, SameStore, SameQueue, SameMark, SameApp, SameClosed,
       SamePast, SameLoss
  <1>2. CASE Skips(x)
    <2>1. /\ 1 \in DOMAIN queue[x]
          /\ \A i \in DOMAIN queue'[x] : i + 1 \in DOMAIN queue[x] /\ queue'[x][i] = queue[x][i + 1]
      BY <1>2, TakenWrites DEF Skips
    <2> QED
      BY <1>0, <1>2, <2>1 DEF Skips, NothingBehind, RunsSave, IsSave, SameClosed, SamePast, SameLoss
  <1>3. CASE Starts(x)
    <2>1. /\ 1 \in DOMAIN queue[x]
          /\ \A i \in DOMAIN queue'[x] : i + 1 \in DOMAIN queue[x] /\ queue'[x][i] = queue[x][i + 1]
      BY <1>3, TakenWrites DEF Starts
    <2> QED
      BY <1>0, <1>3, <2>1 DEF Starts, NothingBehind, RunsSave, IsSave, SameClosed, SamePast, SameLoss
  <1>4. CASE Stores(x)
    BY <1>0, <1>4 DEF Stores, NothingBehind, RunsSave, SameStore, SameQueue, SameMark, SameApp, SameClosed,
       SamePast, SameLoss
  <1>5. CASE Erases(x)
    BY <1>0, <1>5 DEF Erases, RunsDelete, NothingBehind, RunsSave, SameStore, SameQueue, SameMark, SameApp,
       SameClosed, SamePast, SameLoss
  <1>6. CASE Fails(x)
    BY <1>0, <1>6 DEF Fails, NothingBehind, RunsSave, SameStore, SameQueue, SameMark, SameApp, SameClosed,
       SamePast, SameLoss
  <1>7. CASE SavesOpen(x)
    <2>1. loading[x] = None
      BY <1>0, <1>7 DEF SavesOpen, OnePlace, LInv
    <2> QED
      BY <1>7, <2>1 DEF SavesOpen, NothingBehind, SameClosed
  <1>8. CASE Flushes(x)
    <2>1. loading[x] = None
      BY <1>0, <1>8 DEF Flushes, OnePlace, LInv
    <2> QED
      BY <1>8, <2>1 DEF Flushes, NothingBehind, SameClosed
  <1>9. CASE Grows(x)
    <2>1. loading[x] = None
      BY <1>0, <1>9 DEF Grows, OnePlace, LInv
    <2> QED
      BY <1>9, <2>1 DEF Grows, NothingBehind, SameClosed
  <1>10. CASE Discards(x)
    BY <1>0, <1>10 DEF Discards, NothingBehind, RunsSave, SameStore, SameQueue, SameMark, SameApp,
       SameClosed, SamePast, SameLoss
  <1>11. CASE Closes(x)
    <2>1. loading[x] = None
      BY <1>0, <1>11 DEF Closes, OnePlace, LInv
    <2> QED
      BY <1>11, <2>1 DEF Closes, NothingBehind, SameClosed
  <1>12. CASE Recalls(x)
    BY <1>0, <1>12 DEF Recalls, NothingBehind, RunsSave, SameStore, SameQueue, SameMark, SameApp, SameClosed,
       SamePast, SameLoss
  <1>13. CASE Asks(x)
    BY <1>0, <1>13 DEF Asks, NothingBehind, RunsSave, SameStore, SameQueue, SameMark, SameApp, SameClosed,
       SamePast, SameLoss
  <1>14. CASE Looked(x)
    BY <1>0, <1>14, WritesQueued DEF Looked, Unstored, NothingBehind, RunsSave, SameStore, SameQueue,
       SameMark, SameApp, SameClosed, SamePast, SameLoss
  <1>15. CASE Arrives(x)
    BY <1>0, <1>15 DEF Arrives, NothingBehind, RunsSave, SameStore, SameQueue, SameMark, SameApp, SameClosed,
       SamePast, SameLoss
  <1>16. CASE RemovalAsked(x)
    BY <1>0, <1>16 DEF RemovalAsked, NothingBehind, RunsSave, SameStore, SameQueue, SameMark, SameApp,
       SameClosed, SamePast, SameLoss
  <1>17. CASE RemovalTakenBack(x)
    BY <1>0, <1>17 DEF RemovalTakenBack, NothingBehind, RunsSave, SameStore, SameQueue, SameMark, SameApp,
       SameClosed, SamePast, SameLoss
  <1>18. CASE RemovalBegins(x)
    BY <1>0, <1>18 DEF RemovalBegins, NothingBehind, RunsSave, SameStore, SameQueue, SameMark, SameApp,
       SameClosed, SamePast, SameLoss
  <1>19. CASE RemovalDrains(x)
    <2>1. ~IsSave(DeleteOf(TRUE))
      BY DeleteOfKind
    <2>2. /\ DOMAIN queue[x] = 1..Len(queue[x]) /\ Len(queue[x]) \in Nat
          /\ DOMAIN queue'[x] = 1..(Len(queue[x]) + 1)
          /\ \A i \in DOMAIN queue[x] : queue'[x][i] = queue[x][i]
          /\ queue'[x][Len(queue[x]) + 1] = DeleteOf(TRUE)
      BY <1>19, <2>1, AddedWrites DEF RemovalDrains
    <2>3. \A i \in DOMAIN queue'[x] : i \in DOMAIN queue[x] \/ i = Len(queue[x]) + 1
      BY <2>2
    <2>4. \A i \in DOMAIN queue'[x] : IsSave(queue'[x][i]) => i \in DOMAIN queue[x] /\ IsSave(queue[x][i])
      BY <2>1, <2>2, <2>3
    <2> QED
      BY <1>0, <1>19, <2>4 DEF RemovalDrains, NothingBehind, RunsSave, SameClosed, SamePast, SameLoss
  <1>20. CASE RemovalEnds(x)
    BY <1>0, <1>20 DEF RemovalEnds, NothingBehind, RunsSave, SameStore, SameQueue, SameMark, SameApp,
       SameClosed, SamePast, SameLoss
  <1>21. CASE Expires(x)
    BY <1>0, <1>21 DEF Expires, NothingBehind, RunsSave, SameStore, SameQueue, SameMark, SameApp, SameClosed,
       SamePast, SameLoss
  <1> QED
    BY <1>1, <1>2, <1>3, <1>4, <1>5, <1>6, <1>7, <1>8, <1>9, <1>10, <1>11, <1>12, <1>13, <1>14, <1>15, <1>16,
       <1>17, <1>18, <1>19, <1>20, <1>21 DEF Changes, InStore, InApp, InClosed, InRemoval

-----------------------------------------------------------------------------
(* The order of the writes.                                                  *)

LEMMA TakenChain ==
    ASSUME TInv, NEW x \in Sessions, Chain(x), Taken(x), stored'[x] = stored[x], withdrawn'[x] = withdrawn[x],
           RunsSave(x)' =>
             IsSave(queue[x][1]) /\ running'[x].doc = queue[x][1].doc /\ running'[x].old = queue[x][1].old
    PROVE  Chain(x)'
  <1>1. /\ DOMAIN queue[x] = 1..Len(queue[x]) /\ Len(queue[x]) \in Nat \ {0} /\ 1 \in DOMAIN queue[x]
        /\ DOMAIN queue'[x] = 1..(Len(queue[x]) - 1)
        /\ \A i \in DOMAIN queue'[x] : i + 1 \in DOMAIN queue[x] /\ queue'[x][i] = queue[x][i + 1]
    BY TakenWrites
  <1>2. \A j \in DOMAIN queue'[x] : 1 < j + 1 /\ j + 1 \in DOMAIN queue[x]
    BY <1>1
  <1>3. \A i, j \in DOMAIN queue'[x] : i < j => i + 1 < j + 1
    BY <1>1
  <1>4. stored'[x] # None /\ RunsSave(x)' /\ ~running'[x].old =>
           stored'[x].text \ withdrawn'[x] \subseteq running'[x].doc.text
    BY <1>1 DEF Chain
  <1>5. ASSUME NEW j \in DOMAIN queue'[x], IsSave(queue'[x][j]), ~queue'[x][j].old
        PROVE  /\ stored'[x] # None => stored'[x].text \ withdrawn'[x] \subseteq queue'[x][j].doc.text
               /\ RunsSave(x)' => running'[x].doc.text \ withdrawn'[x] \subseteq queue'[x][j].doc.text
    <2>1. queue'[x][j] = queue[x][j + 1] /\ IsSave(queue[x][j + 1]) /\ ~queue[x][j + 1].old
          /\ j + 1 \in DOMAIN queue[x] /\ 1 < j + 1
      BY <1>1, <1>2, <1>5
    <2>2. IsSave(queue[x][1]) => queue[x][1].doc.text \ withdrawn[x] \subseteq queue[x][j + 1].doc.text
      BY <1>1, <2>1 DEF Chain
    <2>3. stored[x] # None => stored[x].text \ withdrawn[x] \subseteq queue[x][j + 1].doc.text
      BY <2>1 DEF Chain
    <2> QED
      BY <2>1, <2>2, <2>3
  <1>6. ASSUME NEW i \in DOMAIN queue'[x], NEW j \in DOMAIN queue'[x], i < j, IsSave(queue'[x][i]), IsSave(queue'[x][j]),
               ~queue'[x][j].old
        PROVE  queue'[x][i].doc.text \ withdrawn'[x] \subseteq queue'[x][j].doc.text
    <2>1. queue'[x][j] = queue[x][j + 1] /\ j + 1 \in DOMAIN queue[x]
          /\ queue'[x][i] = queue[x][i + 1] /\ i + 1 \in DOMAIN queue[x] /\ i + 1 < j + 1
      BY <1>1, <1>3, <1>6
    <2> QED
      BY <1>6, <2>1 DEF Chain
  <1> QED
    BY <1>4, <1>5, <1>6 DEF Chain

LEMMA AddedChain ==
    ASSUME TInv, NEW x \in Sessions, Chain(x), Newest(x), open[x] # None, NEW w,
           ~w.old => open[x].text \subseteq w.doc.text, queue'[x] = Append(queue[x], w), running'[x] = running[x],
           stored'[x] = stored[x], withdrawn'[x] = withdrawn[x]
    PROVE  Chain(x)'
  <1>1. /\ DOMAIN queue[x] = 1..Len(queue[x]) /\ Len(queue[x]) \in Nat
        /\ DOMAIN queue'[x] = 1..(Len(queue[x]) + 1)
        /\ \A i \in DOMAIN queue[x] : queue'[x][i] = queue[x][i]
        /\ queue'[x][Len(queue[x]) + 1] = w
    BY AddedWrites
  <1>2. Upto(x, open[x].text)
    BY DEF Newest
  <1>3. \A i \in DOMAIN queue'[x] : i \in DOMAIN queue[x] \/ i = Len(queue[x]) + 1
    BY <1>1
  <1>4. RunsSave(x)' <=> RunsSave(x)
    BY DEF RunsSave
  <1>5. ASSUME NEW j \in DOMAIN queue'[x], IsSave(queue'[x][j]), ~queue'[x][j].old
        PROVE  /\ stored'[x] # None => stored'[x].text \ withdrawn'[x] \subseteq queue'[x][j].doc.text
               /\ RunsSave(x)' => running'[x].doc.text \ withdrawn'[x] \subseteq queue'[x][j].doc.text
    BY <1>1, <1>2, <1>3, <1>4, <1>5 DEF Chain, Upto
  <1>6. ASSUME NEW i \in DOMAIN queue'[x], NEW j \in DOMAIN queue'[x], i < j, IsSave(queue'[x][i]), IsSave(queue'[x][j]),
               ~queue'[x][j].old
        PROVE  queue'[x][i].doc.text \ withdrawn'[x] \subseteq queue'[x][j].doc.text
    <2>1. i \in DOMAIN queue[x]
      BY <1>1, <1>6
    <2> QED
      BY <1>1, <1>2, <1>3, <1>6, <2>1 DEF Chain, Upto
  <1> QED
    BY <1>4, <1>5, <1>6 DEF Chain

LEMMA DeleteChain ==
    ASSUME TInv, NEW x \in Sessions, Chain(x), NEW w, ~IsSave(w),
           queue'[x] = Append(queue[x], w), running'[x] = running[x],
           stored'[x] = stored[x], withdrawn[x] \subseteq withdrawn'[x]
    PROVE  Chain(x)'
  <1>1. /\ DOMAIN queue[x] = 1..Len(queue[x]) /\ Len(queue[x]) \in Nat
        /\ DOMAIN queue'[x] = 1..(Len(queue[x]) + 1)
        /\ \A i \in DOMAIN queue[x] : queue'[x][i] = queue[x][i]
        /\ queue'[x][Len(queue[x]) + 1] = w
    BY AddedWrites
  <1>2. \A i \in DOMAIN queue'[x] : IsSave(queue'[x][i]) => i \in DOMAIN queue[x] /\ queue'[x][i] = queue[x][i]
    BY <1>1
  <1>3. RunsSave(x)' <=> RunsSave(x)
    BY DEF RunsSave
  <1> QED
    BY <1>2, <1>3 DEF Chain

\* The saves of what is mounted, or of an older copy of it.
LEMMA SavesMounted ==
    ASSUME TInv, DInv, LInv, NEW x \in Sessions, SavesOpen(x) \/ Flushes(x) \/ Grows(x) \/ Closes(x)
    PROVE  \E w : /\ queue'[x] = queue[x] \/ queue'[x] = Append(queue[x], w)
                  /\ IsSave(w) /\ ~Ends(w) /\ w.doc # None /\ w.doc.led = open[x].led
                  /\ ~w.old => open[x].text \subseteq w.doc.text
                  /\ w.doc.text \subseteq IF open'[x] # None THEN open'[x].text ELSE open[x].text
  <1>1. CASE SavesOpen(x)
    <2>1. PICK tells \in BOOLEAN : queue'[x] = Append(queue[x], SaveOf(open[x], tells, FALSE))
      BY <1>1 DEF SavesOpen, Queued, SameApp
    <2>2. PICK w : w = SaveOf(open[x], tells, FALSE)
      OBVIOUS
    <2>3. IsSave(w) /\ ~Ends(w) /\ w.doc = open[x] /\ queue'[x] = Append(queue[x], w)
      BY <2>1, <2>2 DEF SaveOf, IsSave, Ends
    <2> QED
      BY <1>1, <2>3 DEF SavesOpen, SameApp
  <1>2. CASE Flushes(x)
    <2>1. PICK old : old = ~(open[x].text \subseteq pending[x].text)
      OBVIOUS
    <2>2. PICK w : w = SaveOf(pending[x], TRUE, old)
      OBVIOUS
    <2>3. IsSave(w) /\ ~Ends(w) /\ w.doc = pending[x] /\ w.old = old
      BY <2>2 DEF SaveOf, IsSave, Ends
    <2>4. queue'[x] = queue[x] \/ queue'[x] = Append(queue[x], w)
      BY <1>2, <2>1, <2>2 DEF Flushes
    <2>5. /\ pending[x] # None /\ open'[x] = open[x] /\ open[x] # None
          /\ pending[x].text \subseteq open[x].text /\ pending[x].led = open[x].led
      BY <1>2, PendingAt DEF Flushes
    <2> QED
      BY <2>1, <2>3, <2>4, <2>5
  <1>3. CASE Grows(x)
    <2>1. PICK w : w = SaveOf(open'[x], TRUE, FALSE)
      OBVIOUS
    <2>2. IsSave(w) /\ ~Ends(w) /\ w.doc = open'[x]
      BY <2>1 DEF SaveOf, IsSave, Ends
    <2>3. queue'[x] = queue[x] \/ queue'[x] = Append(queue[x], w)
      BY <1>3, <2>1 DEF Grows, SameQueue, Queued
    <2>4. open'[x] # None /\ open[x].text \subseteq open'[x].text /\ open'[x].led = open[x].led
      BY <1>3 DEF Grows
    <2> QED
      BY <2>2, <2>3, <2>4
  <1>4. CASE Closes(x)
    <2>1. PICK w : w = SaveOf(open[x], TRUE, FALSE)
      OBVIOUS
    <2>2. IsSave(w) /\ ~Ends(w) /\ w.doc = open[x]
      BY <2>1 DEF SaveOf, IsSave, Ends
    <2>3. queue'[x] = queue[x] \/ queue'[x] = Append(queue[x], w)
      BY <1>4, <2>1 DEF Closes
    <2>4. open'[x] = None /\ open[x] # None
      BY <1>4 DEF Closes
    <2> QED
      BY <2>2, <2>3, <2>4
  <1> QED
    BY <1>1, <1>2, <1>3, <1>4

LEMMA ChainNext ==
    ASSUME TInv, TInv', DInv, LInv, NEW x \in Sessions, InOrder(x), Changes(x)
    PROVE  Chain(x)'
  <1>0. Chain(x) /\ Newest(x)
    BY DEF InOrder
  <1>1. CASE Aside(x)
    BY <1>0, <1>1 DEF Aside, Chain, RunsSave, Alike, Goes, SameStore, SameQueue, SameMark, SameApp,
       SameClosed, SamePast, SameLoss
  <1>2. CASE Skips(x)
    BY <1>0, <1>2, TakenChain DEF Skips, SameStore, SamePast, SameLoss, RunsSave
  <1>3. CASE Starts(x)
    BY <1>0, <1>3, TakenChain DEF Starts, SameStore, SamePast, SameLoss, RunsSave, IsSave
  <1>4. CASE Stores(x)
    <2>1. stored'[x].text = running[x].doc.text
      BY <1>4, RunKinds DEF Stores, RunsSave
    <2> QED
      BY <1>0, <1>4, <2>1 DEF Stores, Chain, RunsSave, SamePast, SameLoss
  <1>5. CASE Erases(x)
    BY <1>0, <1>5 DEF Erases, Chain, RunsSave, Alike, Goes, SameStore, SameQueue, SameMark, SameApp,
       SameClosed, SamePast, SameLoss
  <1>6. CASE Fails(x)
    BY <1>0, <1>6 DEF Fails, Chain, RunsSave, Alike, Goes, SameStore, SameQueue, SameMark, SameApp,
       SameClosed, SamePast, SameLoss
  <1>7. CASE SavesOpen(x) \/ Flushes(x) \/ Grows(x) \/ Closes(x)
    <2>1. PICK w : /\ queue'[x] = queue[x] \/ queue'[x] = Append(queue[x], w)
                   /\ ~w.old => open[x].text \subseteq w.doc.text
      BY <1>7, SavesMounted
    <2>2. running'[x] = running[x] /\ stored'[x] = stored[x] /\ withdrawn'[x] = withdrawn[x] /\ open[x] # None
      <3>1. Flushes(x) => open[x] # None
        BY PendingAt DEF Flushes
      <3> QED
        BY <1>7, <3>1 DEF SavesOpen, Flushes, Grows, Closes, Queued, SameStore, SameQueue, SamePast, SameLoss
    <2>3. CASE queue'[x] = queue[x]
      BY <1>0, <2>2, <2>3 DEF Chain, RunsSave
    <2>4. CASE queue'[x] = Append(queue[x], w)
      BY <1>0, <2>1, <2>2, <2>4, AddedChain
    <2> QED
      BY <2>1, <2>3, <2>4
  <1>10. CASE Discards(x)
    <2>1. ~IsSave(DeleteOf(FALSE))
      BY DeleteOfKind
    <2>2. queue'[x] = Append(queue[x], DeleteOf(FALSE)) /\ running'[x] = running[x] /\ stored'[x] = stored[x]
          /\ withdrawn[x] \subseteq withdrawn'[x]
      BY <1>10 DEF Discards, SameStore
    <2> QED
      BY <1>0, <2>1, <2>2, DeleteChain
  <1>12. CASE Recalls(x)
    BY <1>0, <1>12 DEF Recalls, Chain, RunsSave, Alike, Goes, SameStore, SameQueue, SameMark, SameApp,
       SameClosed, SamePast, SameLoss
  <1>13. CASE Asks(x)
    BY <1>0, <1>13 DEF Asks, Chain, RunsSave, Alike, Goes, SameStore, SameQueue, SameMark, SameApp,
       SameClosed, SamePast, SameLoss
  <1>14. CASE Looked(x)
    BY <1>0, <1>14 DEF Looked, Chain, RunsSave, Alike, Goes, SameStore, SameQueue, SameMark, SameApp,
       SameClosed, SamePast, SameLoss
  <1>15. CASE Arrives(x)
    BY <1>0, <1>15 DEF Arrives, Chain, RunsSave, Alike, Goes, SameStore, SameQueue, SameMark, SameApp,
       SameClosed, SamePast, SameLoss
  <1>16. CASE RemovalAsked(x)
    BY <1>0, <1>16 DEF RemovalAsked, Chain, RunsSave, Alike, Goes, SameStore, SameQueue, SameMark, SameApp,
       SameClosed, SamePast, SameLoss
  <1>17. CASE RemovalTakenBack(x)
    BY <1>0, <1>17 DEF RemovalTakenBack, Chain, RunsSave, Alike, Goes, SameStore, SameQueue, SameMark,
       SameApp, SameClosed, SamePast, SameLoss
  <1>18. CASE RemovalBegins(x)
    BY <1>0, <1>18 DEF RemovalBegins, Chain, RunsSave, Alike, Goes, SameStore, SameQueue, SameMark, SameApp,
       SameClosed, SamePast, SameLoss
  <1>19. CASE RemovalDrains(x)
    <2>1. ~IsSave(DeleteOf(TRUE))
      BY DeleteOfKind
    <2>2. queue'[x] = Append(queue[x], DeleteOf(TRUE)) /\ running'[x] = running[x] /\ stored'[x] = stored[x]
          /\ withdrawn[x] \subseteq withdrawn'[x]
      BY <1>19 DEF RemovalDrains, SameStore, SamePast, SameLoss
    <2> QED
      BY <1>0, <2>1, <2>2, DeleteChain
  <1>20. CASE RemovalEnds(x)
    BY <1>0, <1>20 DEF RemovalEnds, Chain, RunsSave, Alike, Goes, SameStore, SameQueue, SameMark, SameApp,
       SameClosed, SamePast, SameLoss
  <1>21. CASE Expires(x)
    BY <1>0, <1>21 DEF Expires, Chain, RunsSave, Alike, Goes, SameStore, SameQueue, SameMark, SameApp,
       SameClosed, SamePast, SameLoss
  <1> QED
    BY <1>1, <1>2, <1>3, <1>4, <1>5, <1>6, <1>7, <1>10, <1>12, <1>13, <1>14, <1>15, <1>16,
       <1>17, <1>18, <1>19, <1>20, <1>21 DEF Changes, InStore, InApp, InClosed, InRemoval

LEMMA UptoSame ==
    ASSUME NEW x \in Sessions, NEW t, Upto(x, t), queue'[x] = queue[x], running'[x] = running[x],
           stored'[x] = stored[x], withdrawn'[x] = withdrawn[x]
    PROVE  Upto(x, t)'
  BY DEF Upto, RunsSave

LEMMA UptoTaken ==
    ASSUME TInv, NEW x \in Sessions, Taken(x), stored'[x] = stored[x], withdrawn'[x] = withdrawn[x],
           RunsSave(x)' => IsSave(queue[x][1]) /\ running'[x].doc = queue[x][1].doc
    PROVE  \A t : Upto(x, t) => Upto(x, t)'
  <1>1. /\ 1 \in DOMAIN queue[x]
        /\ \A i \in DOMAIN queue'[x] : i + 1 \in DOMAIN queue[x] /\ queue'[x][i] = queue[x][i + 1]
    BY TakenWrites
  <1> QED
    BY <1>1 DEF Upto

LEMMA UptoAdded ==
    ASSUME TInv, NEW x \in Sessions, Newest(x), open[x] # None, NEW w, queue'[x] = Append(queue[x], w), running'[x] = running[x],
           stored'[x] = stored[x], withdrawn'[x] = withdrawn[x], NEW t, open[x].text \subseteq t, w.doc.text \subseteq t
    PROVE  Upto(x, t)'
  <1>1. /\ DOMAIN queue[x] = 1..Len(queue[x]) /\ Len(queue[x]) \in Nat
        /\ DOMAIN queue'[x] = 1..(Len(queue[x]) + 1)
        /\ \A i \in DOMAIN queue[x] : queue'[x][i] = queue[x][i]
        /\ queue'[x][Len(queue[x]) + 1] = w
    BY AddedWrites
  <1>2. \A i \in DOMAIN queue'[x] : i \in DOMAIN queue[x] \/ i = Len(queue[x]) + 1
    BY <1>1
  <1>3. Upto(x, open[x].text)
    BY DEF Newest
  <1> QED
    BY <1>1, <1>2, <1>3 DEF Upto, RunsSave

LEMMA AddedDelete ==
    ASSUME TInv, NEW x \in Sessions, NEW w, ~IsSave(w), queue'[x] = Append(queue[x], w)
    PROVE  \A i \in DOMAIN queue'[x] : IsSave(queue'[x][i]) => i \in DOMAIN queue[x] /\ queue'[x][i] = queue[x][i]
  <1>1. /\ DOMAIN queue[x] = 1..Len(queue[x]) /\ Len(queue[x]) \in Nat
        /\ DOMAIN queue'[x] = 1..(Len(queue[x]) + 1)
        /\ \A i \in DOMAIN queue[x] : queue'[x][i] = queue[x][i]
        /\ queue'[x][Len(queue[x]) + 1] = w
    BY AddedWrites
  <1> QED
    BY <1>1

LEMMA NewestNext ==
    ASSUME TInv, TInv', DInv, LInv, NEW x \in Sessions, x \notin early', InOrder(x), Changes(x)
    PROVE  Newest(x)'
  <1>0. Newest(x) /\ OnePlace(x) /\ NothingBehind(x)
    BY DEF InOrder, LInv
  <1>1. CASE Aside(x)
    BY <1>0, <1>1 DEF Aside, Newest, Upto, RunsSave, Alike, Goes, SameStore, SameQueue, SameMark, SameApp,
       SameClosed, SamePast, SameLoss
  <1>2. CASE Skips(x)
    <2>1. \A t : Upto(x, t) => Upto(x, t)'
      BY <1>2, UptoTaken DEF Skips, SameStore, SamePast, SameLoss, RunsSave, IsSave
    <2> QED
      BY <1>0, <1>2, <2>1 DEF Skips, Newest, SameApp, SameClosed, SamePast, SameLoss, SameStore
  <1>3. CASE Starts(x)
    <2>1. \A t : Upto(x, t) => Upto(x, t)'
      BY <1>3, UptoTaken DEF Starts, SameStore, SamePast, SameLoss, RunsSave, IsSave
    <2> QED
      BY <1>0, <1>3, <2>1 DEF Starts, Newest, SameApp, SameClosed, SamePast, SameLoss, SameStore
  <1>4. CASE Stores(x)
    <2>1. \A t : Upto(x, t) => Upto(x, t)'
      BY <1>4, RunKinds DEF Stores, Upto, RunsSave, SamePast, SameLoss
    <2>2. loading[x] # None => ~loading[x].read
      BY <1>0, <1>4 DEF Stores, NothingBehind, SamePast, SameLoss
    <2> QED
      BY <1>0, <1>4, <2>1, <2>2 DEF Stores, Newest, SameClosed, SamePast, SameLoss
  <1>5. CASE Erases(x)
    BY <1>0, <1>5 DEF Erases, Upto, RunsSave, RunsDelete, Newest, Upto, RunsSave, Alike, Goes, SameStore,
       SameQueue, SameMark, SameApp, SameClosed, SamePast, SameLoss
  <1>6. CASE Fails(x)
    BY <1>0, <1>6 DEF Fails, Upto, RunsSave, Newest, Upto, RunsSave, Alike, Goes, SameStore, SameQueue,
       SameMark, SameApp, SameClosed, SamePast, SameLoss
  <1>7. CASE SavesOpen(x) \/ Flushes(x) \/ Grows(x) \/ Closes(x)
    <2>0. PICK t : /\ open'[x] # None => t = open'[x].text
                   /\ open'[x] = None => t = open[x].text
      OBVIOUS
    <2>1. /\ running'[x] = running[x] /\ stored'[x] = stored[x] /\ withdrawn'[x] = withdrawn[x]
          /\ open[x] # None /\ loading'[x] = loading[x] /\ (open'[x] = None <=> Closes(x))
          /\ ~Closes(x) => cache'[x] = cache[x]
      <3>1. Flushes(x) => open[x] # None
        BY PendingAt DEF Flushes
      <3> QED
        BY <1>7, <3>1 DEF SavesOpen, Flushes, Grows, Closes, Queued, SameStore, SameApp, SameClosed, SameQueue, SamePast, SameLoss
    <2>2. open[x].text \subseteq t
      <3>1. open'[x] # None => open[x].text \subseteq open'[x].text
        <4>1. SavesOpen(x) \/ Flushes(x) => open'[x] = open[x]
          BY DEF SavesOpen, Flushes, SameApp
        <4>2. Grows(x) => open[x].text \subseteq open'[x].text
          BY DEF Grows
        <4> QED
          BY <1>7, <2>1, <4>1, <4>2
      <3> QED
        BY <2>0, <3>1
    <2>3. PICK w : (queue'[x] = queue[x] \/ queue'[x] = Append(queue[x], w)) /\ w.doc.text \subseteq t
      BY <1>7, <2>0, SavesMounted
    <2>4. Upto(x, t)'
      <3>1. CASE queue'[x] = queue[x]
        <4>1. Upto(x, open[x].text)
          BY <1>0, <2>1 DEF Newest
        <4> QED
          BY <2>1, <2>2, <3>1, <4>1 DEF Upto, RunsSave
      <3>2. CASE queue'[x] = Append(queue[x], w)
        BY <1>0, <2>1, <2>2, <2>3, <3>2, UptoAdded
      <3> QED
        BY <2>3, <3>1, <3>2
    <2>5. cache'[x] = None \/ (open'[x] = None /\ cache'[x] = open[x])
      BY <1>0, <2>1 DEF Closes, OnePlace
    <2>6. loading'[x] = None
      BY <1>0, <2>1 DEF OnePlace
    <2> QED
      BY <2>0, <2>4, <2>5, <2>6 DEF Newest
  <1>10. CASE Discards(x)
    <2>1. ~IsSave(DeleteOf(FALSE))
      BY DeleteOfKind
    <2>2. queue'[x] = Append(queue[x], DeleteOf(FALSE)) /\ running'[x] = running[x] /\ stored'[x] = stored[x]
          /\ withdrawn'[x] = withdrawn[x] \cup open[x].text /\ open'[x].text = {} /\ open[x] # None
          /\ cache'[x] = None /\ loading'[x] = None
      BY <1>10 DEF Discards, SameStore
    <2>3. Upto(x, open[x].text)
      BY <1>0, <2>2 DEF Newest
    <2>4. \A i \in DOMAIN queue'[x] : IsSave(queue'[x][i]) => i \in DOMAIN queue[x] /\ queue'[x][i] = queue[x][i]
      BY <2>1, <2>2, AddedDelete
    <2>5. Upto(x, {})'
      BY <2>2, <2>3, <2>4 DEF Upto, RunsSave
    <2> QED
      BY <2>2, <2>5 DEF Newest
  <1>12. CASE Recalls(x)
    BY <1>0, <1>12 DEF Recalls, Upto, RunsSave, Newest, Upto, RunsSave, Alike, Goes, SameStore, SameQueue,
       SameMark, SameApp, SameClosed, SamePast, SameLoss
  <1>13. CASE Asks(x)
    BY <1>0, <1>13 DEF Asks, Upto, RunsSave, Newest, Upto, RunsSave, Alike, Goes, SameStore, SameQueue,
       SameMark, SameApp, SameClosed, SamePast, SameLoss
  <1>14. CASE Looked(x)
    BY <1>0, <1>14, WritesQueued DEF Looked, Upto, RunsSave, Unstored, OnePlace, Newest, Upto, RunsSave,
       Alike, Goes, SameStore, SameQueue, SameMark, SameApp, SameClosed, SamePast, SameLoss
  <1>15. CASE Arrives(x)
    BY <1>0, <1>15 DEF Arrives, Upto, RunsSave, Newest, Upto, RunsSave, Alike, Goes, SameStore, SameQueue,
       SameMark, SameApp, SameClosed, SamePast, SameLoss
  <1>16. CASE RemovalAsked(x)
    BY <1>0, <1>16 DEF RemovalAsked, Upto, RunsSave, Newest, Upto, RunsSave, Alike, Goes, SameStore,
       SameQueue, SameMark, SameApp, SameClosed, SamePast, SameLoss
  <1>17. CASE RemovalTakenBack(x)
    BY <1>0, <1>17 DEF RemovalTakenBack, Upto, RunsSave, Newest, Upto, RunsSave, Alike, Goes, SameStore,
       SameQueue, SameMark, SameApp, SameClosed, SamePast, SameLoss
  <1>18. CASE RemovalBegins(x)
    BY <1>0, <1>18 DEF RemovalBegins, Upto, RunsSave, Newest, Upto, RunsSave, Alike, Goes, SameStore,
       SameQueue, SameMark, SameApp, SameClosed, SamePast, SameLoss
  <1>19. CASE RemovalDrains(x)
    <2>1. ~IsSave(DeleteOf(TRUE))
      BY DeleteOfKind
    <2>2. queue'[x] = Append(queue[x], DeleteOf(TRUE)) /\ running'[x] = running[x] /\ stored'[x] = stored[x]
          /\ withdrawn'[x] = withdrawn[x] /\ SameApp(x) /\ SameClosed(x)
      BY <1>19 DEF RemovalDrains, SameStore, SamePast, SameLoss
    <2>3. \A i \in DOMAIN queue'[x] : IsSave(queue'[x][i]) => i \in DOMAIN queue[x] /\ queue'[x][i] = queue[x][i]
      BY <2>1, <2>2, AddedDelete
    <2>4. \A t : Upto(x, t) => Upto(x, t)'
      BY <2>2, <2>3 DEF Upto, RunsSave
    <2> QED
      BY <1>0, <2>2, <2>4 DEF Newest, SameApp, SameClosed
  <1>20. CASE RemovalEnds(x)
    BY <1>0, <1>20 DEF RemovalEnds, Upto, RunsSave, Newest, Upto, RunsSave, Alike, Goes, SameStore,
       SameQueue, SameMark, SameApp, SameClosed, SamePast, SameLoss
  <1>21. CASE Expires(x)
    BY <1>0, <1>21 DEF Expires, Upto, RunsSave, Newest, Upto, RunsSave, Alike, Goes, SameStore, SameQueue,
       SameMark, SameApp, SameClosed, SamePast, SameLoss
  <1> QED
    BY <1>1, <1>2, <1>3, <1>4, <1>5, <1>6, <1>7, <1>10, <1>12, <1>13, <1>14, <1>15, <1>16,
       <1>17, <1>18, <1>19, <1>20, <1>21 DEF Changes, InStore, InApp, InClosed, InRemoval

-----------------------------------------------------------------------------
(* What is stored when it is quiet.                                          *)

\* What the queue ends with is the same.
KeepsFinal(x) == Final(x)' = Final(x) /\ (FinalOld(x)' <=> FinalOld(x))

LEMMA FinalSame ==
    ASSUME NEW x \in Sessions, queue'[x] = queue[x], running'[x] = running[x], Alike(stored[x], stored'[x]), SameAge(x)
    PROVE  KeepsFinal(x)
  BY DEF KeepsFinal, Final, FinalOld, TextOf, Alike, SameAge

LEMMA FinalStarts ==
    ASSUME TInv, NEW x \in Sessions, Starts(x)
    PROVE  KeepsFinal(x)
  <1>1. /\ Len(queue[x]) \in Nat \ {0} /\ DOMAIN queue'[x] = 1..(Len(queue[x]) - 1)
        /\ Len(queue'[x]) = Len(queue[x]) - 1 /\ (queue'[x] = <<>> <=> Len(queue[x]) = 1)
        /\ \A i \in DOMAIN queue'[x] : queue'[x][i] = queue[x][i + 1]
    BY TakenWrites DEF Starts
  <1>2. /\ running'[x] # None /\ running'[x].doc = queue[x][1].doc /\ running'[x].old = queue[x][1].old
        /\ queue[x] # <<>>
    BY DEF Starts, Taken
  <1>3. CASE Len(queue[x]) = 1
    BY <1>1, <1>2, <1>3 DEF KeepsFinal, Final, FinalOld
  <1>4. CASE Len(queue[x]) # 1
    <2>1. Len(queue[x]) - 1 \in DOMAIN queue'[x] /\ (Len(queue[x]) - 1) + 1 = Len(queue[x])
      BY <1>1, <1>4
    <2>2. queue'[x][Len(queue'[x])] = queue[x][Len(queue[x])]
      BY <1>1, <2>1
    <2> QED
      BY <1>1, <1>2, <1>4, <2>2 DEF KeepsFinal, Final, FinalOld
  <1> QED
    BY <1>3, <1>4

LEMMA FinalStores ==
    ASSUME TInv, NEW x \in Sessions, Stores(x)
    PROVE  KeepsFinal(x)
  <1>1. stored'[x].text = running[x].doc.text /\ stored'[x] # None /\ running[x].doc # None
    <2>1. running[x].doc \in Texts(edits) /\ running[x].sent \in Texts(edits)
          /\ running[x].sent.text = running[x].doc.text
      BY RunKinds DEF Stores, RunsSave
    <2>2. None \notin Texts(edits)
      BY Nones DEF TInv
    <2> QED
      BY <2>1, <2>2 DEF Stores
  <1>2. running'[x] = None /\ queue'[x] = queue[x] /\ running[x] # None /\ (x \in outdated' <=> running[x].old)
    BY DEF Stores, RunsSave
  <1> QED
    BY <1>1, <1>2 DEF KeepsFinal, Final, FinalOld, TextOf

LEMMA FinalErases ==
    ASSUME TInv, NEW x \in Sessions, Erases(x)
    PROVE  KeepsFinal(x)
  <1>1. running[x].doc = None /\ ~running[x].old
    BY RunKinds DEF Erases, RunsDelete
  <1>2. running'[x] = None /\ queue'[x] = queue[x] /\ running[x] # None /\ stored'[x] = None /\ x \notin outdated'
    BY DEF Erases, RunsDelete
  <1> QED
    BY <1>1, <1>2 DEF KeepsFinal, Final, FinalOld, TextOf

LEMMA FinalAdded ==
    ASSUME TInv, NEW x \in Sessions, NEW w, queue'[x] = Append(queue[x], w)
    PROVE  Final(x)' = TextOf(w.doc) /\ (FinalOld(x)' <=> w.old)
  <1>1. Len(queue'[x]) = Len(queue[x]) + 1 /\ queue'[x] # <<>> /\ queue'[x][Len(queue[x]) + 1] = w
    BY AddedWrites
  <1> QED
    BY <1>1 DEF Final, FinalOld, TextOf

\* A clean conversation was clean, and its save holds what is open.
LEMMA CleanBefore ==
    ASSUME TInv, DInv, NEW x \in Sessions, Changes(x), Clean(x)'
    PROVE  Clean(x) /\ ~Skips(x) /\ ~Fails(x) /\ ~RemovalBegins(x) /\ ~RemovalDrains(x) /\ ~RemovalEnds(x) /\ ~Expires(x)
           /\ (Erases(x) => ~Ends(running[x]))
  <1>0. Marked(x)
    BY DEF DInv
  <1>1. ~Skips(x) /\ ~Fails(x) /\ ~RemovalBegins(x) /\ ~Expires(x)
    BY DEF Clean, Skips, Fails, RemovalBegins, Expires, SameMark, SameStore
  <1>2. ~RemovalDrains(x) /\ ~RemovalEnds(x) /\ (Erases(x) => ~Ends(running[x]))
    BY <1>0 DEF Clean, RemovalDrains, RemovalEnds, Erases, Marked, Goes, SameStore
  <1>3. Clean(x)
    BY <1>1, <1>2 DEF Changes, InStore, InApp, InClosed, InRemoval, Clean, Aside, Starts, Stores, Erases,
       SavesOpen,
           Flushes, Grows, Discards, Closes, Recalls, Asks, Looked, Arrives, RemovalAsked, RemovalTakenBack,
           SameStore, SameMark, SamePast, SameLoss
  <1> QED
    BY <1>1, <1>2, <1>3

LEMMA FlushedFinal ==
    ASSUME TInv, DInv, LInv, NEW x \in Sessions, Clean(x), WillBe(x), Flushes(x)
    PROVE  /\ open[x] # None /\ open[x].text # {}
           /\ Final(x)' = Final(x) \/ Final(x)' \subseteq open[x].text
           /\ ~FinalOld(x)' /\ (x \notin busy \/ (last[x] # None /\ last[x].text = open[x].text))
              => Final(x)' = open[x].text
  <1>1. /\ open[x] # None /\ open[x].text # {} /\ pending[x] # None /\ pending[x].text \subseteq open[x].text
        /\ x \notin busy => pending[x] = open[x]
    BY PendingAt DEF Flushes, LInv, OnePlace
  <1>2. CASE pending[x] # last[x]
    <2>1. PICK old : old = ~(open[x].text \subseteq pending[x].text)
      OBVIOUS
    <2>2. PICK w : w = SaveOf(pending[x], TRUE, old)
      OBVIOUS
    <2>3. queue'[x] = Append(queue[x], w) /\ w.doc = pending[x] /\ w.old = old
      BY <1>2, <2>1, <2>2 DEF Flushes, SaveOf
    <2>4. Final(x)' = pending[x].text /\ (FinalOld(x)' <=> old)
      BY <1>1, <2>3, FinalAdded DEF TextOf
    <2>5. ~FinalOld(x)' => pending[x].text = open[x].text
      BY <1>1, <2>1, <2>4
    <2> QED
      BY <1>1, <2>4, <2>5
  <1>3. CASE pending[x] = last[x]
    <2>1. KeepsFinal(x)
      BY <1>3, FinalSame DEF Flushes, SameStore, SamePast, Alike
    <2>2. ~FinalOld(x) /\ (x \notin busy \/ (last[x] # None /\ last[x].text = open[x].text)) => Final(x) = open[x].text
      BY <1>1, <1>3 DEF WillBe
    <2> QED
      BY <1>1, <2>1, <2>2 DEF KeepsFinal
  <1> QED
    BY <1>2, <1>3

\* What is saved as it is mounted.
LEMMA SavedFinal ==
    ASSUME TInv, NEW x \in Sessions, NEW tells, Queued(x, tells), open'[x] # None
    PROVE  Final(x)' = open'[x].text
  <1>1. PICK w : w = SaveOf(open'[x], tells, FALSE)
    OBVIOUS
  <1>2. queue'[x] = Append(queue[x], w) /\ w.doc = open'[x]
    BY <1>1 DEF Queued, SaveOf
  <1> QED
    BY <1>2, FinalAdded DEF TextOf

LEMMA GrownFinal ==
    ASSUME TInv, NEW x \in Sessions, Grows(x)
    PROVE  KeepsFinal(x) \/ Final(x)' = open'[x].text
  <1>1. CASE SameQueue(x)
    BY <1>1, FinalSame DEF Grows, SameStore, SameQueue, SamePast, Alike
  <1>2. CASE Queued(x, TRUE)
    BY <1>2, SavedFinal DEF Grows
  <1> QED
    BY <1>1, <1>2 DEF Grows

LEMMA ClosedFinal ==
    ASSUME TInv, DInv, LInv, NEW x \in Sessions, Clean(x), Clean(x)', WillBe(x), Closes(x)
    PROVE  /\ open[x] # None
           /\ Final(x)' = Final(x) \/ Final(x)' = open[x].text
           /\ open[x].text # {} /\ ~FinalOld(x)' => Final(x)' = open[x].text
  <1>1. open[x] # None /\ Stage(x) = "none" /\ x \notin tombs
    BY DEF Closes, Clean
  <1>2. CASE open[x] # last[x] /\ open[x].text # {}
    <2>1. PICK w : w = SaveOf(open[x], TRUE, FALSE)
      OBVIOUS
    <2>2. queue'[x] = Append(queue[x], w) /\ w.doc = open[x]
      BY <1>1, <1>2, <2>1 DEF Closes, SaveOf
    <2>3. Final(x)' = TextOf(open[x])
      BY <2>2, FinalAdded
    <2> QED
      BY <1>1, <2>3 DEF TextOf
  <1>3. CASE ~(open[x] # last[x] /\ open[x].text # {})
    <2>1. KeepsFinal(x)
      BY <1>3, FinalSame DEF Closes, SameStore, Alike
    <2>2. open[x].text # {} /\ ~FinalOld(x) => Final(x) = open[x].text
      BY <1>1, <1>3 DEF WillBe
    <2> QED
      BY <1>1, <2>1, <2>2 DEF KeepsFinal
  <1> QED
    BY <1>2, <1>3

LEMMA SameBehind ==
    ASSUME NEW x \in Sessions, Behind(x), queue'[x] = queue[x], running'[x] = running[x], stored'[x] = stored[x],
           withdrawn'[x] = withdrawn[x]
    PROVE  Behind(x)'
  BY DEF Behind, RunsSave

LEMMA SaveBehind ==
    ASSUME TInv, NEW x \in Sessions, Behind(x), NEW w, IsSave(w),
           queue'[x] = Append(queue[x], w), running'[x] = running[x], stored'[x] = stored[x],
           withdrawn'[x] = withdrawn[x]
    PROVE  Behind(x)'
  <1>1. /\ DOMAIN queue[x] = 1..Len(queue[x]) /\ Len(queue[x]) \in Nat
        /\ DOMAIN queue'[x] = 1..(Len(queue[x]) + 1)
        /\ \A i \in DOMAIN queue[x] : queue'[x][i] = queue[x][i]
        /\ queue'[x][Len(queue[x]) + 1] = w
    BY AddedWrites
  <1>2. \A j \in DOMAIN queue'[x] : ~IsSave(queue'[x][j]) => j \in DOMAIN queue[x] /\ queue'[x][j] = queue[x][j]
    BY <1>1
  <1>3. \A i \in DOMAIN queue'[x], j \in DOMAIN queue[x] : i < j => i \in DOMAIN queue[x]
    BY <1>1
  <1> QED
    BY <1>1, <1>2, <1>3 DEF Behind, RunsSave

LEMMA AheadNext ==
    ASSUME TInv, TInv', DInv, LInv, NEW x \in Sessions, InOrder(x), Clean(x) => Ahead(x) /\ WillBe(x),
           Changes(x), Clean(x)'
    PROVE  Ahead(x)'
  <1>0. /\ Clean(x) /\ Ahead(x) /\ Behind(x) /\ WillBe(x)
        /\ ~Skips(x) /\ ~Fails(x) /\ ~RemovalBegins(x) /\ ~RemovalDrains(x) /\ ~RemovalEnds(x) /\ ~Expires(x)
    BY CleanBefore DEF Ahead
  <1>1. CASE Aside(x)
    <2>1. Final(x)' = Final(x)
      BY <1>1, FinalSame DEF Aside, SameQueue, SamePast, KeepsFinal
    <2> QED
      BY <1>0, <1>1, <2>1 DEF Aside, Ahead, Behind, RunsSave, RunsDelete, TextOf, Alike, SameQueue, SameApp,
         SamePast, SameLoss
  <1>2. CASE Skips(x)
    BY <1>0, <1>2
  <1>3. CASE Starts(x)
    <2>1. Final(x)' = Final(x)
      BY <1>3, FinalStarts DEF KeepsFinal
    <2>2. /\ 1 \in DOMAIN queue[x] /\ Len(queue[x]) \in Nat /\ DOMAIN queue'[x] = 1..(Len(queue[x]) - 1)
          /\ \A i \in DOMAIN queue'[x] : i + 1 \in DOMAIN queue[x] /\ queue'[x][i] = queue[x][i + 1]
      BY <1>3, TakenWrites DEF Starts
    <2>3. stored'[x] = stored[x] /\ withdrawn'[x] = withdrawn[x] /\ open'[x] = open[x]
          /\ cache'[x] = cache[x] /\ (RunsSave(x)' <=> IsSave(queue[x][1])) /\ running'[x].doc = queue[x][1].doc
          /\ (RunsDelete(x)' => ~IsSave(queue[x][1]))
      BY <1>3 DEF Starts, SameStore, SamePast, SameLoss, SameApp, SameClosed, RunsSave, RunsDelete, IsSave
    <2>4. RunsDelete(x)' => TextOf(stored'[x]) \subseteq withdrawn'[x]
      BY <1>0, <2>2, <2>3 DEF Ahead, Behind
    <2>5. \A i, j \in DOMAIN queue'[x] : i < j => i + 1 < j + 1
      BY <2>2
    <2>6. \A j \in DOMAIN queue'[x] : 1 < j + 1
      BY <2>2
    <2>7. Behind(x)'
      BY <1>0, <2>2, <2>3, <2>5, <2>6 DEF Behind
    <2> QED
      BY <1>0, <2>1, <2>3, <2>4, <2>7 DEF Ahead
  <1>4. CASE Stores(x)
    <2>1. Final(x)' = Final(x)
      BY <1>4, FinalStores DEF KeepsFinal
    <2>2. stored'[x].text = running[x].doc.text /\ RunsSave(x) /\ queue'[x] = queue[x] /\ running'[x] = None
          /\ withdrawn'[x] = withdrawn[x] /\ open'[x] = open[x] /\ cache'[x] \in {cache[x], None}
      BY <1>4, RunKinds DEF Stores, RunsSave, SameClosed, SamePast, SameLoss
    <2>3. \A j \in DOMAIN queue[x] : ~IsSave(queue[x][j]) => running[x].doc.text \subseteq withdrawn[x]
      BY <1>0, <2>2 DEF Behind
    <2>4. Behind(x)'
      BY <1>0, <2>2, <2>3 DEF Behind, TextOf, RunsSave
    <2> QED
      BY <1>0, <2>1, <2>2, <2>4 DEF Ahead, RunsDelete
  <1>5. CASE Erases(x)
    <2>1. Final(x)' = Final(x)
      BY <1>5, FinalErases DEF KeepsFinal
    <2> QED
      BY <1>0, <1>5, <2>1 DEF Erases, Ahead, Behind, RunsSave, RunsDelete, TextOf, SameApp, SameClosed, SamePast, SameLoss
  <1>6. CASE Fails(x)
    BY <1>0, <1>6
  <1>7. CASE SavesOpen(x) \/ Flushes(x) \/ Grows(x) \/ Closes(x)
    <2>1. /\ running'[x] = running[x] /\ stored'[x] = stored[x] /\ withdrawn'[x] = withdrawn[x]
          /\ open[x] # None /\ open[x].text \cap withdrawn[x] = {}
          /\ cache'[x] \in {cache[x], open[x]}
      <3>1. Flushes(x) => open[x] # None
        BY PendingAt DEF Flushes
      <3> QED
        BY <1>0, <1>7, <3>1 DEF SavesOpen, Flushes, Grows, Closes, Queued, Ahead, SameStore, SameApp,
           SameQueue, SameClosed, SamePast, SameLoss
    <2>2. open'[x] # None => open'[x].text \cap withdrawn[x] = {}
      <3>1. edits + 1 \notin withdrawn[x]
        <4>1. edits \in Nat /\ withdrawn[x] \subseteq 0..edits
          BY WritesAssumption DEF TInv
        <4> QED
          BY <4>1
      <3>2. SavesOpen(x) \/ Flushes(x) \/ Closes(x) => open'[x] = open[x] \/ open'[x] = None
        BY DEF SavesOpen, Flushes, Closes, SameApp
      <3>3. Grows(x) => open'[x].text = open[x].text \/ open'[x].text = open[x].text \cup {edits + 1}
        BY DEF Grows
      <3> QED
        BY <1>7, <2>1, <3>1, <3>2, <3>3
    <2>3. Final(x)' \cap withdrawn[x] = {}
      <3>1. CASE SavesOpen(x)
        <4>1. Final(x)' = open'[x].text /\ open'[x] # None
          BY <3>1, SavedFinal DEF SavesOpen, SameApp
        <4> QED
          BY <2>2, <4>1
      <3>2. CASE Flushes(x)
        BY <1>0, <2>1, <3>2, FlushedFinal DEF Ahead
      <3>3. CASE Grows(x)
        <4>1. open'[x] # None
          BY <3>3 DEF Grows
        <4> QED
          BY <1>0, <2>2, <3>3, <4>1, GrownFinal DEF KeepsFinal, Ahead
      <3>4. CASE Closes(x)
        BY <1>0, <2>1, <3>4, ClosedFinal DEF Ahead
      <3> QED
        BY <1>7, <3>1, <3>2, <3>3, <3>4
    <2>4. Behind(x)'
      <3>1. PICK w : IsSave(w) /\ (queue'[x] = queue[x] \/ queue'[x] = Append(queue[x], w))
        BY <1>7, SavesMounted
      <3> QED
        BY <1>0, <2>1, <3>1, SameBehind, SaveBehind
    <2> QED
      BY <1>0, <2>1, <2>2, <2>3, <2>4 DEF Ahead, RunsDelete
  <1>10. CASE Discards(x)
    <2>1. ~IsSave(DeleteOf(FALSE)) /\ DeleteOf(FALSE).doc = None
      BY DeleteOfKind
    <2>2. queue'[x] = Append(queue[x], DeleteOf(FALSE)) /\ running'[x] = running[x] /\ stored'[x] = stored[x]
          /\ withdrawn'[x] = withdrawn[x] \cup open[x].text /\ open'[x].text = {} /\ open[x] # None
          /\ cache'[x] = None
      BY <1>10 DEF Discards, SameStore
    <2>3. Final(x)' = TextOf(None)
      BY <2>1, <2>2, FinalAdded
    <2>4. Upto(x, open[x].text)
      BY <1>0, <2>2 DEF InOrder, Newest
    <2>5. /\ DOMAIN queue[x] = 1..Len(queue[x]) /\ Len(queue[x]) \in Nat
          /\ DOMAIN queue'[x] = 1..(Len(queue[x]) + 1)
          /\ \A i \in DOMAIN queue[x] : queue'[x][i] = queue[x][i]
          /\ queue'[x][Len(queue[x]) + 1] = DeleteOf(FALSE)
      BY <2>1, <2>2, AddedWrites
    <2>6. \A i \in DOMAIN queue'[x] : IsSave(queue'[x][i]) => i \in DOMAIN queue[x] /\ queue'[x][i] = queue[x][i]
      BY <2>1, <2>2, AddedDelete
    <2>7. TextOf(stored'[x]) \subseteq withdrawn'[x]
      BY <2>2, <2>4 DEF Upto, TextOf
    <2>8. RunsSave(x)' => running'[x].doc.text \subseteq withdrawn'[x]
      BY <2>2, <2>4 DEF Upto, RunsSave
    <2>9. \A i \in DOMAIN queue'[x] : IsSave(queue'[x][i]) => queue'[x][i].doc.text \subseteq withdrawn'[x]
      BY <2>2, <2>4, <2>6 DEF Upto
    <2>10. Behind(x)'
      BY <2>7, <2>8, <2>9 DEF Behind
    <2> QED
      BY <2>2, <2>3, <2>7, <2>10 DEF Ahead, TextOf
  <1>12. CASE Recalls(x)
    <2>1. Final(x)' = Final(x)
      BY <1>12, FinalSame DEF Recalls, SameStore, SameQueue, SamePast, Alike, KeepsFinal
    <2>2. queue'[x] = queue[x] /\ running'[x] = running[x] /\ stored'[x] = stored[x] /\ withdrawn'[x] = withdrawn[x]
          /\ cache[x] # None /\ cache'[x] = None /\ (open'[x] = cache[x] \/ open'[x] = open[x])
      BY <1>12 DEF Recalls, SameStore, SameQueue, SamePast, SameLoss, SameApp, SameClosed
    <2>3. Behind(x)'
      BY <1>0, <2>2, SameBehind
    <2> QED
      BY <1>0, <2>1, <2>2, <2>3 DEF Ahead, RunsDelete
  <1>13. CASE Asks(x)
    <2>1. Final(x)' = Final(x)
      BY <1>13, FinalSame DEF Asks, SameStore, SameQueue, SamePast, Alike, KeepsFinal
    <2>2. queue'[x] = queue[x] /\ running'[x] = running[x] /\ stored'[x] = stored[x] /\ withdrawn'[x] = withdrawn[x]
          /\ open'[x] = open[x] /\ cache'[x] \in {cache[x], None}
      BY <1>13 DEF Asks, SameStore, SameQueue, SamePast, SameLoss, SameApp, SameClosed
    <2>3. Behind(x)'
      BY <1>0, <2>2, SameBehind
    <2> QED
      BY <1>0, <2>1, <2>2, <2>3 DEF Ahead, RunsDelete
  <1>14. CASE Looked(x)
    <2>1. Final(x)' = Final(x)
      BY <1>14, FinalSame DEF Looked, SameStore, SameQueue, SamePast, Alike, KeepsFinal
    <2>2. queue'[x] = queue[x] /\ running'[x] = running[x] /\ stored'[x] = stored[x] /\ withdrawn'[x] = withdrawn[x]
          /\ open'[x] = open[x] /\ cache'[x] \in {cache[x], None}
      BY <1>14 DEF Looked, SameStore, SameQueue, SamePast, SameLoss, SameApp, SameClosed
    <2>3. Behind(x)'
      BY <1>0, <2>2, SameBehind
    <2> QED
      BY <1>0, <2>1, <2>2, <2>3 DEF Ahead, RunsDelete
  <1>15. CASE Arrives(x)
    <2>1. Final(x)' = Final(x)
      BY <1>15, FinalSame DEF Arrives, SameStore, SameQueue, SamePast, Alike, KeepsFinal
    <2>2. queue'[x] = queue[x] /\ running'[x] = running[x] /\ stored'[x] = stored[x] /\ withdrawn'[x] = withdrawn[x]
          /\ loading[x] # None /\ loading[x].read
          /\ ((loading[x].doc # None /\ open'[x] = loading[x].doc) \/ open'[x] = open[x])
          /\ ((loading[x].doc # None /\ cache'[x] = loading[x].doc) \/ cache'[x] \in {cache[x], None})
      BY <1>15 DEF Arrives, SameStore, SameQueue, SamePast, SameLoss, SameApp, SameClosed
    <2>3. Final(x) = TextOf(loading[x].doc)
      BY <1>0, <2>2 DEF WillBe, Final
    <2>4. Behind(x)'
      BY <1>0, <2>2, SameBehind
    <2> QED
      BY <1>0, <2>1, <2>2, <2>3, <2>4 DEF Ahead, RunsDelete, TextOf
  <1>16. CASE RemovalAsked(x)
    <2>1. Final(x)' = Final(x)
      BY <1>16, FinalSame DEF RemovalAsked, SameStore, SameQueue, SamePast, Alike, KeepsFinal
    <2>2. queue'[x] = queue[x] /\ running'[x] = running[x] /\ stored'[x] = stored[x] /\ withdrawn'[x] = withdrawn[x]
          /\ open'[x] = open[x] /\ cache'[x] \in {cache[x], None}
      BY <1>16 DEF RemovalAsked, SameStore, SameQueue, SamePast, SameLoss, SameApp, SameClosed
    <2>3. Behind(x)'
      BY <1>0, <2>2, SameBehind
    <2> QED
      BY <1>0, <2>1, <2>2, <2>3 DEF Ahead, RunsDelete
  <1>17. CASE RemovalTakenBack(x)
    <2>1. Final(x)' = Final(x)
      BY <1>17, FinalSame DEF RemovalTakenBack, SameStore, SameQueue, SamePast, Alike, KeepsFinal
    <2>2. queue'[x] = queue[x] /\ running'[x] = running[x] /\ stored'[x] = stored[x] /\ withdrawn'[x] = withdrawn[x]
          /\ open'[x] = open[x] /\ cache'[x] \in {cache[x], None}
      BY <1>17 DEF RemovalTakenBack, SameStore, SameQueue, SamePast, SameLoss, SameApp, SameClosed
    <2>3. Behind(x)'
      BY <1>0, <2>2, SameBehind
    <2> QED
      BY <1>0, <2>1, <2>2, <2>3 DEF Ahead, RunsDelete
  <1>18. CASE RemovalBegins(x)
    BY <1>0, <1>18
  <1>19. CASE RemovalDrains(x)
    BY <1>0, <1>19
  <1>20. CASE RemovalEnds(x)
    BY <1>0, <1>20
  <1>21. CASE Expires(x)
    BY <1>0, <1>21
  <1> QED
    BY <1>1, <1>2, <1>3, <1>4, <1>5, <1>6, <1>7, <1>10, <1>12, <1>13, <1>14, <1>15, <1>16,
       <1>17, <1>18, <1>19, <1>20, <1>21 DEF Changes, InStore, InApp, InClosed, InRemoval

\* A save of what is open is the last write, or what comes after it is alike.
LEMMA RunsWhatIsOpen ==
    ASSUME TInv, NEW x \in Sessions, InOrder(x), Ahead(x), RunsSave(x), open[x] # None, open[x].text # {},
           running[x].doc.text = open[x].text, ~FinalOld(x)
    PROVE  Final(x) = open[x].text
  <1>1. running[x] # None /\ running[x].doc # None
    <2>1. running[x].doc \in Texts(edits) /\ running[x] # None
      BY RunKinds DEF RunsSave
    <2> QED
      BY <2>1, Nones DEF TInv
  <1>2. CASE queue[x] = <<>>
    BY <1>1, <1>2 DEF Final, TextOf
  <1>3. CASE queue[x] # <<>>
    <2>1. PICK n : n = Len(queue[x])
      OBVIOUS
    <2>2. n \in DOMAIN queue[x] /\ queue[x] \in Seq(Saves(edits) \cup Deletes)
      <3>1. queue[x] \in Seq(Saves(edits) \cup Deletes)
        BY DEF TInv
      <3> QED
        BY <1>3, <2>1, <3>1
    <2>3. Final(x) = TextOf(queue[x][n].doc) /\ Final(x) \cap withdrawn[x] = {} /\ open[x].text \cap withdrawn[x] = {}
      BY <1>3, <2>1 DEF Final, Ahead
    <2>4. CASE IsSave(queue[x][n])
      <3>1. queue[x][n].doc # None
        <4>1. queue[x][n] \in Saves(edits) \cup Deletes
          BY <2>2
        <4>2. queue[x][n].doc \in Texts(edits)
          BY <2>4, <4>1, Kinds
        <4> QED
          BY <4>2, Nones DEF TInv
      <3>2. queue[x][n].doc.text \ withdrawn[x] \subseteq open[x].text
        BY <2>2, <2>4 DEF InOrder, Newest, Upto
      <3>3. running[x].doc.text \ withdrawn[x] \subseteq queue[x][n].doc.text
        <4>1. ~queue[x][n].old
          BY <1>3, <2>1 DEF FinalOld
        <4> QED
          BY <2>2, <2>4, <4>1 DEF InOrder, Chain
      <3>4. Final(x) = queue[x][n].doc.text
        BY <2>3, <3>1 DEF TextOf
      <3>5. \A e \in Final(x) : e \in open[x].text
        BY <2>3, <3>2, <3>4
      <3>6. \A e \in open[x].text : e \in Final(x)
        BY <2>3, <3>3, <3>4
      <3> QED
        BY <3>5, <3>6, Zenon
    <2>5. CASE ~IsSave(queue[x][n])
      <3>1. running[x].doc.text \subseteq withdrawn[x]
        BY <2>2, <2>5 DEF Ahead, Behind
      <3> QED
        BY <2>3, <3>1
    <2> QED
      BY <2>4, <2>5
  <1> QED
    BY <1>2, <1>3

\* The next edit is in no transcript.
LEMMA NotYet ==
    ASSUME TInv, NEW x \in Sessions
    PROVE  /\ observed[x] # None => edits + 1 \notin observed[x].text
           /\ last[x] # None => edits + 1 \notin last[x].text
  <1>1. edits \in Nat /\ edits + 1 \notin 0..edits
    BY WritesAssumption DEF TInv
  <1>2. \A d \in Docs(edits) : edits + 1 \notin d.text
    BY <1>1 DEF Docs
  <1> QED
    BY <1>2 DEF TInv

LEMMA WillBeNext ==
    ASSUME TInv, TInv', DInv, LInv, NEW x \in Sessions, InOrder(x), Clean(x) => Ahead(x) /\ WillBe(x),
           Changes(x), Clean(x)'
    PROVE  WillBe(x)'
  <1>0. /\ Clean(x) /\ Ahead(x) /\ WillBe(x) /\ OnePlace(x)
        /\ ~Skips(x) /\ ~Fails(x) /\ ~RemovalBegins(x) /\ ~RemovalDrains(x) /\ ~RemovalEnds(x) /\ ~Expires(x)
    BY CleanBefore DEF LInv
  <1>1. CASE Aside(x)
    <2>1. KeepsFinal(x) /\ TextOf(stored'[x]) = TextOf(stored[x])
      BY <1>1, FinalSame DEF Aside, SameQueue, SamePast, Alike, TextOf
    <2>2. /\ queue'[x] = queue[x] /\ running'[x] = running[x] /\ last'[x] = last[x] /\ SameTurn(x)
          /\ cache'[x] \in {cache[x], None} /\ loading'[x] \in {loading[x], None}
          /\ (open[x] = None <=> open'[x] = None) /\ (open[x] # None => open'[x].text = open[x].text)
      BY <1>1 DEF Aside, SameQueue, Alike
    <2>3. CASE SameApp(x)
      BY <1>0, <2>1, <2>2, <2>3 DEF WillBe, SameApp, SameTurn, KeepsFinal
    <2>4. CASE Looks(x, IF pending[x] = None THEN None ELSE [text |-> pending[x].text, led |-> open'[x].led])
      <3>1. PICK waits : waits = [text |-> pending[x].text, led |-> open'[x].led]
        OBVIOUS
      <3>2. pending[x] # None /\ open'[x] # None => waits # None
        <4>1. pending[x] # None => pending[x].text \subseteq 0..edits
          BY DEF TInv, Texts, Docs
        <4>2. open'[x] # None => open'[x].led \in BOOLEAN
          BY DEF TInv, Docs
        <4>3. pending[x] # None /\ open'[x] # None => waits \in Docs(edits)
          BY <3>1, <4>1, <4>2 DEF Docs
        <4> QED
          BY <4>3, Nones DEF TInv
      <3>3. open[x] # None /\ pending'[x] = None /\ observed'[x] # None /\ observed'[x].text = open'[x].text /\ x \notin busy' =>
              \/ pending[x] = None /\ observed[x] # None /\ observed[x].text = open[x].text
              \/ open[x].text = {}
        BY <2>2, <2>4, <3>1, <3>2 DEF Looks, Sees
      <3> QED
        BY <1>0, <2>1, <2>2, <3>3 DEF WillBe, KeepsFinal, SameTurn
    <2> QED
      BY <1>1, <2>3, <2>4 DEF Aside
  <1>2. CASE Skips(x)
    BY <1>0, <1>2
  <1>3. CASE Starts(x)
    <2>1. KeepsFinal(x)
      BY <1>3, FinalStarts
    <2>2. queue[x] # <<>> /\ SameApp(x) /\ SameClosed(x)
      BY <1>3 DEF Starts, Taken
    <2> QED
      BY <1>0, <2>1, <2>2 DEF WillBe, SameApp, SameTurn, SameClosed, KeepsFinal
  <1>4. CASE Stores(x)
    <2>1. KeepsFinal(x)
      BY <1>4, FinalStores
    <2>2. /\ RunsSave(x) /\ running[x] # None /\ last'[x] \in {last[x], running[x].doc}
          /\ open'[x] = open[x] /\ observed'[x] = observed[x] /\ pending'[x] = pending[x]
          /\ cache'[x] = cache[x] /\ loading'[x] = loading[x] /\ SameTurn(x)
      BY <1>4 DEF Stores, RunsSave, SameClosed
    <2>3. open[x] # None /\ open[x].text # {} /\ running[x].doc.text = open[x].text /\ ~FinalOld(x) => Final(x) = open[x].text
      BY <1>0, <2>2, RunsWhatIsOpen
    <2> QED
      BY <1>0, <2>1, <2>2, <2>3 DEF WillBe, KeepsFinal, SameTurn
  <1>5. CASE Erases(x)
    <2>1. KeepsFinal(x)
      BY <1>5, FinalErases
    <2>2. running[x] # None /\ SameApp(x) /\ SameClosed(x)
      BY <1>5 DEF Erases, RunsDelete
    <2> QED
      BY <1>0, <2>1, <2>2 DEF WillBe, SameApp, SameTurn, SameClosed, KeepsFinal
  <1>6. CASE Fails(x)
    BY <1>0, <1>6
  <1>7. CASE SavesOpen(x)
    <2>1. open'[x] # None /\ open'[x] = open[x] /\ cache'[x] = None /\ loading'[x] = None
      BY <1>0, <1>7 DEF SavesOpen, SameApp, SameClosed, OnePlace
    <2>2. Final(x)' = open'[x].text
      BY <1>7, <2>1, SavedFinal DEF SavesOpen
    <2>3. open[x].text # {}
      BY <1>7 DEF SavesOpen
    <2> QED
      BY <2>1, <2>2, <2>3 DEF WillBe
  <1>8. CASE Flushes(x)
    <2>1. /\ open[x] # None /\ open[x].text # {}
          /\ ~FinalOld(x)' /\ (x \notin busy \/ (last[x] # None /\ last[x].text = open[x].text))
             => Final(x)' = open[x].text
      BY <1>0, <1>8, FlushedFinal
    <2>2. /\ open'[x] = open[x] /\ cache'[x] = None /\ loading'[x] = None
          /\ last'[x] = last[x] /\ (x \in busy' <=> x \in busy)
      BY <1>0, <1>8, <2>1 DEF Flushes, SameClosed, SameTurn, OnePlace
    <2> QED
      BY <2>1, <2>2 DEF WillBe
  <1>9. CASE Grows(x)
    <2>1. open[x] # None /\ open'[x] # None /\ last'[x] = last[x] /\ cache'[x] = None /\ loading'[x] = None
      BY <1>0, <1>9 DEF Grows, SameClosed, OnePlace
    <2>2. CASE Final(x)' = open'[x].text
      BY <2>1, <2>2 DEF WillBe
    <2>3. CASE KeepsFinal(x) /\ open'[x] = open[x] /\ LooksAgain(x, pending[x])
      <3>1. observed'[x] # None /\ x \notin busy' /\ open'[x].text # {} => pending'[x] = open'[x]
        BY <2>3 DEF LooksAgain, Sees
      <3> QED
        BY <1>0, <2>1, <2>3, <3>1 DEF WillBe, KeepsFinal
    <2>4. CASE KeepsFinal(x) /\ open'[x].text = open[x].text \cup {edits + 1} /\ Looks(x, pending[x])
      <3>1. /\ observed[x] # None => edits + 1 \notin observed[x].text
            /\ last[x] # None => edits + 1 \notin last[x].text
        BY NotYet
      <3>2. pending'[x] = None /\ observed'[x] # None /\ x \notin busy' => observed'[x] = observed[x]
        BY <2>1, <2>4 DEF Looks, Sees
      <3> QED
        BY <2>1, <2>4, <3>1, <3>2 DEF WillBe
    <2>5. \/ open'[x].text = open[x].text \cup {edits + 1} /\ Looks(x, pending[x])
          \/ open'[x] = open[x] /\ LooksAgain(x, pending[x])
      BY <1>9 DEF Grows
    <2> QED
      BY <1>9, <2>2, <2>3, <2>4, <2>5, GrownFinal
  <1>10. CASE Discards(x)
    <2>1. DeleteOf(FALSE).doc = None
      BY DeleteOfKind
    <2>2. /\ queue'[x] = Append(queue[x], DeleteOf(FALSE)) /\ open'[x].text = {}
          /\ cache'[x] = None /\ loading'[x] = None
      BY <1>10 DEF Discards
    <2>3. Final(x)' = TextOf(None)
      BY <2>1, <2>2, FinalAdded
    <2> QED
      BY <2>2, <2>3 DEF WillBe, TextOf
  <1>11. CASE Closes(x)
    <2>1. open[x] # None /\ (open[x].text # {} /\ ~FinalOld(x)' => Final(x)' = open[x].text)
      BY <1>0, <1>11, ClosedFinal
    <2>2. /\ open'[x] = None /\ loading'[x] = None
          /\ cache'[x] = None \/ (open[x].text # {} /\ cache'[x] = open[x])
      BY <1>0, <1>11, <2>1 DEF Closes, OnePlace
    <2> QED
      BY <2>1, <2>2 DEF WillBe
  <1>12. CASE Recalls(x)
    <2>1. KeepsFinal(x)
      BY <1>12, FinalSame DEF Recalls, SameStore, SameQueue, SamePast, Alike
    <2>2. /\ cache'[x] = None /\ loading'[x] = None
          /\ open'[x] = cache[x] \/ open'[x] = None
          /\ cache[x] # None /\ cache[x].text # {}
          /\ ~FinalOld(x) => Final(x) = cache[x].text
      BY <1>0, <1>12 DEF Recalls, SameApp, OnePlace, WillBe, TInv, Texts
    <2> QED
      BY <2>1, <2>2 DEF WillBe, KeepsFinal
  <1>13. CASE Asks(x)
    <2>1. /\ queue'[x] = queue[x] /\ running'[x] = running[x] /\ stored'[x] = stored[x]
          /\ open'[x] = None /\ cache'[x] = None
      BY <1>13 DEF Asks, SameStore, SameQueue, SameApp
    <2>2. loading'[x].read => loading[x] # None /\ loading[x].read /\ loading'[x].doc = loading[x].doc
      BY <1>13 DEF Asks
    <2> QED
      BY <1>0, <2>1, <2>2 DEF WillBe
  <1>14. CASE Looked(x)
    <2>1. /\ queue'[x] = queue[x] /\ running'[x] = running[x] /\ stored'[x] = stored[x]
          /\ open'[x] = None /\ cache'[x] = None /\ loading'[x].doc = stored[x]
      BY <1>0, <1>14 DEF Looked, SameStore, SameQueue, SameApp, OnePlace
    <2>2. queue[x] = <<>> /\ running[x] = None
      BY <1>14 DEF Looked, Unstored, Clean
    <2> QED
      BY <2>1, <2>2 DEF WillBe
  <1>15. CASE Arrives(x)
    <2>1. KeepsFinal(x)
      BY <1>15, FinalSame DEF Arrives, SameStore, SameQueue, SamePast, Alike
    <2>2. loading[x] # None /\ loading[x].read /\ loading'[x] = None /\ open[x] = None /\ cache[x] = None
      BY <1>0, <1>15 DEF Arrives, OnePlace
    <2>3. Final(x) = TextOf(loading[x].doc)
      BY <1>0, <2>2 DEF WillBe, Final
    <2>4. /\ open'[x] = None \/ (loading[x].doc # None /\ open'[x] = loading[x].doc)
          /\ cache'[x] = None \/ (loading[x].doc # None /\ cache'[x] = loading[x].doc)
      BY <1>15, <2>2 DEF Arrives, SameApp
    <2> QED
      BY <2>1, <2>2, <2>3, <2>4 DEF WillBe, TextOf, KeepsFinal
  <1>16. CASE RemovalAsked(x)
    <2>1. KeepsFinal(x)
      BY <1>16, FinalSame DEF RemovalAsked, SameStore, SameQueue, SamePast, Alike
    <2>2. /\ open'[x] = open[x] /\ observed'[x] = observed[x] /\ last'[x] = last[x] /\ pending[x] = None
          /\ cache'[x] = None /\ loading'[x] = None /\ SameTurn(x)
      BY <1>16 DEF RemovalAsked, Clean
    <2> QED
      BY <1>0, <2>1, <2>2 DEF WillBe, KeepsFinal, SameTurn
  <1>17. CASE RemovalTakenBack(x)
    <2>1. KeepsFinal(x)
      BY <1>17, FinalSame DEF RemovalTakenBack, SameStore, SameQueue, SamePast, Alike
    <2> QED
      BY <1>0, <1>17, <2>1 DEF RemovalTakenBack, WillBe, KeepsFinal, SameStore, SameQueue, SameApp,
         SameTurn, SameClosed
  <1>18. CASE RemovalBegins(x)
    BY <1>0, <1>18
  <1>19. CASE RemovalDrains(x)
    BY <1>0, <1>19
  <1>20. CASE RemovalEnds(x)
    BY <1>0, <1>20
  <1>21. CASE Expires(x)
    BY <1>0, <1>21
  <1> QED
    BY <1>1, <1>2, <1>3, <1>4, <1>5, <1>6, <1>7, <1>8, <1>9, <1>10, <1>11, <1>12, <1>13, <1>14, <1>15, <1>16,
       <1>17, <1>18, <1>19, <1>20, <1>21 DEF Changes, InStore, InApp, InClosed, InRemoval

-----------------------------------------------------------------------------
(* The lead and its workers.  What a step does to the lead, seen by x:       *)
(* its removal counts the writes of x, waits for them, and releases x.       *)

LeadMoves(x) ==
    /\ Stage(Lead) = "draining" /\ Stage(Lead)' = "draining" /\ running'[x] # None =>
         removing'[Lead].waits[x] = removing[Lead].waits[x]
    /\ Stage(Lead) # "draining" /\ Stage(Lead)' = "draining" =>
         /\ running'[x] = running[x]
         /\ x \in leadById /\ running[x] # None => removing'[Lead].waits[x] > 0
    /\ Stage(Lead) = "draining" /\ Stage(Lead)' # "draining" =>
         running'[x] = running[x] /\ removing[Lead].waits[x] = 0
    /\ Lead \notin gone /\ Lead \in gone' => running'[x] = running[x] /\ ~Led(stored'[x])
    /\ Lead \in gone /\ Stage(Lead) # "none" /\ Stage(Lead)' = "none" =>
         ~Led(open'[x]) /\ ~Led(cache'[x]) /\ loading'[x] = None
    /\ Lead \in gone /\ Lead \in tombs /\ Lead \notin tombs' => queue'[x] = <<>> /\ running'[x] = None

LEMMA StillMoves ==
    ASSUME NEW x \in Sessions, removing'[Lead] = removing[Lead], Lead \in gone' <=> Lead \in gone,
           Lead \in tombs' <=> Lead \in tombs
    PROVE  LeadMoves(x)
  <1>1. Stage(Lead)' = Stage(Lead)
    BY WritesAssumption, StageKept
  <1> QED
    BY <1>1 DEF LeadMoves

LEMMA CountedMoves ==
    ASSUME TInv, TInv', NEW s \in Sessions, NEW x \in Sessions, removing'[Lead] = Counted(s)[Lead],
           Lead \in gone' <=> Lead \in gone, Lead \in tombs' <=> Lead \in tombs, running'[s] = None
    PROVE  LeadMoves(x)
  <1>0. Lead \in Sessions
    BY WritesAssumption
  <1>1. Stage(Lead)' = Stage(Lead)
    BY <1>0, CountedStage, Stages, StagesNext
  <1>2. ASSUME Stage(Lead) = "draining", running'[x] # None
        PROVE  removing'[Lead].waits[x] = removing[Lead].waits[x]
    <2>1. removing[Lead] # None /\ removing[Lead] \in Removal
      BY <1>0, <1>2, Stages
    <2>2. removing'[Lead].waits = [removing[Lead].waits EXCEPT ![s] = IF @ = 0 THEN 0 ELSE @ - 1]
      BY <1>0, <2>1 DEF Counted
    <2>3. x # s /\ removing[Lead].waits \in [Sessions -> Nat]
      BY <1>2, <2>1 DEF Removal
    <2> QED
      BY <2>2, <2>3
  <1> QED
    BY <1>1, <1>2 DEF LeadMoves

LEMMA OthersMove ==
    ASSUME TInv, NEW s \in Sessions, NEW x \in Sessions,
           \/ Edit(s) \/ Begin(s) \/ End(s) \/ PersistNow(s) \/ Discard(s) \/ Flush \/ Hide
           \/ Close(s) \/ Reopen(s) \/ Prefetch(s) \/ Reads(s) \/ Loaded(s)
    PROVE  LeadMoves(x)
  <1>1. removing' = removing /\ gone' = gone
    BY DEF Edit, Begin, End, Change, PersistNow, Discard, Flush, Hide, Close, Reopen, Prefetch, Reads, Loaded, storeVars
  <1>2. tombs' = tombs
    <2>1. \A docs, tells : Upsert(docs, tells) => tombs' = tombs
      BY DEF Upsert
    <2>2. \A docs : Persist(docs) => tombs' = tombs
      BY <2>1 DEF Persist
    <2>3. \A y, now, turned : Change(y, now, turned) => tombs' = tombs
      BY <2>2 DEF Change, queueVars
    <2> QED
      BY <2>1, <2>2, <2>3 DEF Edit, Begin, End, PersistNow, Discard, Flush, Hide, Close, Reopen, Prefetch, Reads,
         Loaded, queueVars
  <1> QED
    BY <1>1, <1>2, StillMoves

LEMMA StoreMoves ==
    ASSUME TInv, TInv', DInv, NEW s \in Sessions, Invoke(s) \/ SaveLands(s) \/ DeleteLands(s) \/ WriteFails(s),
           RunsDelete(Lead) => Ends(running[Lead]), NEW x \in Sessions, x # Lead
    PROVE  LeadMoves(x)
  <1>0. Lead \in Sessions
    BY WritesAssumption
  <1>1. CASE Invoke(s)
    <2>1. gone' = gone /\ tombs' = tombs
      BY <1>1 DEF Invoke, storeVars
    <2>2. CASE removing' = removing
      BY <2>1, <2>2, StillMoves
    <2>3. CASE removing' # removing
      <3>1. removing' = Counted(s) /\ running' = [running EXCEPT ![s] = None]
        BY <1>1, <2>3 DEF Invoke, Settled
      <3>2. running'[s] = None
        BY <3>1 DEF TInv
      <3> QED
        BY <2>1, <3>1, <3>2, CountedMoves
    <2> QED
      BY <2>2, <2>3
  <1>2. CASE SaveLands(s)
    BY <1>2, CountedMoves DEF SaveLands, Settled, TInv
  <1>3. CASE DeleteLands(s)
    <2>1. tombs' = tombs /\ running'[s] = None /\ (x # s => running'[x] = running[x])
      BY <1>3 DEF DeleteLands, Settled, TInv
    <2>2. CASE s # Lead
      <3>1. removing'[Lead] = Counted(s)[Lead] /\ (Lead \in gone' <=> Lead \in gone)
        BY <1>0, <1>3, <2>2 DEF DeleteLands, Counted
      <3> QED
        BY <2>1, <3>1, CountedMoves
    <2>3. CASE s = Lead
      <3>1. RunsDelete(Lead) /\ Ends(running[Lead])
        BY <1>3, <2>3 DEF DeleteLands, RunsDelete
      <3>2. Stage(Lead) = "deleting" /\ Lead \notin gone
        BY <1>0, <3>1 DEF DInv, OneEnd, Marked, RunsDelete
      <3>4. Stage(Lead)' # "draining"
        <4>1. removing' = [Counted(s) EXCEPT ![s] = [Counted(s)[s] EXCEPT !.at = "deleted"]]
          BY <1>3, <2>3, <3>1 DEF DeleteLands, Ends
        <4>2. removing'[Lead] = [Counted(s)[Lead] EXCEPT !.at = "deleted"]
          BY <1>0, <2>3, <4>1 DEF Counted
        <4>3. Counted(s)[Lead] = [at |-> removing[Lead].at,
                                  waits |-> [removing[Lead].waits EXCEPT ![s] = IF @ = 0 THEN 0 ELSE @ - 1]]
          BY <1>0, <3>2, Stages DEF Counted
        <4>4. removing'[Lead].at = "deleted"
          BY <4>2, <4>3
        <4> QED
          BY <4>4 DEF Stage
      <3>5. ~Led(stored'[x])
        <4>1. stored'[x] = IF stored[x] # None THEN [stored[x] EXCEPT !.led = FALSE] ELSE stored[x]
          BY <1>3, <2>3 DEF DeleteLands, Released
        <4>2. stored[x] # None => stored[x] \in Docs(edits)
          BY DEF Texts, TInv
        <4>3. ASSUME NEW d \in Docs(edits)
              PROVE  ~[d EXCEPT !.led = FALSE].led
          BY DEF Docs
        <4> QED
          BY <4>1, <4>2, <4>3 DEF Led
      <3> QED
        BY <2>1, <2>3, <3>2, <3>4, <3>5 DEF LeadMoves
    <2> QED
      BY <2>2, <2>3
  <1>4. CASE WriteFails(s)
    <2>1. gone' = gone /\ running'[s] = None
      BY <1>4 DEF WriteFails, Settled, storeVars, TInv
    <2>2. CASE s = Lead /\ running[s].op = "delete" /\ running[s].tells
      <3>1. Stage(Lead) = "deleting" /\ Lead \notin gone
        BY <1>0, <1>4, <2>2 DEF WriteFails, Ends, DInv, OneEnd, Marked
      <3>2. removing'[Lead] = None
        BY <1>0, <1>4, <2>2 DEF WriteFails, Counted
      <3>3. Stage(Lead)' = "none"
        BY <3>2 DEF Stage
      <3> QED
        BY <2>1, <3>1, <3>3 DEF LeadMoves
    <2>3. CASE ~(s = Lead /\ running[s].op = "delete" /\ running[s].tells)
      <3>1. removing'[Lead] = Counted(s)[Lead] /\ (Lead \in tombs' <=> Lead \in tombs)
        BY <1>0, <1>4, <2>3 DEF WriteFails, Counted
      <3> QED
        BY <2>1, <3>1, CountedMoves
    <2> QED
      BY <2>2, <2>3
  <1> QED
    BY <1>1, <1>2, <1>3, <1>4

LEMMA RemovalMoves ==
    ASSUME TInv, TInv', DInv, NEW s \in Sessions,
           \/ AskRemoval(s) \/ CancelRemoval(s) \/ BeginDelete(s) \/ Drained(s) \/ EndRemoval(s) \/ Expire(s),
           NEW x \in Sessions, x # Lead
    PROVE  LeadMoves(x)
  <1>0. Lead \in Sessions
    BY WritesAssumption
  <1>1. CASE s # Lead
    <2>1. removing'[Lead] = removing[Lead]
      BY <1>0, <1>1 DEF AskRemoval, CancelRemoval, BeginDelete, Drained, EndRemoval, Expire, TInv
    <2>2. gone' = gone /\ (Lead \in tombs' <=> Lead \in tombs)
      BY <1>1 DEF AskRemoval, CancelRemoval, BeginDelete, Drained, EndRemoval, Expire, storeVars, queueVars
    <2> QED
      BY <2>1, <2>2, StillMoves
  <1>2. CASE s = Lead /\ AskRemoval(s)
    <2>1. removing[Lead] = None /\ gone' = gone /\ tombs' = tombs
      BY <1>2 DEF AskRemoval, storeVars, queueVars
    <2>2. removing'[Lead].at = "asked"
      BY <1>0, <1>2 DEF AskRemoval, TInv
    <2> QED
      BY <2>1, <2>2 DEF LeadMoves, Stage
  <1>3. CASE s = Lead /\ CancelRemoval(s)
    <2>1. Stage(Lead) = "asked" /\ gone' = gone /\ tombs' = tombs
      BY <1>3 DEF CancelRemoval, Stage, storeVars, queueVars
    <2>2. removing'[Lead] = None /\ Lead \notin gone
      BY <1>0, <1>3, <2>1 DEF CancelRemoval, TInv, DInv, Marked
    <2> QED
      BY <2>1, <2>2 DEF LeadMoves, Stage
  <1>4. CASE s = Lead /\ BeginDelete(s)
    <2>1. Stage(Lead) = "asked" /\ gone' = gone /\ running' = running
      BY <1>4 DEF BeginDelete, Stage, storeVars
    <2>2. Lead \notin gone
      BY <1>0, <2>1 DEF DInv, Marked
    <2>3. PICK w : /\ w = [y \in Sessions |-> IF y \in DrainedBy(s)
                              THEN Len(queue[y]) + IF running[y] = None THEN 0 ELSE 1 ELSE 0]
                   /\ removing' = [removing EXCEPT ![s] = [at |-> "draining", waits |-> w]]
      BY <1>4 DEF BeginDelete
    <2>4. removing'[Lead].waits = w
      BY <1>0, <1>4, <2>3 DEF TInv
    <2>5. x \in leadById /\ running[x] # None => w[x] > 0
      <3>1. Len(queue[x]) \in Nat
        BY LenProperties DEF TInv
      <3>2. x \in leadById => x \in DrainedBy(s)
        BY <1>4 DEF DrainedBy
      <3>3. x \in leadById /\ running[x] # None => w[x] = Len(queue[x]) + 1
        BY <2>3, <3>2
      <3> QED
        BY <3>1, <3>3
    <2> QED
      BY <2>1, <2>2, <2>4, <2>5 DEF LeadMoves
  <1>5. CASE s = Lead /\ Drained(s)
    <2>1. Stage(Lead) = "draining" /\ gone' = gone /\ running' = running /\ removing[Lead].waits[x] = 0
      BY <1>5 DEF Drained, Stage, storeVars
    <2>2. Lead \notin gone
      BY <1>0, <2>1 DEF DInv, Marked
    <2>3. Stage(Lead)' # "draining"
      <3>1. removing[Lead] \in Removal
        BY <1>0, <2>1, Stages
      <3>2. removing'[Lead] = [removing[Lead] EXCEPT !.at = "deleting"]
        BY <1>0, <1>5 DEF Drained, TInv
      <3>3. removing'[Lead].at = "deleting"
        BY <3>1, <3>2 DEF Removal
      <3> QED
        BY <3>3 DEF Stage
    <2> QED
      BY <2>1, <2>2, <2>3 DEF LeadMoves
  <1>6. CASE s = Lead /\ EndRemoval(s)
    <2>1. Stage(Lead) = "deleted" /\ gone' = gone /\ tombs' = tombs
      BY <1>6 DEF EndRemoval, Stage, storeVars, queueVars
    <2>2. removing'[Lead] = None
      BY <1>0, <1>6 DEF EndRemoval, TInv
    <2>3. Stage(Lead)' = "none"
      BY <2>2 DEF Stage
    <2>4. ASSUME NEW d \in Docs(edits)
          PROVE  ~[d EXCEPT !.led = FALSE].led /\ (d.led => [d EXCEPT !.led = FALSE] # d)
      BY DEF Docs
    <2>5. ~Led(open'[x])
      <3>1. open' = [Released(open, s) EXCEPT ![s] = None]
        BY <1>6 DEF EndRemoval, Effect
      <3>2. open'[x] = IF open[x] # None THEN [open[x] EXCEPT !.led = FALSE] ELSE open[x]
        BY <1>6, <3>1 DEF Released
      <3>3. open[x] # None => open[x] \in Docs(edits)
        BY DEF TInv
      <3> QED
        BY <2>4, <3>2, <3>3 DEF Led
    <2>6. ~Led(cache'[x])
      <3>1. cache'[x] = IF x \in Reloaded(s) \/ x = s \/ Released(cache, s)[x] # cache[x] THEN None ELSE cache[x]
        BY <1>6 DEF EndRemoval
      <3>2. Released(cache, s)[x] = IF cache[x] # None THEN [cache[x] EXCEPT !.led = FALSE] ELSE cache[x]
        BY <1>6 DEF Released
      <3>3. cache[x] # None => cache[x] \in Docs(edits)
        BY DEF TInv, Texts
      <3> QED
        BY <2>4, <3>1, <3>2, <3>3 DEF Led
    <2>7. loading'[x] = None
      BY <1>6 DEF EndRemoval, Reloaded
    <2> QED
      BY <2>1, <2>3, <2>5, <2>6, <2>7 DEF LeadMoves
  <1>7. CASE s = Lead /\ Expire(s)
    <2>1. Stage(Lead)' = Stage(Lead) /\ removing' = removing /\ gone' = gone
      BY <1>0, <1>7, StageKept DEF Expire, storeVars
    <2>2. queue'[x] = <<>> /\ running'[x] = None
      BY <1>7 DEF Expire
    <2> QED
      BY <2>1, <2>2 DEF LeadMoves
  <1> QED
    BY <1>1, <1>2, <1>3, <1>4, <1>5, <1>6, <1>7

LEMMA LeadMovesNext ==
    ASSUME TInv, TInv', DInv, [WritesNext]_writesVars, RunsDelete(Lead) => Ends(running[Lead]),
           NEW x \in Sessions, x # Lead
    PROVE  LeadMoves(x)
  <1>1. CASE UNCHANGED writesVars
    BY <1>1, StillMoves DEF writesVars, storeVars, queueVars
  <1>2. ASSUME NEW s \in Sessions, Invoke(s) \/ SaveLands(s) \/ DeleteLands(s) \/ WriteFails(s)
        PROVE  LeadMoves(x)
    BY <1>2, StoreMoves
  <1>3. ASSUME NEW s \in Sessions,
               \/ Edit(s) \/ Begin(s) \/ End(s) \/ PersistNow(s) \/ Discard(s) \/ Flush \/ Hide
               \/ Close(s) \/ Reopen(s) \/ Prefetch(s) \/ Reads(s) \/ Loaded(s)
        PROVE  LeadMoves(x)
    BY <1>3, OthersMove
  <1>4. ASSUME NEW s \in Sessions,
               \/ AskRemoval(s) \/ CancelRemoval(s) \/ BeginDelete(s) \/ Drained(s) \/ EndRemoval(s) \/ Expire(s)
        PROVE  LeadMoves(x)
    BY <1>4, RemovalMoves
  <1> QED
    BY <1>1, <1>2, <1>3, <1>4, WritesAssumption DEF WritesNext


\* Every delete of a lead is that of a removal.
LEMMA AddedAll ==
    ASSUME TInv, NEW x \in Sessions, NEW w, IsSave(w) \/ Ends(w),
           queue'[x] = Append(queue[x], w), \A i \in DOMAIN queue[x] : ~IsSave(queue[x][i]) => Ends(queue[x][i])
    PROVE  \A i \in DOMAIN queue'[x] : ~IsSave(queue'[x][i]) => Ends(queue'[x][i])
  <1>1. /\ DOMAIN queue[x] = 1..Len(queue[x]) /\ Len(queue[x]) \in Nat
        /\ DOMAIN queue'[x] = 1..(Len(queue[x]) + 1)
        /\ \A i \in DOMAIN queue[x] : queue'[x][i] = queue[x][i]
        /\ queue'[x][Len(queue[x]) + 1] = w
    BY AddedWrites
  <1>2. \A i \in DOMAIN queue'[x] : i \in DOMAIN queue[x] \/ i = Len(queue[x]) + 1
    BY <1>1
  <1> QED
    BY <1>1, <1>2

LEMMA LeadDeletesNext ==
    ASSUME TInv, DInv, LInv, LeadDeletes, Changes(Lead)
    PROVE  LeadDeletes'
  <1>0. /\ Lead \in Sessions
        /\ \A i \in DOMAIN queue[Lead] : ~IsSave(queue[Lead][i]) => Ends(queue[Lead][i])
        /\ RunsDelete(Lead) => Ends(running[Lead])
    BY WritesAssumption DEF LeadDeletes
  <1>1. CASE Aside(Lead)
    BY <1>0, <1>1 DEF LeadDeletes, Aside, SameQueue, RunsDelete
  <1>2. CASE Skips(Lead)
    <2>1. \A i \in DOMAIN queue'[Lead] : i + 1 \in DOMAIN queue[Lead] /\ queue'[Lead][i] = queue[Lead][i + 1]
      BY <1>0, <1>2, TakenWrites DEF LeadDeletes, Skips
    <2>2. 1 \in DOMAIN queue[Lead]
      BY <1>0, <1>2, TakenWrites DEF LeadDeletes, Skips
    <2> QED
      BY <1>0, <1>2, <2>1, <2>2 DEF LeadDeletes, Skips, RunsDelete, Ends, IsSave
  <1>3. CASE Starts(Lead)
    <2>1. \A i \in DOMAIN queue'[Lead] : i + 1 \in DOMAIN queue[Lead] /\ queue'[Lead][i] = queue[Lead][i + 1]
      BY <1>0, <1>3, TakenWrites DEF LeadDeletes, Starts
    <2>2. 1 \in DOMAIN queue[Lead]
      BY <1>0, <1>3, TakenWrites DEF LeadDeletes, Starts
    <2> QED
      BY <1>0, <1>3, <2>1, <2>2 DEF LeadDeletes, Starts, RunsDelete, Ends, IsSave
  <1>4. CASE Stores(Lead)
    BY <1>0, <1>4 DEF LeadDeletes, Stores, RunsDelete
  <1>5. CASE Erases(Lead)
    BY <1>0, <1>5 DEF LeadDeletes, Erases, RunsDelete
  <1>6. CASE Fails(Lead)
    BY <1>0, <1>6 DEF LeadDeletes, Fails, RunsDelete
  <1>7. CASE SavesOpen(Lead) \/ Flushes(Lead) \/ Grows(Lead) \/ Closes(Lead)
    <2>1. PICK w : IsSave(w) /\ (queue'[Lead] = queue[Lead] \/ queue'[Lead] = Append(queue[Lead], w))
      BY <1>0, <1>7, SavesMounted
    <2>2. running'[Lead] = running[Lead]
      BY <1>7 DEF SavesOpen, Flushes, Grows, Closes, Queued, SameQueue
    <2>3. \A i \in DOMAIN queue'[Lead] : ~IsSave(queue'[Lead][i]) => Ends(queue'[Lead][i])
      BY <1>0, <2>1, AddedAll
    <2> QED
      BY <1>0, <2>2, <2>3 DEF LeadDeletes, RunsDelete
  <1>10. CASE Discards(Lead)
    BY <1>10 DEF LeadDeletes, Discards
  <1>12. CASE Recalls(Lead)
    BY <1>0, <1>12 DEF LeadDeletes, Recalls, SameQueue, RunsDelete
  <1>13. CASE Asks(Lead)
    BY <1>0, <1>13 DEF LeadDeletes, Asks, SameQueue, RunsDelete
  <1>14. CASE Looked(Lead)
    BY <1>0, <1>14 DEF LeadDeletes, Looked, SameQueue, RunsDelete
  <1>15. CASE Arrives(Lead)
    BY <1>0, <1>15 DEF LeadDeletes, Arrives, SameQueue, RunsDelete
  <1>16. CASE RemovalAsked(Lead)
    BY <1>0, <1>16 DEF LeadDeletes, RemovalAsked, SameQueue, RunsDelete
  <1>17. CASE RemovalTakenBack(Lead)
    BY <1>0, <1>17 DEF LeadDeletes, RemovalTakenBack, SameQueue, RunsDelete
  <1>18. CASE RemovalBegins(Lead)
    BY <1>0, <1>18 DEF LeadDeletes, RemovalBegins, SameQueue, RunsDelete
  <1>19. CASE RemovalDrains(Lead)
    <2>1. queue'[Lead] = Append(queue[Lead], DeleteOf(TRUE)) /\ running'[Lead] = running[Lead]
      BY <1>19 DEF RemovalDrains
    <2>2. Ends(DeleteOf(TRUE))
      BY DeleteOfKind
    <2>3. \A i \in DOMAIN queue'[Lead] : ~IsSave(queue'[Lead][i]) => Ends(queue'[Lead][i])
      BY <1>0, <2>1, <2>2, AddedAll
    <2> QED
      BY <1>0, <1>19, <2>3 DEF LeadDeletes, RemovalDrains, RunsDelete
  <1>20. CASE RemovalEnds(Lead)
    BY <1>0, <1>20 DEF LeadDeletes, RemovalEnds, SameQueue, RunsDelete
  <1>21. CASE Expires(Lead)
    BY <1>0, <1>21 DEF LeadDeletes, Expires, SameQueue, RunsDelete
  <1> QED
    BY <1>1, <1>2, <1>3, <1>4, <1>5, <1>6, <1>7, <1>10, <1>12, <1>13, <1>14, <1>15, <1>16,
       <1>17, <1>18, <1>19, <1>20, <1>21 DEF Changes, InStore, InApp, InClosed, InRemoval


\* Where the saves waiting and under way come from.
Keeps(x) ==
    /\ \A i \in DOMAIN queue'[x] : IsSave(queue'[x][i]) => \E j \in DOMAIN queue[x] : queue[x][j] = queue'[x][i]
    /\ queue'[x] # <<>> \/ running'[x] # None => SameLead(x)
Adds(x) ==
    /\ open[x] # None /\ (x \in leadById' <=> open[x].led) /\ running'[x] = running[x]
    /\ \A i \in DOMAIN queue'[x] : IsSave(queue'[x][i]) =>
         queue'[x][i].doc.led = open[x].led \/ \E j \in DOMAIN queue[x] : queue[x][j] = queue'[x][i]
Sends(x) ==
    RunsSave(x)' =>
        \/ RunsSave(x) /\ running'[x] = running[x]
        \/ \E j \in DOMAIN queue[x] :
             /\ IsSave(queue[x][j]) /\ running'[x].doc = queue[x][j].doc
             /\ running'[x].sent.led = (running'[x].doc.led /\ Lead \notin tombs)

LEMMA AddedLed ==
    ASSUME TInv, NEW x \in Sessions, NEW w, w.doc.led = open[x].led, open[x] # None,
           queue'[x] = Append(queue[x], w), running'[x] = running[x], x \in leadById' <=> open[x].led
    PROVE  Adds(x)
  <1>1. /\ DOMAIN queue[x] = 1..Len(queue[x]) /\ Len(queue[x]) \in Nat
        /\ DOMAIN queue'[x] = 1..(Len(queue[x]) + 1)
        /\ \A i \in DOMAIN queue[x] : queue'[x][i] = queue[x][i]
        /\ queue'[x][Len(queue[x]) + 1] = w
    BY AddedWrites
  <1>2. \A i \in DOMAIN queue'[x] : i \in DOMAIN queue[x] \/ i = Len(queue[x]) + 1
    BY <1>1
  <1> QED
    BY <1>1, <1>2 DEF Adds

LEMMA QueueLed ==
    ASSUME TInv, DInv, LInv, NEW x \in Sessions, Changes(x)
    PROVE  Keeps(x) \/ Adds(x)
  <1>1. CASE Aside(x)
    BY <1>1 DEF Aside, SameQueue, Keeps
  <1>2. CASE Skips(x)
    <2>1. \A i \in DOMAIN queue'[x] : i + 1 \in DOMAIN queue[x] /\ queue'[x][i] = queue[x][i + 1]
      BY <1>2, TakenWrites DEF Skips
    <2> QED
      BY <1>2, <2>1 DEF Skips, Keeps
  <1>3. CASE Starts(x)
    <2>1. \A i \in DOMAIN queue'[x] : i + 1 \in DOMAIN queue[x] /\ queue'[x][i] = queue[x][i + 1]
      BY <1>3, TakenWrites DEF Starts
    <2> QED
      BY <1>3, <2>1 DEF Starts, Keeps
  <1>4. CASE Stores(x)
    BY <1>4 DEF Stores, Keeps
  <1>5. CASE Erases(x)
    BY <1>5 DEF Erases, Keeps
  <1>6. CASE Fails(x)
    BY <1>6 DEF Fails, Keeps
  <1>7. CASE SavesOpen(x) \/ Flushes(x) \/ Grows(x) \/ Closes(x)
    <2>1. PICK w : w.doc.led = open[x].led /\ (queue'[x] = queue[x] \/ queue'[x] = Append(queue[x], w))
      BY <1>7, SavesMounted
    <2>2. open[x] # None /\ running'[x] = running[x]
      <3>1. Flushes(x) => open[x] # None
        BY PendingAt DEF Flushes
      <3> QED
        BY <1>7, <3>1 DEF SavesOpen, Flushes, Grows, Closes, Queued, SameQueue
    <2>3. (x \in leadById' <=> open[x].led) \/ (queue'[x] = queue[x] /\ SameLead(x))
      <3>1. CASE SavesOpen(x)
        BY <3>1 DEF SavesOpen, Queued, SameApp
      <3>2. CASE Flushes(x)
        BY <3>2, PendingAt DEF Flushes
      <3>3. CASE Grows(x)
        <4>1. open'[x].led = open[x].led
          BY <3>3 DEF Grows
        <4> QED
          BY <3>3, <4>1 DEF Grows, Queued, SameQueue
      <3>4. CASE Closes(x)
        BY <3>4 DEF Closes
      <3> QED
        BY <1>7, <3>1, <3>2, <3>3, <3>4
    <2>4. CASE queue'[x] = queue[x] /\ SameLead(x)
      BY <2>4 DEF Keeps
    <2>5. CASE x \in leadById' <=> open[x].led
      <3>1. CASE queue'[x] = queue[x]
        BY <2>2, <2>5, <3>1 DEF Adds
      <3>2. CASE queue'[x] = Append(queue[x], w)
        BY <2>1, <2>2, <2>5, <3>2, AddedLed
      <3> QED
        BY <2>1, <3>1, <3>2
    <2> QED
      BY <2>3, <2>4, <2>5
  <1>10. CASE Discards(x)
    <2>1. ~IsSave(DeleteOf(FALSE))
      BY DeleteOfKind
    <2>2. queue'[x] = Append(queue[x], DeleteOf(FALSE)) /\ SameLead(x)
      BY <1>10 DEF Discards
    <2>3. \A i \in DOMAIN queue'[x] : IsSave(queue'[x][i]) => i \in DOMAIN queue[x] /\ queue'[x][i] = queue[x][i]
      BY <2>1, <2>2, AddedDelete
    <2> QED
      BY <2>2, <2>3 DEF Keeps
  <1>12. CASE Recalls(x)
    BY <1>12 DEF Recalls, SameQueue, Keeps
  <1>13. CASE Asks(x)
    BY <1>13 DEF Asks, SameQueue, Keeps
  <1>14. CASE Looked(x)
    BY <1>14 DEF Looked, SameQueue, Keeps
  <1>15. CASE Arrives(x)
    BY <1>15 DEF Arrives, SameQueue, Keeps
  <1>16. CASE RemovalAsked(x)
    BY <1>16 DEF RemovalAsked, SameQueue, Keeps
  <1>17. CASE RemovalTakenBack(x)
    BY <1>17 DEF RemovalTakenBack, SameQueue, Keeps
  <1>18. CASE RemovalBegins(x)
    BY <1>18 DEF RemovalBegins, SameQueue, Keeps
  <1>19. CASE RemovalDrains(x)
    <2>1. ~IsSave(DeleteOf(TRUE))
      BY DeleteOfKind
    <2>2. queue'[x] = Append(queue[x], DeleteOf(TRUE)) /\ SameLead(x)
      BY <1>19 DEF RemovalDrains
    <2>3. \A i \in DOMAIN queue'[x] : IsSave(queue'[x][i]) => i \in DOMAIN queue[x] /\ queue'[x][i] = queue[x][i]
      BY <2>1, <2>2, AddedDelete
    <2> QED
      BY <2>2, <2>3 DEF Keeps
  <1>20. CASE RemovalEnds(x)
    BY <1>20 DEF RemovalEnds, SameQueue, Keeps
  <1>21. CASE Expires(x)
    BY <1>21 DEF Expires, SameQueue, Keeps
  <1> QED
    BY <1>1, <1>2, <1>3, <1>4, <1>5, <1>6, <1>7, <1>10, <1>12, <1>13, <1>14, <1>15, <1>16,
       <1>17, <1>18, <1>19, <1>20, <1>21 DEF Changes, InStore, InApp, InClosed, InRemoval

LEMMA SendsLedNext ==
    ASSUME TInv, NEW x \in Sessions, Changes(x)
    PROVE  Sends(x)
  <1>1. CASE Aside(x)
    BY <1>1 DEF Aside, SameQueue, Sends, RunsSave
  <1>2. CASE Skips(x)
    BY <1>2 DEF Skips, Sends, RunsSave
  <1>3. CASE Starts(x)
    <2>1. 1 \in DOMAIN queue[x]
      BY <1>3, TakenWrites DEF Starts
    <2> QED
      BY <1>3, <2>1 DEF Starts, Sends, RunsSave, IsSave
  <1>4. CASE Stores(x)
    BY <1>4 DEF Stores, Sends, RunsSave
  <1>5. CASE Erases(x)
    BY <1>5 DEF Erases, Sends, RunsSave
  <1>6. CASE Fails(x)
    BY <1>6 DEF Fails, Sends, RunsSave
  <1>7. CASE SavesOpen(x)
    BY <1>7 DEF SavesOpen, Queued, Sends, RunsSave
  <1>8. CASE Flushes(x)
    BY <1>8 DEF Flushes, Sends, RunsSave
  <1>9. CASE Grows(x)
    BY <1>9 DEF Grows, SameQueue, Queued, Sends, RunsSave
  <1>10. CASE Discards(x)
    BY <1>10 DEF Discards, Sends, RunsSave
  <1>11. CASE Closes(x)
    BY <1>11 DEF Closes, Sends, RunsSave
  <1>12. CASE Recalls(x)
    BY <1>12 DEF Recalls, SameQueue, Sends, RunsSave
  <1>13. CASE Asks(x)
    BY <1>13 DEF Asks, SameQueue, Sends, RunsSave
  <1>14. CASE Looked(x)
    BY <1>14 DEF Looked, SameQueue, Sends, RunsSave
  <1>15. CASE Arrives(x)
    BY <1>15 DEF Arrives, SameQueue, Sends, RunsSave
  <1>16. CASE RemovalAsked(x)
    BY <1>16 DEF RemovalAsked, SameQueue, Sends, RunsSave
  <1>17. CASE RemovalTakenBack(x)
    BY <1>17 DEF RemovalTakenBack, SameQueue, Sends, RunsSave
  <1>18. CASE RemovalBegins(x)
    BY <1>18 DEF RemovalBegins, SameQueue, Sends, RunsSave
  <1>19. CASE RemovalDrains(x)
    BY <1>19 DEF RemovalDrains, Sends, RunsSave
  <1>20. CASE RemovalEnds(x)
    BY <1>20 DEF RemovalEnds, SameQueue, Sends, RunsSave
  <1>21. CASE Expires(x)
    BY <1>21 DEF Expires, SameQueue, Sends, RunsSave
  <1> QED
    BY <1>1, <1>2, <1>3, <1>4, <1>5, <1>6, <1>7, <1>8, <1>9, <1>10, <1>11, <1>12, <1>13, <1>14, <1>15, <1>16,
       <1>17, <1>18, <1>19, <1>20, <1>21 DEF Changes, InStore, InApp, InClosed, InRemoval

\* Where the transcripts held come from.
DocsFrom(x) ==
    /\ \/ stored'[x] \in {stored[x], None}
       \/ RunsSave(x) /\ stored'[x] = running[x].sent
       \/ RunsDelete(Lead) /\ ~Led(stored'[x])
    /\ \/ open'[x] \in {open[x], None}
       \/ open[x] # None /\ open'[x].led = open[x].led
       \/ cache[x] # None /\ open'[x] = cache[x]
       \/ loading[x] # None /\ loading[x].read /\ loading[x].doc # None /\ open'[x] = loading[x].doc
       \/ Stage(Lead) = "deleted" /\ ~Led(open'[x])
    /\ \/ cache'[x] \in {cache[x], None}
       \/ open[x] # None /\ cache'[x] = open[x]
       \/ loading[x] # None /\ loading[x].read /\ loading[x].doc # None /\ cache'[x] = loading[x].doc
    /\ \/ loading'[x] = None
       \/ loading'[x].doc \in {stored[x], None}
       \/ loading[x] # None /\ loading'[x].doc = loading[x].doc

LEMMA DocsFromNext ==
    ASSUME TInv, NEW x \in Sessions, Changes(x)
    PROVE  DocsFrom(x)
  <1>1. CASE Aside(x)
    BY <1>1 DEF Aside, DocsFrom, SameStore, SameApp, SameClosed
  <1>2. CASE Skips(x)
    BY <1>2 DEF Skips, DocsFrom, SameStore, SameApp, SameClosed
  <1>3. CASE Starts(x)
    BY <1>3 DEF Starts, DocsFrom, SameStore, SameApp, SameClosed
  <1>4. CASE Stores(x)
    BY <1>4 DEF Stores, DocsFrom, SameStore, SameApp, SameClosed
  <1>5. CASE Erases(x)
    BY <1>5 DEF Erases, DocsFrom, SameStore, SameApp, SameClosed
  <1>6. CASE Fails(x)
    BY <1>6 DEF Fails, DocsFrom, SameStore, SameApp, SameClosed
  <1>7. CASE SavesOpen(x)
    BY <1>7 DEF SavesOpen, DocsFrom, SameStore, SameApp, SameClosed
  <1>8. CASE Flushes(x)
    BY <1>8 DEF Flushes, DocsFrom, SameStore, SameApp, SameClosed
  <1>9. CASE Grows(x)
    BY <1>9 DEF Grows, DocsFrom, SameStore, SameApp, SameClosed
  <1>10. CASE Discards(x)
    BY <1>10 DEF Discards, DocsFrom, SameStore, SameApp, SameClosed
  <1>11. CASE Closes(x)
    BY <1>11 DEF Closes, DocsFrom, SameStore, SameApp, SameClosed
  <1>12. CASE Recalls(x)
    BY <1>12 DEF Recalls, DocsFrom, SameStore, SameApp, SameClosed
  <1>13. CASE Asks(x)
    BY <1>13 DEF Asks, DocsFrom, SameStore, SameApp, SameClosed
  <1>14. CASE Looked(x)
    BY <1>14 DEF Looked, DocsFrom, SameStore, SameApp, SameClosed
  <1>15. CASE Arrives(x)
    BY <1>15 DEF Arrives, DocsFrom, SameStore, SameApp, SameClosed
  <1>16. CASE RemovalAsked(x)
    BY <1>16 DEF RemovalAsked, DocsFrom, SameStore, SameApp, SameClosed
  <1>17. CASE RemovalTakenBack(x)
    BY <1>17 DEF RemovalTakenBack, DocsFrom, SameStore, SameApp, SameClosed
  <1>18. CASE RemovalBegins(x)
    BY <1>18 DEF RemovalBegins, DocsFrom, SameStore, SameApp, SameClosed
  <1>19. CASE RemovalDrains(x)
    BY <1>19 DEF RemovalDrains, DocsFrom, SameStore, SameApp, SameClosed
  <1>20. CASE RemovalEnds(x)
    BY <1>20 DEF RemovalEnds, DocsFrom, SameStore, SameApp, SameClosed
  <1>21. CASE Expires(x)
    BY <1>21 DEF Expires, DocsFrom, SameStore, SameApp, SameClosed
  <1> QED
    BY <1>1, <1>2, <1>3, <1>4, <1>5, <1>6, <1>7, <1>8, <1>9, <1>10, <1>11, <1>12, <1>13, <1>14, <1>15, <1>16,
       <1>17, <1>18, <1>19, <1>20, <1>21 DEF Changes, InStore, InApp, InClosed, InRemoval

LEMMA PastStays ==
    ASSUME NEW x \in Sessions, Changes(x)
    PROVE  (x \in early => x \in early') /\ (x \in dropped => x \in dropped') /\ (x \in gone => x \in gone')
  BY DEF Changes, InStore, InApp, InClosed, InRemoval, Aside, Skips, Starts, Stores, Erases, Fails, SavesOpen,
         Flushes, Grows, Discards, Closes, Recalls, Asks, Looked, Arrives, RemovalAsked, RemovalTakenBack,
         RemovalBegins, RemovalDrains, RemovalEnds, Expires, SameStore, SamePast, SameLoss

\* The mark of a lead that was not deleted goes only with a failed delete.
LEMMA LeadUnmarked ==
    ASSUME TInv, DInv, Changes(Lead), Lead \notin tombs', Lead \notin gone', Lead \notin dropped'
    PROVE  Lead \notin tombs /\ Lead \notin gone /\ Lead \notin dropped
  <1>1. Lead \in Sessions
    BY WritesAssumption
  <1>2. Lead \notin gone /\ Lead \notin dropped
    BY <1>1, PastStays
  <1>3. Lead \in tombs => Lead \in tombs'
    BY <1>2 DEF Changes, InStore, InApp, InClosed, InRemoval, Aside, Skips, Starts, Stores, Erases, Fails,
       SavesOpen,
           Flushes, Grows, Discards, Closes, Recalls, Asks, Looked, Arrives, RemovalAsked, RemovalTakenBack,
           RemovalBegins, RemovalDrains, RemovalEnds, Expires, SameMark, SameStore
  <1> QED
    BY <1>2, <1>3

\* What a deleted lead was removed by is the only delete of a lead.
LEMMA LeadErased ==
    ASSUME DInv, LeadDeletes, RunsDelete(Lead)
    PROVE  Lead \in tombs /\ Lead \notin gone /\ Stage(Lead) = "deleting"
  <1>1. Lead \in Sessions
    BY WritesAssumption
  <1>2. Stage(Lead) = "deleting"
    BY <1>1 DEF LeadDeletes, RunsDelete, DInv, OneEnd
  <1> QED
    BY <1>1, <1>2 DEF DInv, Marked

LEMMA KnownLedNext ==
    ASSUME TInv, DInv, LInv, LeadDeletes, NEW x \in Sessions, KnownLed(x), Changes(x), Changes(Lead)
    PROVE  KnownLed(x)'
  <1> SUFFICES ASSUME x \notin early', Lead \notin gone', LedUnsettled(x)'
               PROVE  x \in leadById' /\ ~Unled(open'[x]) /\ ~Unled(cache'[x])
    BY DEF KnownLed, Unled
  <1>1. Lead \in Sessions /\ x \notin early /\ Lead \notin gone
    BY PastStays, WritesAssumption
  <1>2. Stage(Lead) # "deleted"
    BY <1>1 DEF DInv, Marked
  <1>3. DocsFrom(x) /\ Sends(x) /\ OnePlace(x) /\ NothingBehind(x)
    BY DocsFromNext, SendsLedNext DEF LInv
  <1>4. RunsSave(x)' /\ running'[x].doc.led => LedUnsettled(x)
    BY <1>3 DEF Sends, LedUnsettled
  <1>5. CASE Keeps(x)
    <2>1. LedUnsettled(x)
      BY <1>4, <1>5 DEF Keeps, LedUnsettled
    <2>2. queue'[x] # <<>> \/ running'[x] # None
      <3>1. ASSUME NEW i \in DOMAIN queue'[x]
            PROVE  queue'[x] # <<>>
        OBVIOUS
      <3> QED
        BY <3>1 DEF LedUnsettled, RunsSave
    <2>3. SameLead(x) /\ x \in leadById /\ ~Unled(open[x]) /\ ~Unled(cache[x])
      BY <1>1, <1>5, <2>1, <2>2 DEF Keeps, KnownLed
    <2>4. ~(loading[x] # None /\ loading[x].read)
      BY <1>1, <1>3, <2>1 DEF NothingBehind, LedUnsettled
    <2> QED
      BY <1>2, <1>3, <2>3, <2>4 DEF DocsFrom, SameLead, Unled
  <1>6. CASE Adds(x)
    <2>1. LedUnsettled(x) \/ open[x].led
      BY <1>4, <1>6 DEF Adds, LedUnsettled
    <2>2. open[x] # None /\ open[x].led
      BY <1>1, <1>6, <2>1 DEF Adds, KnownLed, Unled
    <2>3. cache[x] = None /\ loading[x] = None
      BY <1>3, <2>2 DEF OnePlace
    <2> QED
      BY <1>2, <1>3, <1>6, <2>2, <2>3 DEF DocsFrom, Adds, Unled
  <1> QED
    BY <1>5, <1>6, QueueLed

LEMMA AllLedNext ==
    ASSUME TInv, DInv, LInv, LeadDeletes, NEW x \in Sessions, AllLed(x), Changes(x), Changes(Lead)
    PROVE  AllLed(x)'
  <1> SUFFICES ASSUME Lead \notin tombs', Lead \notin gone', Lead \notin dropped'
               PROVE  /\ ~Unled(stored'[x]) /\ ~Unled(open'[x]) /\ ~Unled(cache'[x])
                      /\ loading'[x] # None => ~Unled(loading'[x].doc)
                      /\ \A i \in DOMAIN queue'[x] : IsSave(queue'[x][i]) => queue'[x][i].doc.led /\ x \in leadById'
                      /\ RunsSave(x)' => running'[x].sent.led /\ x \in leadById'
    BY DEF AllLed, Unled
  <1>1. Lead \in Sessions /\ Lead \notin tombs /\ Lead \notin gone /\ Lead \notin dropped
    BY LeadUnmarked, WritesAssumption
  <1>2. Stage(Lead) # "deleted" /\ ~RunsDelete(Lead)
    BY <1>1, LeadErased DEF DInv, Marked
  <1>3. DocsFrom(x) /\ Sends(x) /\ OnePlace(x)
    BY DocsFromNext, SendsLedNext DEF LInv
  <1>4. /\ ~Unled(stored[x]) /\ ~Unled(open[x]) /\ ~Unled(cache[x])
        /\ loading[x] # None => ~Unled(loading[x].doc)
        /\ \A i \in DOMAIN queue[x] : IsSave(queue[x][i]) => queue[x][i].doc.led /\ x \in leadById
        /\ RunsSave(x) => running[x].sent.led /\ x \in leadById
    BY <1>1 DEF AllLed
  <1>5. /\ ~Unled(stored'[x]) /\ ~Unled(open'[x]) /\ ~Unled(cache'[x])
        /\ loading'[x] # None => ~Unled(loading'[x].doc)
    BY <1>2, <1>3, <1>4 DEF DocsFrom, Unled
  <1>6. RunsSave(x)' => running'[x].sent.led /\ x \in leadById
    BY <1>1, <1>3, <1>4 DEF Sends
  <1>7. CASE Keeps(x)
    <2>1. ASSUME NEW i \in DOMAIN queue'[x], IsSave(queue'[x][i])
          PROVE  queue'[x][i].doc.led /\ x \in leadById'
      <3>1. queue'[x] # <<>>
        OBVIOUS
      <3>2. PICK j \in DOMAIN queue[x] : queue[x][j] = queue'[x][i]
        BY <1>7, <2>1 DEF Keeps
      <3> QED
        BY <1>4, <1>7, <2>1, <3>1, <3>2 DEF Keeps, SameLead
    <2>2. RunsSave(x)' => x \in leadById'
      BY <1>6, <1>7 DEF Keeps, SameLead, RunsSave
    <2> QED
      BY <1>5, <1>6, <2>1, <2>2
  <1>8. CASE Adds(x)
    <2>1. x \in leadById' /\ open[x].led
      BY <1>4, <1>8 DEF Adds, Unled
    <2>2. ASSUME NEW i \in DOMAIN queue'[x], IsSave(queue'[x][i])
          PROVE  queue'[x][i].doc.led
      <3>1. CASE queue'[x][i].doc.led = open[x].led
        BY <2>1, <3>1
      <3>2. CASE \E j \in DOMAIN queue[x] : queue[x][j] = queue'[x][i]
        BY <1>4, <2>2, <3>2
      <3> QED
        BY <1>8, <2>2, <3>1, <3>2 DEF Adds
    <2> QED
      BY <1>5, <1>6, <2>1, <2>2
  <1> QED
    BY <1>7, <1>8, QueueLed

LEMMA WaitedForNext ==
    ASSUME TInv, TInv', DInv, LInv, NEW x \in Sessions, KnownLed(x), AllLed(x), WaitedFor(x), LeadMoves(x),
           Changes(x), Changes(Lead)
    PROVE  WaitedFor(x)'
  <1> SUFFICES ASSUME Sound(x)', Lead \in tombs', Lead \notin gone', SendsLed(x)'
               PROVE  Stage(Lead)' = "draining" /\ removing'[Lead].waits[x] > 0
    BY DEF WaitedFor
  <1>1. Lead \in Sessions /\ Sound(x) /\ Lead \notin gone
    BY PastStays, WritesAssumption DEF Sound
  <1>2. Sends(x)
    BY SendsLedNext
  <1>3. running'[x] # None /\ RunsSave(x)'
    BY DEF SendsLed, RunsSave
  <1>4. CASE Lead \in tombs
    <2>1. running'[x] = running[x] /\ SendsLed(x)
      BY <1>2, <1>3, <1>4 DEF Sends, SendsLed
    <2>2. Stage(Lead) = "draining" /\ removing[Lead].waits[x] > 0
      BY <1>1, <1>4, <2>1 DEF WaitedFor
    <2>3. CASE Stage(Lead)' = "draining"
      BY <1>3, <2>2, <2>3 DEF LeadMoves
    <2>4. CASE Stage(Lead)' # "draining"
      <3>1. removing[Lead].waits[x] = 0
        BY <2>2, <2>4 DEF LeadMoves
      <3> QED
        BY <2>2, <3>1
    <2> QED
      BY <2>3, <2>4
  <1>5. CASE Lead \notin tombs
    <2>1. RemovalBegins(Lead)
      BY <1>5 DEF Changes, InStore, InApp, InClosed, InRemoval, Aside, Skips, Starts, Stores, Erases, Fails,
         SavesOpen,
           Flushes, Grows, Discards, Closes, Recalls, Asks, Looked, Arrives, RemovalAsked, RemovalTakenBack,
           RemovalBegins, RemovalDrains, RemovalEnds, Expires, SameMark
    <2>2. Stage(Lead) # "draining" /\ Stage(Lead)' = "draining"
      BY <2>1 DEF RemovalBegins, Goes
    <2>3. running'[x] = running[x] /\ SendsLed(x)
      BY <1>3, <2>2 DEF LeadMoves, SendsLed, RunsSave
    <2>4. running[x].doc.led /\ RunsSave(x) /\ running[x] # None
      BY <2>3, RunKinds DEF SendsLed, RunsSave
    <2>5. x \in leadById
      <3>1. CASE x \notin early
        BY <1>1, <2>4, <3>1 DEF KnownLed, LedUnsettled
      <3>2. CASE x \in early
        BY <1>1, <1>5, <2>4, <3>2 DEF Sound, AllLed
      <3> QED
        BY <3>1, <3>2
    <2> QED
      BY <2>2, <2>4, <2>5 DEF LeadMoves
  <1> QED
    BY <1>4, <1>5

LEMMA FreedNext ==
    ASSUME TInv, TInv', DInv, LInv, LeadDeletes, NEW x \in Sessions, WaitedFor(x), Freed(x), LeadMoves(x),
           Changes(x), Changes(Lead)
    PROVE  Freed(x)'
  <1> SUFFICES ASSUME Sound(x)', Lead \in gone'
               PROVE  /\ ~SendsLed(x)' /\ ~Led(stored'[x])
                      /\ Lead \notin tombs' => \A i \in DOMAIN queue'[x] : IsSave(queue'[x][i]) => ~queue'[x][i].doc.led
                      /\ Stage(Lead)' = "none" => /\ ~Led(open'[x]) /\ ~Led(cache'[x])
                                                  /\ loading'[x] # None => ~Led(loading'[x].doc)
    BY DEF Freed, Led
  <1>1. Lead \in Sessions /\ Sound(x)
    BY PastStays, WritesAssumption DEF Sound
  <1>2. Sends(x) /\ DocsFrom(x)
    BY SendsLedNext, DocsFromNext
  <1>3. CASE Lead \notin gone
    <2>1. running'[x] = running[x] /\ ~Led(stored'[x])
      BY <1>3 DEF LeadMoves
    <2>2. Erases(Lead) /\ Ends(running[Lead])
      BY <1>3 DEF Changes, InStore, InApp, InClosed, InRemoval, Aside, Skips, Starts, Stores, Erases, Fails,
         SavesOpen,
           Flushes, Grows, Discards, Closes, Recalls, Asks, Looked, Arrives, RemovalAsked, RemovalTakenBack,
           RemovalBegins, RemovalDrains, RemovalEnds, Expires, SameStore
    <2>3. Lead \in tombs /\ Stage(Lead) = "deleting"
      BY <2>2, LeadErased DEF Erases
    <2>4. Lead \in tombs' /\ Stage(Lead)' = "deleted"
      BY <2>2, <2>3 DEF Erases
    <2>5. ~SendsLed(x)
      BY <1>1, <1>3, <2>3 DEF WaitedFor
    <2>6. ~SendsLed(x)'
      BY <2>1, <2>5 DEF SendsLed, RunsSave
    <2> QED
      BY <2>1, <2>4, <2>6
  <1>4. CASE Lead \in gone
    <2>1. /\ ~SendsLed(x) /\ ~Led(stored[x])
          /\ Lead \notin tombs => \A i \in DOMAIN queue[x] : IsSave(queue[x][i]) => ~queue[x][i].doc.led
          /\ Stage(Lead) = "none" => /\ ~Led(open[x]) /\ ~Led(cache[x])
                                     /\ loading[x] # None => ~Led(loading[x].doc)
      BY <1>1, <1>4 DEF Freed
    <2>2. ~SendsLed(x)'
      BY <1>2, <2>1 DEF Sends, SendsLed
    <2>3. ~RunsDelete(Lead)
      BY <1>4, LeadErased
    <2>4. ~Led(stored'[x])
      BY <1>2, <2>1, <2>3 DEF DocsFrom, SendsLed, Led
    <2>5. ASSUME Lead \notin tombs', NEW i \in DOMAIN queue'[x], IsSave(queue'[x][i])
          PROVE  ~queue'[x][i].doc.led
      <3>1. Lead \notin tombs
        <4>1. queue'[x] # <<>>
          OBVIOUS
        <4> QED
          BY <1>4, <2>5, <4>1 DEF LeadMoves
      <3>2. Stage(Lead) = "none"
        BY <1>1, <1>4, <3>1 DEF DInv, Deleted
      <3>3. CASE \E j \in DOMAIN queue[x] : queue[x][j] = queue'[x][i]
        BY <2>1, <2>5, <3>1, <3>3
      <3>4. CASE open[x] # None /\ queue'[x][i].doc.led = open[x].led
        BY <2>1, <3>2, <3>4 DEF Led
      <3> QED
        BY <2>5, <3>3, <3>4, QueueLed DEF Keeps, Adds
    <2>6. ASSUME Stage(Lead)' = "none"
          PROVE  /\ ~Led(open'[x]) /\ ~Led(cache'[x])
                 /\ loading'[x] # None => ~Led(loading'[x].doc)
      <3>1. CASE Stage(Lead) = "none"
        BY <1>2, <2>1, <3>1 DEF DocsFrom, Led
      <3>2. CASE Stage(Lead) # "none"
        BY <1>4, <2>6, <3>2 DEF LeadMoves
      <3> QED
        BY <3>1, <3>2
    <2> QED
      BY <2>2, <2>4, <2>5, <2>6
  <1> QED
    BY <1>3, <1>4

-----------------------------------------------------------------------------
(* The invariant holds at first, and every step keeps it.                    *)

LEMMA FirstDoc ==
    ASSUME NEW led \in BOOLEAN
    PROVE  /\ [text |-> {0}, led |-> led] \in Docs(0) /\ [text |-> {0}, led |-> led] \in Texts(0)
           /\ [text |-> {0}, led |-> led] # None
  <1>1. {0} \in SUBSET (0..0)
    OBVIOUS
  <1>2. [text |-> {0}, led |-> led] \in Docs(0)
    BY <1>1 DEF Docs
  <1>3. 0 \in 0..MaxEdits
    BY WritesAssumption
  <1> QED
    BY <1>2, <1>3, Nones DEF Texts

LEMMA InitInv ==
    ASSUME WritesInit
    PROVE  IInv
  <1>1. PICK doc : /\ doc = [s \in Sessions |-> [text |-> {0}, led |-> s # Lead]]
                   /\ stored = doc /\ open = doc /\ observed = doc /\ last = doc
    BY DEF WritesInit
  <1>2. doc \in [Sessions -> Texts(0)] /\ Texts(0) \subseteq Docs(0)
    BY <1>1, FirstDoc DEF Texts
  <1>3. \A x \in Sessions : doc[x] # None /\ doc[x].text = {0} /\ doc[x].led = (x # Lead)
    BY <1>1, FirstDoc
  <1>4. /\ edits = 0 /\ gone = {} /\ busy = {} /\ outdated = {} /\ dropped = {} /\ early = {} /\ tombs = {} /\ leadById = {}
        /\ withdrawn = [s \in Sessions |-> {}]
        /\ queue = [s \in Sessions |-> <<>>] /\ running = [s \in Sessions |-> None]
        /\ pending = [s \in Sessions |-> None] /\ cache = [s \in Sessions |-> None]
        /\ loading = [s \in Sessions |-> None] /\ removing = [s \in Sessions |-> None]
    BY DEF WritesInit
  <1>5. TInv
    <2>1. edits \in 0..MaxEdits
      BY <1>4, WritesAssumption
    <2>2. queue \in [Sessions -> Seq(Saves(edits) \cup Deletes)]
      <3>1. <<>> \in Seq(Saves(edits) \cup Deletes)
        OBVIOUS
      <3> QED
        BY <1>4, <3>1
    <2>3. withdrawn \in [Sessions -> SUBSET (0..edits)]
      BY <1>4
    <2>4. /\ stored \in [Sessions -> Texts(edits) \cup {None}] /\ open \in [Sessions -> Docs(edits) \cup {None}]
          /\ observed \in [Sessions -> Docs(edits) \cup {None}] /\ last \in [Sessions -> Docs(edits) \cup {None}]
      BY <1>1, <1>2, <1>4
    <2> QED
      BY <1>4, <2>1, <2>2, <2>3, <2>4 DEF TInv
  <1>6. \A x \in Sessions : /\ Stage(x) = "none" /\ queue[x] = <<>> /\ running[x] = None /\ loading[x] = None
                            /\ pending[x] = None /\ cache[x] = None /\ DOMAIN queue[x] = {}
                            /\ ~RunsSave(x) /\ ~RunsDelete(x) /\ withdrawn[x] = {}
    BY <1>4 DEF Stage, RunsSave, RunsDelete
  <1>7. DInv
    BY <1>4, <1>6 DEF DInv, Deleted, Marked, OneEnd
  <1>8. LInv
    BY <1>1, <1>3, <1>6 DEF LInv, OnePlace, NothingBehind
  <1>9. MInv
    BY <1>1, <1>3, <1>6 DEF MInv, InOrder, Chain, Newest, Upto
  <1>10. QInv
    <2>1. \A x \in Sessions : Final(x) = {0} /\ cache[x] = None
      BY <1>1, <1>3, <1>6 DEF Final, TextOf
    <2> QED
      BY <1>1, <1>3, <1>6, <2>1 DEF QInv, Ahead, Behind, WillBe
  <1>11. NInv
    <2>1. LeadDeletes
      BY <1>6, WritesAssumption DEF LeadDeletes
    <2>2. ASSUME NEW x \in Sessions \ {Lead}
          PROVE  KnownLed(x) /\ AllLed(x) /\ WaitedFor(x) /\ Freed(x)
      BY <1>1, <1>3, <1>4, <1>6, <2>2 DEF KnownLed, AllLed, WaitedFor, Freed, SendsLed, LedUnsettled, Unled,
         Led
    <2> QED
      BY <2>1, <2>2 DEF NInv
  <1> QED
    BY <1>5, <1>7, <1>8, <1>9, <1>10, <1>11 DEF IInv

LEMMA StepInv ==
    ASSUME IInv, [WritesNext]_writesVars
    PROVE  IInv'
  <1>1. TInv /\ DInv /\ LInv /\ MInv /\ QInv /\ NInv /\ LeadDeletes /\ Lead \in Sessions
    BY WritesAssumption DEF IInv, NInv
  <1>2. TInv'
    BY <1>1, StepTyped
  <1>3. \A x \in Sessions : Changes(x)
    BY <1>1, <1>2, StepChanges
  <1>4. DInv'
    BY <1>1, <1>2, <1>3, DeletedNext, MarkedNext, OneEndNext DEF DInv
  <1>5. LInv'
    BY <1>1, <1>2, <1>3, OnePlaceNext, NothingBehindNext DEF LInv
  <1>6. MInv'
    <2> SUFFICES ASSUME NEW x \in Sessions, x \notin early'
                 PROVE  InOrder(x)'
      BY DEF MInv
    <2>1. x \notin early /\ InOrder(x)
      BY <1>1, <1>3, PastStays DEF MInv
    <2> QED
      BY <1>1, <1>2, <1>3, <2>1, ChainNext, NewestNext DEF InOrder
  <1>7. QInv'
    <2> SUFFICES ASSUME NEW x \in Sessions, Clean(x)'
                 PROVE  Ahead(x)' /\ WillBe(x)'
      BY DEF QInv
    <2>1. x \notin early
      BY <1>3, PastStays DEF Clean
    <2>2. InOrder(x) /\ (Clean(x) => Ahead(x) /\ WillBe(x))
      BY <1>1, <2>1 DEF MInv, QInv
    <2> QED
      BY <1>1, <1>2, <1>3, <2>2, AheadNext, WillBeNext
  <1>8. NInv'
    <2>1. LeadDeletes'
      BY <1>1, <1>3, LeadDeletesNext
    <2>2. ASSUME NEW x \in Sessions \ {Lead}
          PROVE  KnownLed(x)' /\ AllLed(x)' /\ WaitedFor(x)' /\ Freed(x)'
      <3>1. KnownLed(x) /\ AllLed(x) /\ WaitedFor(x) /\ Freed(x) /\ x # Lead
        BY <1>1 DEF NInv
      <3>2. LeadMoves(x)
        BY <1>1, <1>2, <3>1, LeadMovesNext DEF LeadDeletes
      <3> QED
        BY <1>1, <1>2, <1>3, <3>1, <3>2, KnownLedNext, AllLedNext, WaitedForNext, FreedNext
    <2> QED
      BY <2>1, <2>2 DEF NInv
  <1> QED
    BY <1>2, <1>4, <1>5, <1>6, <1>7, <1>8 DEF IInv

\* The store, the queues, the tombstones and what is mounted always satisfy the
\* inductive invariant (sessionStore.ts:100-262, 501-545, the hook's effects).
THEOREM WritesInvariant == WritesSpec => []IInv
  <1>1. WritesInit => IInv
    BY InitInv
  <1>2. IInv /\ [WritesNext]_writesVars => IInv'
    BY StepInv
  <1> QED
    BY <1>1, <1>2, PTL DEF WritesSpec

-----------------------------------------------------------------------------
(* What follows.                                                             *)

LEMMA Typed ==
    ASSUME TInv
    PROVE  WritesTypeOK
  <1>1. MaxEdits \in Nat /\ edits \in 0..MaxEdits
    BY WritesAssumption DEF TInv
  <1>2. 0..edits \subseteq 0..MaxEdits
    BY <1>1
  <1>3. Docs(edits) \subseteq Transcript
    BY <1>2 DEF Docs, Transcript
  <1>4. Texts(edits) \subseteq Transcript
    BY <1>3 DEF Texts
  <1>5. Saves(edits) \cup Deletes \subseteq Write
    BY <1>4 DEF Saves, Deletes, Write
  <1>6. SaveRuns(edits) \subseteq Run /\ DeleteRuns \subseteq Run
    BY <1>4 DEF SaveRuns, DeleteRuns, Run
  <1>7. Loads(edits) \subseteq Load
    BY <1>4 DEF Loads, Load
  <1>8. \A s \in Sessions : stored[s] # None => stored[s].text # {}
    BY DEF TInv, Texts
  <1>9. stored \in [Sessions -> Transcript \cup {None}]
    BY <1>4 DEF TInv
  <1>10. queue \in [Sessions -> Seq(Write)]
    <2>1. Seq(Saves(edits) \cup Deletes) \subseteq Seq(Write)
      BY <1>5
    <2> QED
      BY <2>1 DEF TInv
  <1>11. running \in [Sessions -> Run \cup {None}]
    BY <1>6 DEF TInv
  <1>12. \A m \in {open, observed, pending, last, cache} : m \in [Sessions -> Transcript \cup {None}]
    BY <1>3, <1>4 DEF TInv
  <1>13. loading \in [Sessions -> Load \cup {None}]
    BY <1>7 DEF TInv
  <1>14. withdrawn \in [Sessions -> SUBSET (0..MaxEdits)]
    BY <1>2 DEF TInv
  <1> QED
    BY <1>8, <1>9, <1>10, <1>11, <1>12, <1>13, <1>14 DEF TInv, WritesTypeOK

\* A deletion is final: the conversation does not come back, and no worker
\* that is stored names it (sessionStore.ts, deleteSession).
THEOREM DeletedIsGoneAlways == WritesSpec => []DeletedIsGone
  <1>1. IInv => DeletedIsGone
    <2> SUFFICES ASSUME IInv
                 PROVE  DeletedIsGone
      OBVIOUS
    <2>1. WritesTypeOK
      BY Typed DEF IInv
    <2>2. DeletedStaysDeleted
      BY DEF IInv, TInv, DInv, Deleted, DeletedStaysDeleted
    <2>3. ASSUME Lead \in gone, NEW s \in Sessions, stored[s] # None, stored[s].led
          PROVE  s \in early /\ Lead \in dropped
      <3>1. s # Lead
        BY <2>2, <2>3 DEF DeletedStaysDeleted
      <3> QED
        BY <2>3, <3>1 DEF IInv, NInv, Freed, Sound, Led
    <2> QED
      BY <2>1, <2>2, <2>3 DEF DeletedIsGone, NoWorkerOfADeletedLead
  <1> QED
    BY <1>1, WritesInvariant, PTL

\* What the user sees is what is stored once nothing is under way, no turn
\* either, unless the last write was of an older copy (App.tsx:1955-2023, the
\* persist effect and its timer, and sessionStore.ts:175-235, upsertSession).
THEOREM SavedAlways == WritesSpec => []SavedWhenQuiet
  <1>1. IInv => SavedWhenQuiet
    <2> SUFFICES ASSUME IInv, NEW s \in Sessions \ (busy \cup dropped \cup early \cup outdated), Quiet(s),
                        observed[s] = open[s], open[s] # None \/ cache[s] # None
                 PROVE  /\ open[s] # None => TextOf(stored[s]) = TextOf(open[s])
                        /\ cache[s] # None => TextOf(stored[s]) = TextOf(cache[s])
      BY DEF SavedWhenQuiet
    <2>1. queue[s] = <<>> /\ running[s] = None /\ pending[s] = None /\ Stage(s) = "none"
      BY DEF Quiet, Stage
    <2>2. s \notin gone
      BY <2>1 DEF IInv, DInv, Deleted
    <2>3. s \notin tombs
      BY <2>1, <2>2 DEF IInv, DInv, Marked
    <2>4. WillBe(s)
      BY <2>2, <2>3 DEF IInv, QInv, Clean
    <2>5. Final(s) = TextOf(stored[s]) /\ ~FinalOld(s)
      BY <2>1 DEF Final, FinalOld
    <2> QED
      BY <2>1, <2>4, <2>5 DEF WillBe, TextOf
  <1> QED
    BY <1>1, WritesInvariant, PTL

\* No step stores a transcript that lacks an edit already stored, unless it was
\* read from the store before the last write, or the write is of a copy that was
\* older than what was mounted (sessionStore.ts:210-235, the queue of writes).
THEOREM NothingOverwrittenAlways == WritesSpec => NothingOverwritten
  <1>1. ASSUME IInv, [WritesNext]_writesVars, NEW s \in Sessions, Loses(s), s \notin early
        PROVE  running[s].old
    <2>1. TInv /\ DInv /\ LInv /\ Chain(s)
      BY <1>1 DEF IInv, MInv, InOrder
    <2>2. Changes(s)
      BY <1>1, <2>1, StepTyped, StepChanges
    <2>3. CASE Stores(s)
      <3>1. stored'[s].text = running[s].doc.text /\ RunsSave(s)
        BY <2>1, <2>3, RunKinds DEF Stores, RunsSave
      <3> QED
        BY <1>1, <2>1, <3>1 DEF Chain, Loses
    <2>4. CASE ~Stores(s)
      <3>1. stored'[s] = None \/ stored[s] = None \/ stored'[s].text = stored[s].text
        BY <2>2, <2>4 DEF Changes, InStore, InApp, InClosed, InRemoval, Aside, Alike, Skips, Starts,
           Erases, Fails,
           SavesOpen, Flushes, Grows, Discards, Closes, Recalls, Asks, Looked, Arrives, RemovalAsked, RemovalTakenBack,
           RemovalBegins, RemovalDrains, RemovalEnds, Expires, SameStore
      <3> QED
        BY <1>1, <3>1 DEF Loses
    <2> QED
      BY <2>3, <2>4
  <1>2. IInv /\ [WritesNext]_writesVars => [\A s \in Sessions : Loses(s) => s \in early \/ running[s].old]_writesVars
    BY <1>1
  <1> QED
    BY <1>2, WritesInvariant, PTL DEF WritesSpec, NothingOverwritten

=============================================================================

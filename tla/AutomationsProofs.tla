-------------------------- MODULE AutomationsProofs --------------------------
(***************************************************************************)
(* What starts a run of an automation starts it once, and nothing that was   *)
(* due is forgotten.                                                        *)
(*                                                                          *)
(* The inductive invariant has five parts.  TInv: every run a page claimed   *)
(* is in one place of that page, and the runs of its recovery were there     *)
(* before it.  RInv: a scheduled run lies behind the schedule it was claimed *)
(* from, and a run of an inbox item has its claim, so neither can be claimed *)
(* again.  SInv: a pending run was never prompted, nor is one a page has     *)
(* still to submit.  HInv: a run that waits or runs is in the hands of a     *)
(* page.  KInv: the one page retries what is stored, and an item its pass    *)
(* has done with is claimed or failed.                                      *)
(*                                                                          *)
(* What each step does to one page is said once, in terms of the runs that   *)
(* page has (Idles, Gains, Marks, Submits and so on); the steps are then     *)
(* sorted by it.                                                            *)
(***************************************************************************)
EXTENDS Automations, SequenceTheorems, FiniteSetTheorems, TLAPS

-----------------------------------------------------------------------------
(* What a step finds *)

AutoRows == [there : BOOLEAN, enabled : BOOLEAN, next : 0..(MaxTime + 1)]
Edits == [auto : Autos, enabled : BOOLEAN, next : 0..(MaxTime + 1)]
Pages ==
    [up : BOOLEAN, before : Nat, recovered : BOOLEAN, queue : Seq(Nat), fresh : SUBSET Nat,
     marked : SUBSET Nat, turns : SUBSET Nat, due : DuePasses \cup {None}, inbox : InboxPasses \cup {None},
     retry : (SUBSET Items) \cup {None}, waiting : SUBSET Items, seen : SUBSET Items]

ValuesOK ==
    /\ now \in 0..MaxTime /\ autos \in [Autos -> AutoRows]
    /\ runs \in Seq(RunRows) /\ sent \in Seq(Nat) /\ Len(sent) = Len(runs) /\ Len(runs) <= MaxRuns
    /\ claims \subseteq Autos \X Items /\ stored \subseteq Items /\ kept \subseteq Items
    /\ page \in [AutoWindows -> Pages] /\ edit \in Edits \cup {None}
    /\ edited \subseteq Autos /\ crowded \in BOOLEAN

\* The runs a page has claimed in its passes, and those it has still to submit.
DueBatch(p)   == IF p.due = None THEN {} ELSE p.due.batch
InboxBatch(p) == IF p.inbox = None THEN {} ELSE p.inbox.batch
Members(s)    == {s[i] : i \in 1..Len(s)}
Once(s)       == \A i, j \in 1..Len(s) : i # j => s[i] # s[j]
Queue(p)      == Members(p.queue)
Begun(p)      == p.marked \cup p.turns
Claimed(p)    == p.fresh \cup DueBatch(p) \cup InboxBatch(p)
ToSubmit(p)   == Claimed(p) \cup p.marked \cup Queue(p)

\* A page of n runs: each of its runs is in one place, those of the recovery
\* were there before it, and it works on the first of them.
Apart(p) ==
    /\ p.fresh \cap DueBatch(p) = {} /\ p.fresh \cap InboxBatch(p) = {}
    /\ DueBatch(p) \cap InboxBatch(p) = {}
    /\ Claimed(p) \cap Begun(p) = {} /\ p.marked \cap p.turns = {} /\ p.turns \cap Queue(p) = {}
QueueOK(p) ==
    /\ Queue(p) \subseteq 1..p.before /\ Once(p.queue)
    /\ \A r \in p.marked : r <= p.before => p.queue # <<>> /\ Head(p.queue) = r
    /\ ~p.recovered => p.queue = <<>> /\ \A r \in Begun(p) : r > p.before
PageOK(p, n) ==
    /\ p.before <= n
    /\ Claimed(p) \cup Begun(p) \subseteq 1..n /\ \A r \in Claimed(p) : r > p.before
    /\ Apart(p) /\ QueueOK(p)

\* A pass over the inbox works on the items the page has read.
RetryOK(p) == p.inbox # None => p.retry \in SUBSET Items

TInv == ValuesOK /\ \A w \in AutoWindows : PageOK(page[w], Len(runs)) /\ RetryOK(page[w])

-----------------------------------------------------------------------------
(* Rows and claims *)
RowsOK ==
    \A r \in DOMAIN runs :
        /\ runs[r].why = "scheduled" => runs[r].of \in Nat
        /\ runs[r].why = "scheduled" /\ runs[r].auto \notin edited => runs[r].of < autos[runs[r].auto].next
        /\ runs[r].why = "event" /\ There(r) => <<runs[r].auto, runs[r].of>> \in claims
PassedOK == \A a \in Autos \ edited, t \in 1..MaxTime : t < autos[a].next => Passed(a, t)
Untouched == \A a \in Autos \ edited : autos[a].there /\ autos[a].enabled
RInv == RowsOK /\ ClaimedOnce /\ PassedOK /\ Untouched

(* Submissions *)
OneUp ==
    /\ \A w \in AutoWindows : ~page[w].up => page[w] = Closed
    /\ ~crowded => \A v, w \in AutoWindows : page[v].up /\ page[w].up => v = w
PendingOK ==
    /\ \A r \in DOMAIN runs : runs[r].status = "pending" => sent[r] = 0
    /\ \A w \in AutoWindows : \A r \in page[w].marked : runs[r].status # "pending"
NotYetSent == ~crowded => \A w \in AutoWindows : \A r \in ToSubmit(page[w]) : sent[r] = 0
SInv == OneUp /\ PendingOK /\ NotYetSent /\ SubmittedOnce

(* Nothing is forgotten *)
HInv == \A r \in DOMAIN runs : runs[r].status \notin Over => Held(r) \/ r \in unreported
PassItems(p) ==
    p.inbox # None =>
        \A i \in p.inbox.items, a \in Autos \ edited :
            <<a, i>> \in p.inbox.todo \/ i \in p.inbox.failed \/ <<a, i>> \in claims
KInv ==
    ~crowded =>
        /\ \A w \in AutoWindows :
               (page[w].retry # None \/ page[w].inbox # None => page[w].retry = stored) /\ PassItems(page[w])
        /\ \A i \in kept, a \in Autos \ edited : <<a, i>> \in claims \/ i \in stored

IInv == TInv /\ RInv /\ SInv /\ HInv /\ KInv

-----------------------------------------------------------------------------
(* The order of a recovery *)

\* The elements of s in order, found without an induction over s: the rank of
\* an element is one-to-one, so it is onto, and its inverse lists s.
LEMMA Enumerated ==
    ASSUME NEW s, IsFiniteSet(s), s \subseteq Nat
    PROVE  \E q \in [1..Cardinality(s) -> s] : \A i, j \in DOMAIN q : i < j => q[i] < q[j]
<1> DEFINE n == Cardinality(s)
<1> DEFINE upto(e) == {x \in s : x <= e}
<1> DEFINE rank == [e \in s |-> Cardinality(upto(e))]
<1>0. n \in Nat
  BY FS_CardinalityType
<1>1. \A e \in s : IsFiniteSet(upto(e)) /\ Cardinality(upto(e)) \in 1..n
  <2> TAKE e \in s
  <2>1. upto(e) \in SUBSET s
    OBVIOUS
  <2>2. IsFiniteSet(upto(e)) /\ Cardinality(upto(e)) <= n
    BY <2>1, FS_Subset
  <2>3. upto(e) # {}
    OBVIOUS
  <2>4. Cardinality(upto(e)) \in Nat /\ Cardinality(upto(e)) # 0
    BY <2>2, <2>3, FS_CardinalityType, FS_EmptySet
  <2> QED BY <2>2, <2>4, <1>0
<1>2. \A e, f \in s : e < f => Cardinality(upto(e)) < Cardinality(upto(f))
  <2> SUFFICES ASSUME NEW e \in s, NEW f \in s, e < f
               PROVE  Cardinality(upto(e)) < Cardinality(upto(f))
    OBVIOUS
  <2>1. e \in Nat /\ f \in Nat
    OBVIOUS
  <2>2. upto(e) \in SUBSET upto(f)
    <3> SUFFICES ASSUME NEW x \in s, x <= e PROVE x <= f
      OBVIOUS
    <3>1. x \in Nat
      OBVIOUS
    <3> QED BY <3>1, <2>1
  <2>3. f \in upto(f) /\ f \notin upto(e)
    BY <2>1
  <2>4. IsFiniteSet(upto(f))
    BY <1>1
  <2>5. Cardinality(upto(e)) <= Cardinality(upto(f)) /\ Cardinality(upto(f)) # Cardinality(upto(e))
    <3> HIDE DEF upto
    <3> QED BY <2>2, <2>3, <2>4, FS_Subset
  <2> QED BY <2>5, <1>1, <1>0
<1>3. rank \in Injection(s, 1..n)
  <2>1. rank \in [s -> 1..n]
    BY <1>1
  <2>2. ASSUME NEW e \in s, NEW f \in s, rank[e] = rank[f] PROVE e = f
    <3>1. e \in Nat /\ f \in Nat
      OBVIOUS
    <3>2. rank[e] = Cardinality(upto(e)) /\ rank[f] = Cardinality(upto(f))
      OBVIOUS
    <3> DEFINE ce == Cardinality(upto(e)) cf == Cardinality(upto(f))
    <3>5. ce \in 1..n /\ cf \in 1..n /\ ce = cf /\ (e < f => ce < cf) /\ (f < e => cf < ce)
      <4>1. ce = cf
        BY <3>2, <2>2
      <4> QED BY <4>1, <1>1, <1>2
    <3> HIDE DEF upto, rank, ce, cf, n
    <3>6. ce \in Int /\ cf \in Int
      BY <3>5, <1>0
    <3>3. CASE e < f
      BY <3>3, <3>5, <3>6
    <3>4. CASE f < e
      BY <3>4, <3>5, <3>6
    <3> QED BY <3>1, <3>3, <3>4
  <2> QED BY <2>1, <2>2 DEF Injection, IsInjective
<1>4. rank \in Surjection(s, 1..n)
  <2>1. IsFiniteSet(1..n) /\ Cardinality(1..n) = n
    <3>1. IsFiniteSet(1..n) /\ Cardinality(1..n) = IF 1 > n THEN 0 ELSE n - 1 + 1
      BY <1>0, FS_Interval
    <3> QED BY <3>1, <1>0
  <2> QED BY <1>3, <2>1, FS_Injection
<1> DEFINE q == [i \in 1..n |-> CHOOSE e \in s : rank[e] = i]
<1>5. \A i \in 1..n : q[i] \in s /\ rank[q[i]] = i
  <2> HIDE DEF rank
  <2> TAKE i \in 1..n
  <2>1. \E e \in s : rank[e] = i
    BY <1>4 DEF Surjection
  <2> QED BY <2>1
<1>6. q \in [1..n -> s]
  <2>1. \A i \in 1..n : q[i] \in s
    BY <1>5
  <2>2. \A i \in 1..n : (CHOOSE e \in s : rank[e] = i) \in s
    BY <2>1
  <2> HIDE DEF rank, n
  <2> QED BY <2>2
<1>7. \A i, j \in 1..n : i < j => q[i] < q[j]
  <2> SUFFICES ASSUME NEW i \in 1..n, NEW j \in 1..n, i < j
               PROVE  q[i] < q[j]
    OBVIOUS
  <2>1. q[i] \in s /\ q[j] \in s /\ rank[q[i]] = i /\ rank[q[j]] = j
    BY <1>5
  <2>2. \A e, f \in s : e < f => rank[e] < rank[f]
    BY <1>2
  <2>3. i \in Int /\ j \in Int
    BY <1>0
  <2> HIDE DEF rank, q
  <2>4. CASE q[i] = q[j]
    BY <2>1, <2>3, <2>4
  <2>5. CASE q[j] < q[i]
    <3>1. rank[q[j]] < rank[q[i]]
      BY <2>1, <2>2, <2>5
    <3> QED BY <3>1, <2>1, <2>3
  <2>6. q[i] \in Nat /\ q[j] \in Nat
    BY <2>1
  <2> QED BY <2>4, <2>5, <2>6
<1>8. DOMAIN q = 1..n
  OBVIOUS
<1> HIDE DEF q, n
<1> QED BY <1>6, <1>7, <1>8 DEF n

LEMMA InOrderOK ==
    ASSUME NEW s, IsFiniteSet(s), s \subseteq Nat
    PROVE  InOrder(s) \in Seq(s) /\ Members(InOrder(s)) = s /\ Once(InOrder(s))
<1> DEFINE n == Cardinality(s)
<1>0. n \in Nat
  BY FS_CardinalityType
<1> PICK q : q = InOrder(s)
  OBVIOUS
<1>1. q \in [1..n -> s] /\ \A i, j \in DOMAIN q : i < j => q[i] < q[j]
  BY Enumerated DEF InOrder
<1>2. q \in Seq(s) /\ Len(q) = n
  <2>1. q \in Seq(s)
    BY <1>0, <1>1, SeqDef
  <2>2. DOMAIN q = 1..Len(q) /\ Len(q) \in Nat /\ DOMAIN q = 1..n
    BY <1>1, <2>1, LenProperties
  <2>3. \A k, m \in Nat : 1..k = 1..m => k = m
    <3> SUFFICES ASSUME NEW k \in Nat, NEW m \in Nat, 1..k = 1..m
                 PROVE  k = m
      OBVIOUS
    <3>1. \A i \in Nat : i \in 1..k <=> i \in 1..m
      OBVIOUS
    <3>2. k <= m /\ m <= k
      BY <3>1
    <3> QED BY <3>2
  <2>4. Len(q) = n
    BY <2>2, <2>3, <1>0
  <2> QED BY <2>1, <2>4
<1>3. \A i, j \in 1..n : i # j => q[i] # q[j]
  <2> SUFFICES ASSUME NEW i \in 1..n, NEW j \in 1..n, i # j
               PROVE  q[i] # q[j]
    OBVIOUS
  <2>1. q[i] \in Nat /\ q[j] \in Nat /\ i \in Int /\ j \in Int /\ DOMAIN q = 1..n
    <3>1. q[i] \in s /\ q[j] \in s /\ DOMAIN q = 1..n
      BY <1>1
    <3>2. q[i] \in Nat /\ q[j] \in Nat
      BY <3>1
    <3>3. i \in Int /\ j \in Int
      BY <1>0
    <3> QED BY <3>1, <3>2, <3>3
  <2>2. CASE i < j
    BY <2>1, <2>2, <1>1
  <2>3. CASE j < i
    BY <2>1, <2>3, <1>1
  <2> QED BY <2>1, <2>2, <2>3
<1>4. q \in Injection(1..n, s)
  BY <1>1, <1>3 DEF Injection, IsInjective
<1>5. q \in Surjection(1..n, s)
  <2>1. IsFiniteSet(1..n) /\ Cardinality(1..n) = n
    <3>1. IsFiniteSet(1..n) /\ Cardinality(1..n) = IF 1 > n THEN 0 ELSE n - 1 + 1
      BY <1>0, FS_Interval
    <3> QED BY <3>1, <1>0
  <2> QED BY <1>4, <2>1, FS_Injection
<1>6. Members(q) = s
  BY <1>1, <1>2, <1>5 DEF Surjection, Members
<1>7. Once(q)
  BY <1>2, <1>3 DEF Once
<1> QED BY <1>2, <1>6, <1>7

-----------------------------------------------------------------------------
(* Pages *)

\* What a step does to the runs of a page.
SameQueue(p, q)  == q.recovered = p.recovered /\ q.queue = p.queue
SameBegun(p, q)  == q.marked = p.marked /\ q.turns = p.turns
SameBatches(p, q) == DueBatch(q) = DueBatch(p) /\ InboxBatch(q) = InboxBatch(p)
SamePage(p, q)   == q.up = p.up /\ q.before = p.before
GoesOn(p, q, r) ==
    /\ q.recovered = p.recovered
    /\ q.queue = IF p.queue # <<>> /\ Head(p.queue) = r THEN Tail(p.queue) ELSE p.queue
MayLaunch(p) ==
    p.fresh \cup IF p.queue = <<>> \/ Head(p.queue) \in p.marked THEN {} ELSE {Head(p.queue)}

SameInbox(p, q)  == q.inbox = p.inbox /\ q.retry = p.retry

Idles(p, q) ==
    SamePage(p, q) /\ SameQueue(p, q) /\ SameBegun(p, q) /\ SameBatches(p, q) /\ q.fresh = p.fresh
Gains(p, q, r) ==
    /\ SamePage(p, q) /\ SameQueue(p, q) /\ SameBegun(p, q)
    /\ \/ q.fresh = p.fresh \cup {r} /\ SameBatches(p, q)
       \/ q.fresh = p.fresh /\ DueBatch(q) = DueBatch(p) \cup {r} /\ InboxBatch(q) = InboxBatch(p)
       \/ q.fresh = p.fresh /\ DueBatch(q) = DueBatch(p) /\ InboxBatch(q) = InboxBatch(p) \cup {r}
HandsOver(p, q) ==
    /\ SamePage(p, q) /\ SameQueue(p, q) /\ SameBegun(p, q)
    /\ \/ q.fresh = p.fresh \cup DueBatch(p) /\ DueBatch(q) = {} /\ InboxBatch(q) = InboxBatch(p)
       \/ q.fresh = p.fresh \cup InboxBatch(p) /\ DueBatch(q) = DueBatch(p) /\ InboxBatch(q) = {}
Marks(p, q, r) ==
    /\ SamePage(p, q) /\ SameQueue(p, q) /\ SameBatches(p, q) /\ r \in MayLaunch(p)
    /\ q.fresh = p.fresh \ {r} /\ q.marked = p.marked \cup {r} /\ q.turns = p.turns
Drops(p, q, r) ==
    /\ SamePage(p, q) /\ GoesOn(p, q, r) /\ SameBatches(p, q) /\ SameBegun(p, q)
    /\ r \in MayLaunch(p) /\ q.fresh = p.fresh \ {r}
Submits(p, q, r) ==
    /\ SamePage(p, q) /\ GoesOn(p, q, r) /\ SameBatches(p, q) /\ r \in p.marked
    /\ q.fresh = p.fresh /\ q.marked = p.marked \ {r} /\ q.turns = p.turns \cup {r}
Ends(p, q, r) ==
    /\ SamePage(p, q) /\ SameQueue(p, q) /\ SameBatches(p, q) /\ r \in p.turns
    /\ q.fresh = p.fresh /\ q.marked = p.marked /\ q.turns = p.turns \ {r}
Recovers(p, q, s) ==
    /\ SamePage(p, q) /\ SameBatches(p, q) /\ SameBegun(p, q) /\ q.fresh = p.fresh
    /\ ~p.recovered /\ q.recovered /\ Members(q.queue) = s /\ Once(q.queue)

\* What is left of a queue.
LEMMA Rest ==
    ASSUME NEW s \in Seq(Nat), s # <<>>, Once(s)
    PROVE  /\ Head(s) \in Members(s) /\ Members(Tail(s)) = Members(s) \ {Head(s)} /\ Once(Tail(s))
<1>1. Len(s) \in Nat /\ Len(s) >= 1 /\ Head(s) = s[1]
  BY EmptySeq
<1>2. Tail(s) \in Seq(Nat) /\ Len(Tail(s)) = Len(s) - 1 /\ \A i \in 1..(Len(s) - 1) : Tail(s)[i] = s[i + 1]
  BY HeadTailProperties
<1>3. Head(s) \in Members(s)
  BY <1>1 DEF Members
<1>4. Members(Tail(s)) \subseteq Members(s) \ {Head(s)}
  <2> SUFFICES ASSUME NEW i \in 1..(Len(s) - 1) PROVE Tail(s)[i] \in Members(s) \ {Head(s)}
    BY <1>2 DEF Members
  <2>1. i + 1 \in 1..Len(s) /\ i + 1 # 1 /\ 1 \in 1..Len(s)
    BY <1>1
  <2> QED BY <2>1, <1>1, <1>2 DEF Members, Once
<1>5. Members(s) \ {Head(s)} \subseteq Members(Tail(s))
  <2> SUFFICES ASSUME NEW i \in 1..Len(s), s[i] # s[1] PROVE s[i] \in Members(Tail(s))
    BY <1>1 DEF Members
  <2>1. i - 1 \in 1..(Len(s) - 1) /\ (i - 1) + 1 = i
    BY <1>1
  <2> QED BY <2>1, <1>1, <1>2 DEF Members
<1>6. Once(Tail(s))
  <2> SUFFICES ASSUME NEW i \in 1..(Len(s) - 1), NEW j \in 1..(Len(s) - 1), i # j
               PROVE  Tail(s)[i] # Tail(s)[j]
    BY <1>2 DEF Once
  <2>1. i + 1 \in 1..Len(s) /\ j + 1 \in 1..Len(s) /\ i + 1 # j + 1
    BY <1>1
  <2> QED BY <2>1, <1>2 DEF Once
<1> QED BY <1>3, <1>4, <1>5, <1>6

LEMMA NoQueue == Members(<<>>) = {} /\ Once(<<>>)
<1>1. Len(<<>>) = 0
  OBVIOUS
<1> QED BY <1>1 DEF Members, Once

\* A page whose run has gone from the head of its queue.
LEMMA GoneOn ==
    ASSUME NEW p \in Pages, NEW q \in Pages, NEW r, Once(p.queue), GoesOn(p, q, r)
    PROVE  /\ Once(q.queue) /\ Queue(q) \subseteq Queue(p) /\ Queue(p) \ {r} \subseteq Queue(q)
           /\ p.queue # <<>> /\ Head(p.queue) = r => Queue(q) = Queue(p) \ {r}
<1>1. p.queue \in Seq(Nat)
  BY DEF Pages
<1>2. CASE p.queue # <<>> /\ Head(p.queue) = r
  <2>1. q.queue = Tail(p.queue)
    BY <1>2 DEF GoesOn
  <2> QED BY <2>1, <1>1, <1>2, Rest DEF Queue
<1>3. CASE ~(p.queue # <<>> /\ Head(p.queue) = r)
  <2>1. q.queue = p.queue
    BY <1>3 DEF GoesOn
  <2> QED BY <2>1, <1>3 DEF Queue
<1> QED BY <1>2, <1>3

\* More runs do not disturb a page.
LEMMA PageGrows ==
    ASSUME NEW p \in Pages, NEW n \in Nat, NEW m \in Nat, n <= m, PageOK(p, n)
    PROVE  PageOK(p, m)
<1>1. p.before \in Nat
  BY DEF Pages
<1> QED BY <1>1 DEF PageOK

LEMMA IdleOK ==
    ASSUME NEW p \in Pages, NEW q \in Pages, NEW n \in Nat, PageOK(p, n), Idles(p, q)
    PROVE  PageOK(q, n)
<1>1. Claimed(q) = Claimed(p) /\ Begun(q) = Begun(p) /\ Queue(q) = Queue(p)
  BY DEF Idles, SamePage, SameQueue, SameBegun, SameBatches, Claimed, Begun, Queue
<1> QED BY <1>1 DEF Idles, SamePage, SameQueue, SameBegun, SameBatches, PageOK, Apart, QueueOK

LEMMA GainOK ==
    ASSUME NEW p \in Pages, NEW q \in Pages, NEW n \in Nat, PageOK(p, n), Gains(p, q, n + 1)
    PROVE  PageOK(q, n + 1)
<1>1. Claimed(q) = Claimed(p) \cup {n + 1} /\ Begun(q) = Begun(p) /\ Queue(q) = Queue(p)
  BY DEF Gains, SamePage, SameQueue, SameBegun, SameBatches, Claimed, Begun, Queue
<1>2. p.before \in Nat /\ p.before <= n /\ n + 1 > p.before
  BY DEF Pages, PageOK
<1>3. n + 1 \notin Claimed(p) /\ n + 1 \notin Begun(p)
  BY DEF PageOK
<1>4. QueueOK(q)
  BY <1>1 DEF Gains, SamePage, SameQueue, SameBegun, PageOK, QueueOK
<1>5. Apart(q)
  BY <1>1, <1>3 DEF Gains, SameBegun, SameBatches, PageOK, Apart, Claimed
<1>6. \A r \in Claimed(q) : r > q.before
  BY <1>1, <1>2 DEF Gains, SamePage, PageOK
<1>7. Claimed(q) \cup Begun(q) \subseteq 1..(n + 1)
  BY <1>1 DEF PageOK
<1> QED BY <1>2, <1>4, <1>5, <1>6, <1>7 DEF PageOK, Gains, SamePage

LEMMA HandOverOK ==
    ASSUME NEW p \in Pages, NEW q \in Pages, NEW n \in Nat, PageOK(p, n), HandsOver(p, q)
    PROVE  PageOK(q, n)
<1>1. Claimed(q) = Claimed(p) /\ Begun(q) = Begun(p) /\ Queue(q) = Queue(p)
  BY DEF HandsOver, SamePage, SameQueue, SameBegun, Claimed, Begun, Queue
<1>2. Apart(q)
  BY <1>1 DEF HandsOver, SameBegun, PageOK, Apart
<1>3. QueueOK(q)
  BY <1>1 DEF HandsOver, SamePage, SameQueue, SameBegun, PageOK, QueueOK
<1> QED BY <1>1, <1>2, <1>3 DEF HandsOver, SamePage, PageOK

\* The head of the queue, or a run that was claimed.
LEMMA Launched ==
    ASSUME NEW p \in Pages, NEW n \in Nat, PageOK(p, n), NEW r \in MayLaunch(p)
    PROVE  /\ r \in 1..n /\ r \notin p.marked /\ r \notin p.turns
           /\ r \notin DueBatch(p) /\ r \notin InboxBatch(p)
           /\ \/ r \in p.fresh /\ r > p.before /\ r \notin Queue(p)
              \/ r \notin p.fresh /\ r <= p.before /\ p.queue # <<>> /\ Head(p.queue) = r /\ p.recovered
<1>0. p.before \in Nat /\ p.before <= n /\ p.queue \in Seq(Nat)
  BY DEF Pages, PageOK
<1>1. CASE r \in p.fresh
  <2>1. r \in Claimed(p)
    BY <1>1 DEF Claimed
  <2>2. r \in 1..n /\ r > p.before /\ r \notin Begun(p)
    BY <2>1 DEF PageOK, Apart
  <2>3. r \notin Queue(p)
    BY <2>2, <1>0 DEF PageOK, QueueOK
  <2> QED BY <1>1, <2>2, <2>3 DEF PageOK, Apart, Begun
<1>2. CASE r \notin p.fresh
  <2>1. p.queue # <<>> /\ Head(p.queue) = r /\ r \notin p.marked
    BY <1>2 DEF MayLaunch
  <2>2. r \in Queue(p)
    BY <2>1, <1>0, Rest DEF PageOK, QueueOK, Queue
  <2>3. r \in 1..p.before
    BY <2>2 DEF PageOK, QueueOK
  <2>4. r \notin Claimed(p)
    BY <2>3, <1>0 DEF PageOK
  <2>5. p.recovered
    BY <2>1 DEF PageOK, QueueOK
  <2> QED BY <1>0, <1>2, <2>1, <2>2, <2>3, <2>4, <2>5 DEF PageOK, Apart, Claimed
<1> QED BY <1>1, <1>2

LEMMA MarkOK ==
    ASSUME NEW p \in Pages, NEW q \in Pages, NEW n \in Nat, NEW r, PageOK(p, n), Marks(p, q, r)
    PROVE  PageOK(q, n)
<1>0. r \in MayLaunch(p) /\ p.before \in Nat
  BY DEF Marks, Pages
<1>1. Claimed(q) = Claimed(p) \ {r} /\ Begun(q) = Begun(p) \cup {r} /\ Queue(q) = Queue(p)
  <2>1. r \notin DueBatch(p) /\ r \notin InboxBatch(p)
    BY <1>0, Launched
  <2> QED BY <2>1 DEF Marks, SameQueue, SameBatches, Claimed, Begun, Queue
<1>2. Apart(q)
  BY <1>0, <1>1, Launched DEF Marks, SameBatches, PageOK, Apart
<1>3. QueueOK(q)
  <2>1. Queue(q) \subseteq 1..q.before /\ Once(q.queue)
    BY <1>1 DEF Marks, SamePage, SameQueue, PageOK, QueueOK
  <2>2. ASSUME NEW x \in q.marked, x <= q.before PROVE q.queue # <<>> /\ Head(q.queue) = x
    <3>1. CASE x = r
      BY <2>2, <3>1, <1>0, Launched DEF Marks, SamePage, SameQueue
    <3>2. CASE x # r
      BY <2>2, <3>2 DEF Marks, SamePage, SameQueue, PageOK, QueueOK
    <3> QED BY <3>1, <3>2
  <2>3. ~q.recovered => q.queue = <<>> /\ \A x \in Begun(q) : x > q.before
    BY <1>0, <1>1, Launched DEF Marks, SamePage, SameQueue, PageOK, QueueOK
  <2> QED BY <2>1, <2>2, <2>3 DEF QueueOK
<1>4. r \in 1..n
  BY <1>0, Launched
<1> QED BY <1>1, <1>2, <1>3, <1>4 DEF Marks, SamePage, PageOK

LEMMA DropOK ==
    ASSUME NEW p \in Pages, NEW q \in Pages, NEW n \in Nat, NEW r, PageOK(p, n), Drops(p, q, r)
    PROVE  PageOK(q, n)
<1>0. r \in MayLaunch(p) /\ p.before \in Nat /\ GoesOn(p, q, r) /\ Once(p.queue)
  BY DEF Drops, Pages, PageOK, QueueOK
<1>1. Claimed(q) \subseteq Claimed(p) /\ Begun(q) = Begun(p) /\ q.fresh \subseteq p.fresh
  BY DEF Drops, SameBatches, SameBegun, Claimed, Begun
<1>2. Queue(q) \subseteq Queue(p) /\ Once(q.queue)
  BY <1>0, GoneOn
<1>3. Apart(q)
  BY <1>1, <1>2 DEF Drops, SameBegun, SameBatches, PageOK, Apart
<1>4. QueueOK(q)
  <2>1. Queue(q) \subseteq 1..q.before /\ Once(q.queue)
    BY <1>2 DEF Drops, SamePage, PageOK, QueueOK
  <2>2. ASSUME NEW x \in q.marked, x <= q.before PROVE q.queue # <<>> /\ Head(q.queue) = x
    <3>1. x \in p.marked /\ p.queue # <<>> /\ Head(p.queue) = x
      BY <2>2 DEF Drops, SamePage, SameBegun, PageOK, QueueOK
    <3>2. x # r
      BY <3>1, <1>0, Launched
    <3>3. q.queue = p.queue
      BY <3>1, <3>2, <1>0 DEF GoesOn
    <3> QED BY <3>1, <3>3
  <2>3. ~q.recovered => q.queue = <<>> /\ \A x \in Begun(q) : x > q.before
    BY <1>0, <1>1 DEF Drops, SamePage, GoesOn, PageOK, QueueOK
  <2> QED BY <2>1, <2>2, <2>3 DEF QueueOK
<1> QED BY <1>1, <1>3, <1>4 DEF Drops, SamePage, PageOK

LEMMA SubmitOK ==
    ASSUME NEW p \in Pages, NEW q \in Pages, NEW n \in Nat, NEW r, PageOK(p, n), Submits(p, q, r)
    PROVE  PageOK(q, n) /\ r \in 1..n /\ r \notin ToSubmit(q) /\ ToSubmit(q) \subseteq ToSubmit(p)
<1>0. p.before \in Nat /\ GoesOn(p, q, r) /\ Once(p.queue) /\ r \in p.marked /\ r \in 1..n
  BY DEF Submits, Pages, PageOK, QueueOK, Begun
<1>1. Claimed(q) = Claimed(p) /\ Begun(q) = Begun(p)
  BY <1>0 DEF Submits, SameBatches, Claimed, Begun
<1>2. Queue(q) \subseteq Queue(p) /\ Once(q.queue)
  BY <1>0, GoneOn
<1>3. r \notin Queue(q)
  <2>1. CASE p.queue # <<>> /\ Head(p.queue) = r
    BY <2>1, <1>0, GoneOn
  <2>2. CASE ~(p.queue # <<>> /\ Head(p.queue) = r)
    <3>1. ~(r <= p.before)
      BY <2>2, <1>0 DEF PageOK, QueueOK
    <3> QED BY <3>1, <1>0, <1>2 DEF PageOK, QueueOK
  <2> QED BY <2>1, <2>2
<1>4. Apart(q)
  BY <1>0, <1>1, <1>2, <1>3 DEF Submits, SameBatches, PageOK, Apart
<1>5. QueueOK(q)
  <2>1. Queue(q) \subseteq 1..q.before /\ Once(q.queue)
    BY <1>2 DEF Submits, SamePage, PageOK, QueueOK
  <2>2. ASSUME NEW x \in q.marked, x <= q.before PROVE q.queue # <<>> /\ Head(q.queue) = x
    <3>1. x \in p.marked /\ x # r /\ p.queue # <<>> /\ Head(p.queue) = x
      BY <2>2 DEF Submits, SamePage, PageOK, QueueOK
    <3>3. q.queue = p.queue
      BY <3>1, <1>0 DEF GoesOn
    <3> QED BY <3>1, <3>3
  <2>3. ~q.recovered => q.queue = <<>> /\ \A x \in Begun(q) : x > q.before
    BY <1>0, <1>1 DEF Submits, SamePage, GoesOn, PageOK, QueueOK
  <2> QED BY <2>1, <2>2, <2>3 DEF QueueOK
<1>6. PageOK(q, n)
  BY <1>1, <1>4, <1>5 DEF Submits, SamePage, PageOK
<1>7. r \notin Claimed(q) /\ r \notin q.marked /\ q.marked \subseteq p.marked
  BY <1>0, <1>1 DEF Submits, PageOK, Apart, Begun
<1> QED BY <1>0, <1>1, <1>2, <1>3, <1>6, <1>7 DEF ToSubmit

LEMMA EndOK ==
    ASSUME NEW p \in Pages, NEW q \in Pages, NEW n \in Nat, NEW r, PageOK(p, n), Ends(p, q, r)
    PROVE  PageOK(q, n)
<1>1. Claimed(q) = Claimed(p) /\ Begun(q) \subseteq Begun(p) /\ Queue(q) = Queue(p)
  BY DEF Ends, SameBatches, SameQueue, Claimed, Begun, Queue
<1>2. Apart(q)
  BY <1>1 DEF Ends, SameBatches, PageOK, Apart
<1>3. QueueOK(q)
  BY <1>1 DEF Ends, SamePage, SameQueue, PageOK, QueueOK
<1> QED BY <1>1, <1>2, <1>3 DEF Ends, SamePage, PageOK

LEMMA RecoverOK ==
    ASSUME NEW p \in Pages, NEW q \in Pages, NEW n \in Nat, NEW s, s \subseteq 1..p.before,
           PageOK(p, n), Recovers(p, q, s)
    PROVE  PageOK(q, n)
<1>0. p.before \in Nat /\ q.before = p.before /\ Queue(q) = s /\ Once(q.queue) /\ q.recovered
  BY DEF Pages, Recovers, SamePage, Queue
<1>1. Claimed(q) = Claimed(p) /\ Begun(q) = Begun(p)
  BY DEF Recovers, SameBatches, SameBegun, Claimed, Begun
<1>2. \A r \in Begun(p) : r > p.before /\ r \in 1..n
  BY DEF Recovers, PageOK, QueueOK
<1>3. p.turns \cap s = {}
  BY <1>0, <1>2 DEF Begun
<1>4. Apart(q)
  BY <1>0, <1>1, <1>3 DEF Recovers, SameBegun, SameBatches, PageOK, Apart
<1>5. QueueOK(q)
  <2>1. \A r \in q.marked : ~(r <= q.before)
    BY <1>0, <1>2 DEF Recovers, SameBegun, Begun
  <2> QED BY <1>0, <2>1 DEF QueueOK
<1> QED BY <1>0, <1>1, <1>4, <1>5 DEF PageOK

-----------------------------------------------------------------------------
(* What each step does to the pages and the runs *)

OnlyPage(w) == page' \in [AutoWindows -> Pages] /\ \A v \in AutoWindows \ {w} : page'[v] = page[v]

\* The run r gets a status, and no other run changes.
SetsStatus(r, status) ==
    /\ runs' \in Seq(RunRows) /\ Len(runs') = Len(runs) /\ r \in 1..Len(runs)
    /\ runs'[r] = [runs[r] EXCEPT !.status = status]
    /\ \A s \in 1..Len(runs) : s # r => runs'[s] = runs[s]

\* A set of runs gets a status.
SetStatuses(set, status) ==
    /\ runs' \in Seq(RunRows) /\ Len(runs') = Len(runs)
    /\ \A r \in 1..Len(runs) :
           runs'[r] = IF r \in set THEN [runs[r] EXCEPT !.status = status] ELSE runs[r]

\* A run is added; nobody has prompted for it.
AddsRun(run) ==
    /\ run \in RunRows /\ Len(runs) < MaxRuns
    /\ runs' \in Seq(RunRows) /\ Len(runs') = Len(runs) + 1 /\ runs'[Len(runs) + 1] = run
    /\ \A r \in 1..Len(runs) : runs'[r] = runs[r]
    /\ sent' \in Seq(Nat) /\ Len(sent') = Len(sent) + 1 /\ sent'[Len(sent) + 1] = 0
    /\ \A r \in 1..Len(sent) : sent'[r] = sent[r]

LEMMA SameLength == \A k, m \in Nat : 1..k = 1..m => k = m
<1> SUFFICES ASSUME NEW k \in Nat, NEW m \in Nat, 1..k = 1..m
             PROVE  k = m
  OBVIOUS
<1>1. \A i \in Nat : i \in 1..k <=> i \in 1..m
  OBVIOUS
<1>2. k <= m /\ m <= k
  BY <1>1
<1> QED BY <1>2

\* A function on 1..n is a sequence.
LEMMA Listed ==
    ASSUME NEW S, NEW n \in Nat, NEW f \in [1..n -> S]
    PROVE  f \in Seq(S) /\ Len(f) = n
<1>1. f \in Seq(S)
  BY SeqDef
<1>2. DOMAIN f = 1..Len(f) /\ Len(f) \in Nat /\ DOMAIN f = 1..n
  BY <1>1, LenProperties
<1> QED BY <1>1, <1>2, SameLength

LEMMA RunsListed == ASSUME ValuesOK PROVE DOMAIN runs = 1..Len(runs) /\ Len(runs) \in Nat /\ \A r \in 1..Len(runs) : runs[r] \in RunRows
BY LenProperties, ElementOfSeq DEF ValuesOK

LEMMA UpdateDoes ==
    ASSUME ValuesOK, NEW r \in DOMAIN runs, NEW status \in Statuses, Update(r, status)
    PROVE  SetsStatus(r, status)
<1>1. runs \in Seq(RunRows) /\ r \in 1..Len(runs) /\ runs[r] \in RunRows
  BY RunsListed DEF ValuesOK
<1> DEFINE row == [runs[r] EXCEPT !.status = status]
<1>2. row \in RunRows
  BY <1>1 DEF RunRows
<1>3. runs' = [runs EXCEPT ![r] = row]
  BY DEF Update
<1> HIDE DEF row
<1>4. /\ runs' \in Seq(RunRows) /\ Len(runs') = Len(runs)
      /\ \A s \in 1..Len(runs) : runs'[s] = IF s = r THEN row ELSE runs[s]
  BY <1>1, <1>2, <1>3, ExceptSeq
<1> QED BY <1>1, <1>4 DEF SetsStatus, row

LEMMA RestateDoes ==
    ASSUME ValuesOK, NEW set, NEW status \in Statuses,
           runs' = [r \in DOMAIN runs |-> IF r \in set THEN [runs[r] EXCEPT !.status = status] ELSE runs[r]]
    PROVE  SetStatuses(set, status)
<1>1. DOMAIN runs = 1..Len(runs) /\ Len(runs) \in Nat /\ \A r \in 1..Len(runs) : runs[r] \in RunRows
  BY RunsListed
<1>2. \A r \in 1..Len(runs) :
          (IF r \in set THEN [runs[r] EXCEPT !.status = status] ELSE runs[r]) \in RunRows
  BY <1>1 DEF RunRows
<1>3. runs' \in [1..Len(runs) -> RunRows]
  BY <1>1, <1>2
<1>4. runs' \in Seq(RunRows) /\ Len(runs') = Len(runs)
  BY <1>1, <1>3, Listed
<1> QED BY <1>1, <1>4 DEF SetStatuses

LEMMA NewRunDoes ==
    ASSUME ValuesOK, NEW run \in RunRows, NewRun(run)
    PROVE  AddsRun(run)
<1>1. runs \in Seq(RunRows) /\ sent \in Seq(Nat)
  BY DEF ValuesOK
<1>2. runs' = Append(runs, run) /\ sent' = Append(sent, 0) /\ Len(runs) < MaxRuns
  BY DEF NewRun
<1>3. /\ runs' \in Seq(RunRows) /\ Len(runs') = Len(runs) + 1 /\ runs'[Len(runs) + 1] = run
      /\ \A r \in 1..Len(runs) : runs'[r] = runs[r]
  BY <1>1, <1>2, AppendProperties
<1>4. /\ sent' \in Seq(Nat) /\ Len(sent') = Len(sent) + 1 /\ sent'[Len(sent) + 1] = 0
      /\ \A r \in 1..Len(sent) : sent'[r] = sent[r]
  BY <1>1, <1>2, AppendProperties
<1> QED BY <1>2, <1>3, <1>4 DEF AddsRun

\* The shape of a page, and of its passes.
LEMMA PageShape ==
    ASSUME ValuesOK, NEW w \in AutoWindows
    PROVE  /\ page[w] \in Pages
           /\ page[w].due # None => page[w].due \in DuePasses
           /\ page[w].inbox # None => page[w].inbox \in InboxPasses
           /\ page[w].queue \in Seq(Nat)
BY DEF ValuesOK, Pages

LEMMA BootedIsPage ==
    ASSUME ValuesOK
    PROVE  /\ Booted \in Pages /\ Closed \in Pages
           /\ PageOK(Booted, Len(runs)) /\ PageOK(Closed, Len(runs))
<1>1. Len(runs) \in Nat
  BY RunsListed
<1>2. <<>> \in Seq(Nat) /\ Members(<<>>) = {} /\ Once(<<>>)
  BY EmptySeq, NoQueue
<1>3. Booted \in Pages /\ Closed \in Pages
  BY <1>1, <1>2 DEF Booted, Closed, Pages
<1>4. ASSUME NEW p \in {Booted, Closed} PROVE PageOK(p, Len(runs))
  <2>1. /\ p.before \in Nat /\ p.before <= Len(runs) /\ p.queue = <<>> /\ p.fresh = {} /\ p.marked = {}
        /\ p.turns = {} /\ p.due = None /\ p.inbox = None
    <3>1. CASE p = Closed
      BY <3>1, <1>1 DEF Closed
    <3>2. CASE p = Booted
      BY <3>2, <1>1 DEF Booted, Closed
    <3> QED BY <3>1, <3>2
  <2>2. Claimed(p) = {} /\ Begun(p) = {} /\ Queue(p) = {} /\ DueBatch(p) = {} /\ InboxBatch(p) = {}
    BY <2>1, <1>2 DEF Claimed, Begun, Queue, DueBatch, InboxBatch
  <2>3. Apart(p) /\ QueueOK(p)
    BY <2>1, <2>2, <1>2 DEF Apart, QueueOK
  <2> QED BY <2>1, <2>2, <2>3 DEF PageOK
<1> QED BY <1>3, <1>4

-----------------------------------------------------------------------------
(* Launching *)

LEMMA MarkDoes ==
    ASSUME ValuesOK, NEW w \in AutoWindows, NEW r \in DOMAIN runs, Mark(w, r)
    PROVE  OnlyPage(w) /\ SameInbox(page[w], page'[w]) /\ Marks(page[w], page'[w], r) /\ SetsStatus(r, "running")
<1>1. page[w] \in Pages /\ DOMAIN runs = 1..Len(runs) /\ r \in Nat
  BY PageShape, RunsListed
<1>2. SetsStatus(r, "running")
  BY UpdateDoes DEF Mark, Statuses
<1>3. OnlyPage(w)
  BY <1>1 DEF ValuesOK, OnlyPage, Mark, Pages
<1>4. /\ page'[w].fresh = page[w].fresh \ {r} /\ page'[w].marked = page[w].marked \cup {r}
      /\ page'[w].turns = page[w].turns /\ page'[w].queue = page[w].queue
      /\ page'[w].recovered = page[w].recovered /\ page'[w].up = page[w].up /\ page'[w].before = page[w].before
      /\ page'[w].due = page[w].due /\ page'[w].inbox = page[w].inbox /\ page'[w].retry = page[w].retry
  BY <1>1 DEF ValuesOK, Mark, Pages
<1>5. r \in MayLaunch(page[w])
  BY DEF Mark, Launchable, MayLaunch
<1>6. Marks(page[w], page'[w], r)
  BY <1>4, <1>5 DEF Marks, SamePage, SameQueue, SameBatches, DueBatch, InboxBatch
<1> QED BY <1>4, <1>2, <1>3, <1>6 DEF SameInbox

\* A run that is not launched leaves the page.
LEMMA DropDoes ==
    ASSUME ValuesOK, NEW w \in AutoWindows, NEW r \in Launchable(w),
           page' = [page EXCEPT ![w] = Went(Taken(@, r), r)]
    PROVE  OnlyPage(w) /\ SameInbox(page[w], page'[w]) /\ Drops(page[w], page'[w], r)
<1> DEFINE p == page[w]  f == Taken(p, r)  q == Went(f, r)
<1>1. p \in Pages /\ p.queue \in Seq(Nat)
  BY PageShape
<1>2. f \in Pages /\ f.queue = p.queue /\ f.fresh = p.fresh \ {r}
  BY <1>1 DEF Pages, Taken, Prompted
<1>3. p.queue # <<>> => Tail(p.queue) \in Seq(Nat)
  BY <1>1, HeadTailProperties
<1>4. q = IF p.queue # <<>> /\ Head(p.queue) = r THEN [f EXCEPT !.queue = Tail(p.queue)] ELSE f
  BY <1>2 DEF Went
<1>5. q \in Pages
  BY <1>2, <1>3, <1>4 DEF Pages
<1>6. page'[w] = q /\ OnlyPage(w)
  <2>1. page' = [page EXCEPT ![w] = q]
    OBVIOUS
  <2> HIDE DEF q
  <2> QED BY <2>1, <1>5 DEF ValuesOK, OnlyPage
<1>7. /\ q.fresh = p.fresh \ {r} /\ q.marked = p.marked /\ q.turns = p.turns
      /\ q.queue = IF p.queue # <<>> /\ Head(p.queue) = r THEN Tail(p.queue) ELSE p.queue
      /\ q.recovered = p.recovered /\ q.up = p.up /\ q.before = p.before /\ q.due = p.due /\ q.inbox = p.inbox /\ q.retry = p.retry
  <2> HIDE DEF q
  <2>1. CASE p.queue # <<>> /\ Head(p.queue) = r
    BY <1>1, <1>4, <2>1 DEF Pages, Taken, Prompted
  <2>2. CASE ~(p.queue # <<>> /\ Head(p.queue) = r)
    BY <1>1, <1>4, <2>2 DEF Pages, Taken, Prompted
  <2> QED BY <2>1, <2>2
<1>8. r \in MayLaunch(p)
  BY DEF Launchable, MayLaunch
<1>9. Drops(p, q, r)
  <2> HIDE DEF q
  <2> QED BY <1>7, <1>8 DEF Drops, SamePage, GoesOn, SameBatches, SameBegun, DueBatch, InboxBatch
<1> QED BY <1>7, <1>6, <1>9 DEF SameInbox

LEMMA SubmitDoes ==
    ASSUME ValuesOK, NEW w \in AutoWindows, NEW r \in DOMAIN runs, Submit(w, r)
    PROVE  OnlyPage(w) /\ SameInbox(page[w], page'[w]) /\ Submits(page[w], page'[w], r)
<1> DEFINE p == page[w]  f == Prompted(p, r)  q == Went(f, r)
<1>1. p \in Pages /\ p.queue \in Seq(Nat) /\ r \in Nat
  BY PageShape, RunsListed
<1>2. f \in Pages /\ f.queue = p.queue /\ f.marked = p.marked \ {r} /\ f.turns = p.turns \cup {r}
  BY <1>1 DEF Pages, Taken, Prompted
<1>3. p.queue # <<>> => Tail(p.queue) \in Seq(Nat)
  BY <1>1, HeadTailProperties
<1>4. q = IF p.queue # <<>> /\ Head(p.queue) = r THEN [f EXCEPT !.queue = Tail(p.queue)] ELSE f
  BY <1>2 DEF Went
<1>5. q \in Pages
  BY <1>2, <1>3, <1>4 DEF Pages
<1>6. page'[w] = q /\ OnlyPage(w)
  <2>1. page' = [page EXCEPT ![w] = q]
    BY DEF Submit
  <2> HIDE DEF q
  <2> QED BY <2>1, <1>5 DEF ValuesOK, OnlyPage
<1>7. /\ q.fresh = p.fresh /\ q.marked = p.marked \ {r} /\ q.turns = p.turns \cup {r}
      /\ q.queue = IF p.queue # <<>> /\ Head(p.queue) = r THEN Tail(p.queue) ELSE p.queue
      /\ q.recovered = p.recovered /\ q.up = p.up /\ q.before = p.before /\ q.due = p.due /\ q.inbox = p.inbox /\ q.retry = p.retry
  <2> HIDE DEF q
  <2>1. CASE p.queue # <<>> /\ Head(p.queue) = r
    BY <1>1, <1>4, <2>1 DEF Pages, Taken, Prompted
  <2>2. CASE ~(p.queue # <<>> /\ Head(p.queue) = r)
    BY <1>1, <1>4, <2>2 DEF Pages, Taken, Prompted
  <2> QED BY <2>1, <2>2
<1>8. r \in p.marked
  BY DEF Submit
<1>9. Submits(p, q, r)
  <2> HIDE DEF q
  <2> QED BY <1>7, <1>8 DEF Submits, SamePage, GoesOn, SameBatches, SameBegun, DueBatch, InboxBatch
<1> QED BY <1>7, <1>6, <1>9 DEF SameInbox

LEMMA EndDoes ==
    ASSUME ValuesOK, NEW w \in AutoWindows, NEW r \in page[w].turns,
           page' = [page EXCEPT ![w].turns = @ \ {r}]
    PROVE  OnlyPage(w) /\ SameInbox(page[w], page'[w]) /\ Ends(page[w], page'[w], r)
<1>1. page[w] \in Pages
  BY PageShape
<1>2. OnlyPage(w)
  BY <1>1 DEF ValuesOK, OnlyPage, Pages
<1>3. /\ page'[w].fresh = page[w].fresh /\ page'[w].marked = page[w].marked
      /\ page'[w].turns = page[w].turns \ {r} /\ page'[w].queue = page[w].queue
      /\ page'[w].recovered = page[w].recovered /\ page'[w].up = page[w].up /\ page'[w].before = page[w].before
      /\ page'[w].due = page[w].due /\ page'[w].inbox = page[w].inbox /\ page'[w].retry = page[w].retry
  BY <1>1 DEF ValuesOK, Pages
<1> QED BY <1>2, <1>3 DEF Ends, SamePage, SameQueue, SameBatches, DueBatch, InboxBatch, SameInbox

-----------------------------------------------------------------------------
(* Recovery *)

LEMMA RecoverDoes ==
    ASSUME TInv, NEW w \in AutoWindows, Recover(w)
    PROVE  /\ OnlyPage(w) /\ SameInbox(page[w], page'[w]) /\ SetStatuses(Interrupted(w), "over") /\ page[w].up
           /\ Recovers(page[w], page'[w], Pending(w)) /\ Pending(w) \subseteq 1..page[w].before
<1> DEFINE p == page[w]
<1>1. ValuesOK /\ p \in Pages /\ p.before \in Nat /\ Len(runs) \in Nat /\ PageOK(p, Len(runs))
  BY PageShape, RunsListed DEF TInv, Pages
<1>2. Pending(w) \subseteq 1..p.before /\ Pending(w) \subseteq Nat
  BY <1>1 DEF Pending
<1>3. IsFiniteSet(Pending(w))
  <2>1. IsFiniteSet(1..p.before)
    BY <1>1, FS_Interval
  <2> QED BY <2>1, <1>2, FS_Subset
<1>40. PICK s : s = InOrder(Pending(w))
  OBVIOUS
<1>4. s \in Seq(Nat) /\ Members(s) = Pending(w) /\ Once(s)
  <2>1. s \in Seq(Pending(w)) /\ Members(s) = Pending(w) /\ Once(s)
    BY <1>2, <1>3, <1>40, InOrderOK
  <2>2. s \in Seq(Nat)
    BY <2>1, <1>2, SeqMonotonic
  <2> QED BY <2>1, <2>2
<1>5. SetStatuses(Interrupted(w), "over")
  BY <1>1, RestateDoes DEF Recover, Statuses, Over
<1>6. page' = [page EXCEPT ![w].recovered = TRUE, ![w].queue = s] /\ p.up /\ ~p.recovered
  BY <1>40 DEF Recover
<1>7. OnlyPage(w)
  BY <1>1, <1>4, <1>6 DEF ValuesOK, OnlyPage, Pages
<1>8. /\ page'[w].fresh = p.fresh /\ page'[w].marked = p.marked /\ page'[w].turns = p.turns
      /\ page'[w].queue = s /\ page'[w].recovered /\ page'[w].up = p.up /\ page'[w].before = p.before
      /\ page'[w].due = p.due /\ page'[w].inbox = p.inbox /\ page'[w].retry = p.retry
  BY <1>1, <1>6 DEF ValuesOK, Pages
<1>9. Recovers(p, page'[w], Pending(w))
  <2>1. SameBatches(p, page'[w]) /\ SamePage(p, page'[w]) /\ SameBegun(p, page'[w])
    BY <1>8 DEF SamePage, SameBatches, SameBegun, DueBatch, InboxBatch
  <2>2. Members(page'[w].queue) = Pending(w) /\ Once(page'[w].queue)
    BY <1>4, <1>8
  <2> QED BY <2>1, <2>2, <1>6, <1>8 DEF Recovers
<1> QED BY <1>8, <1>2, <1>5, <1>6, <1>7, <1>9 DEF SameInbox

LEMMA RecoverFailsDoes ==
    ASSUME ValuesOK, NEW w \in AutoWindows, RecoverFails(w)
    PROVE  OnlyPage(w) /\ SameInbox(page[w], page'[w]) /\ Idles(page[w], page'[w])
<1>1. page[w] \in Pages
  BY PageShape
<1>2. OnlyPage(w)
  BY <1>1 DEF ValuesOK, OnlyPage, RecoverFails, Pages
<1>3. /\ page'[w].fresh = page[w].fresh /\ page'[w].marked = page[w].marked
      /\ page'[w].turns = page[w].turns /\ page'[w].queue = page[w].queue
      /\ page'[w].recovered = page[w].recovered /\ page'[w].up = page[w].up /\ page'[w].before = page[w].before
      /\ page'[w].due = page[w].due /\ page'[w].inbox = page[w].inbox /\ page'[w].retry = page[w].retry
  BY <1>1 DEF ValuesOK, RecoverFails, Pages
<1> QED BY <1>2, <1>3 DEF Idles, SamePage, SameQueue, SameBegun, SameBatches, DueBatch, InboxBatch, SameInbox

-----------------------------------------------------------------------------
(* Passes *)

\* Pages that differ in nothing a run depends on.
LEMMA SameRuns ==
    ASSUME NEW p, NEW q,
           q.fresh = p.fresh, q.marked = p.marked, q.turns = p.turns, q.queue = p.queue,
           q.recovered = p.recovered, q.up = p.up, q.before = p.before,
           DueBatch(q) = DueBatch(p), InboxBatch(q) = InboxBatch(p)
    PROVE  Idles(p, q)
BY DEF Idles, SamePage, SameQueue, SameBegun, SameBatches

LEMMA StartPassDoes ==
    ASSUME ValuesOK, NEW w \in AutoWindows, NEW a \in Autos, StartPass(w, a)
    PROVE  OnlyPage(w) /\ SameInbox(page[w], page'[w]) /\ Idles(page[w], page'[w])
<1> DEFINE p == page[w]
           d == [auto |-> a, expected |-> autos[a].next, at |-> now, batch |-> {}]
<1>1. p \in Pages /\ p.due = None
  BY PageShape DEF StartPass
<1>2. d \in DuePasses /\ d # None /\ d.batch = {}
  <2>1. autos[a].next \in Nat
    BY AutomationsAssumption DEF ValuesOK, AutoRows
  <2> QED BY <2>1, PassesAssumption DEF DuePasses, ValuesOK
<1>3. page' = [page EXCEPT ![w].due = d]
  BY DEF StartPass
<1> HIDE DEF d
<1>4. OnlyPage(w)
  BY <1>1, <1>2, <1>3 DEF ValuesOK, OnlyPage, Pages
<1>5. /\ page'[w].fresh = p.fresh /\ page'[w].marked = p.marked /\ page'[w].turns = p.turns
      /\ page'[w].queue = p.queue /\ page'[w].recovered = p.recovered /\ page'[w].up = p.up
      /\ page'[w].before = p.before /\ page'[w].due = d /\ page'[w].inbox = p.inbox /\ page'[w].retry = p.retry
  BY <1>1, <1>3 DEF ValuesOK, Pages
<1>6. DueBatch(page'[w]) = DueBatch(p) /\ InboxBatch(page'[w]) = InboxBatch(p)
  BY <1>1, <1>2, <1>5 DEF DueBatch, InboxBatch
<1> QED BY <1>4, <1>5, <1>6, SameRuns DEF SameInbox

\* The run is late, or it waits in the batch of the pass.
LEMMA ClaimDueDoes ==
    ASSUME ValuesOK, NEW w \in AutoWindows, ClaimDue(w)
    PROVE  /\ OnlyPage(w) /\ SameInbox(page[w], page'[w]) /\ page[w].up /\ page[w].due # None /\ page[w].due \in DuePasses
           /\ page[w].due.expected \in 0..MaxTime
           /\ \E status \in {"pending", "over"} :
                  /\ AddsRun(Run(page[w].due.auto, "scheduled", page[w].due.expected, status))
                  /\ status = "pending" => Gains(page[w], page'[w], Len(runs) + 1)
                  /\ status = "over" => Idles(page[w], page'[w])
<1> DEFINE p == page[w]  pass == p.due  t == pass.expected
           status == IF pass.at - t <= Grace THEN "pending" ELSE "over"
           run == Run(pass.auto, "scheduled", t, status)
           batch == IF status = "pending" THEN pass.batch \cup {Len(runs) + 1} ELSE pass.batch
           d == [auto |-> pass.auto, expected |-> t + 1, at |-> pass.at, batch |-> batch]
<1>1. p \in Pages /\ p.up /\ pass # None /\ pass \in DuePasses /\ Len(runs) \in Nat
  BY PageShape, RunsListed DEF ClaimDue
<1>2. t \in Nat /\ t <= pass.at /\ pass.at \in 0..MaxTime /\ pass.auto \in Autos /\ pass.batch \in SUBSET Nat
  BY <1>1 DEF ClaimDue, DuePasses
<1>3. t \in 0..MaxTime
  BY <1>2, AutomationsAssumption
<1>4. status \in {"pending", "over"}
  OBVIOUS
<1>5. run \in RunRows
  <2> HIDE DEF status
  <2> QED BY <1>2, <1>4 DEF Run, RunRows, Statuses, Over
<1>6. NewRun(run) /\ page' = [page EXCEPT ![w].due = d]
  <2>1. run.status = status
    <3> HIDE DEF status, t
    <3> QED BY DEF Run
  <2>2. NewRun(run)
    BY DEF ClaimDue
  <2>3. page' = [page EXCEPT ![w].due =
              [auto |-> pass.auto, expected |-> t + 1, at |-> pass.at,
               batch |-> IF run.status = "pending" THEN pass.batch \cup {Len(runs) + 1} ELSE pass.batch]]
    BY DEF ClaimDue
  <2> HIDE DEF run, status, t, pass
  <2> QED BY <2>1, <2>2, <2>3
<1> HIDE DEF run, status
<1>7. AddsRun(run)
  BY <1>5, <1>6, NewRunDoes
<1>8. batch \in SUBSET Nat
  <2>1. pass.batch \cup {Len(runs) + 1} \in SUBSET Nat
    BY <1>1, <1>2
  <2> QED BY <1>2, <2>1
<1> HIDE DEF batch
<1>9. d \in DuePasses /\ d # None /\ d.batch = batch
  <2>1. t + 1 \in Nat
    BY <1>2
  <2> HIDE DEF t
  <2>2. d \in DuePasses
    BY <1>2, <1>8, <2>1 DEF DuePasses
  <2> QED BY <2>2, PassesAssumption
<1> HIDE DEF d
<1>10. OnlyPage(w)
  BY <1>1, <1>6, <1>9 DEF ValuesOK, OnlyPage, Pages
<1>11. /\ page'[w].fresh = p.fresh /\ page'[w].marked = p.marked /\ page'[w].turns = p.turns
       /\ page'[w].queue = p.queue /\ page'[w].recovered = p.recovered /\ page'[w].up = p.up
       /\ page'[w].before = p.before /\ page'[w].due = d /\ page'[w].inbox = p.inbox /\ page'[w].retry = p.retry
  BY <1>1, <1>6 DEF ValuesOK, Pages
<1>12. DueBatch(page'[w]) = batch /\ DueBatch(p) = pass.batch /\ InboxBatch(page'[w]) = InboxBatch(p)
  BY <1>1, <1>9, <1>11 DEF DueBatch, InboxBatch
<1>13. status = "pending" => Gains(p, page'[w], Len(runs) + 1)
  <2> SUFFICES ASSUME status = "pending" PROVE Gains(p, page'[w], Len(runs) + 1)
    OBVIOUS
  <2>1. batch = pass.batch \cup {Len(runs) + 1}
    BY DEF batch
  <2> QED BY <2>1, <1>11, <1>12 DEF Gains, SamePage, SameQueue, SameBegun
<1>14. status = "over" => Idles(p, page'[w])
  <2> SUFFICES ASSUME status = "over" PROVE Idles(p, page'[w])
    OBVIOUS
  <2>1. batch = pass.batch
    BY DEF batch
  <2> QED BY <2>1, <1>11, <1>12, SameRuns
<1> QED BY <1>11, <1>1, <1>3, <1>4, <1>7, <1>10, <1>13, <1>14 DEF run, SameInbox

LEMMA EndPassDoes ==
    ASSUME ValuesOK, NEW w \in AutoWindows, EndPass(w)
    PROVE  OnlyPage(w) /\ SameInbox(page[w], page'[w]) /\ HandsOver(page[w], page'[w])
<1> DEFINE p == page[w]
<1>1. p \in Pages /\ p.due # None /\ p.due \in DuePasses
  BY PageShape DEF EndPass
<1>2. page' = [page EXCEPT ![w].due = None, ![w].fresh = @ \cup p.due.batch] /\ p.due.batch \in SUBSET Nat
  BY <1>1 DEF EndPass, DuePasses
<1>3. OnlyPage(w)
  BY <1>1, <1>2 DEF ValuesOK, OnlyPage, Pages
<1>4. /\ page'[w].fresh = p.fresh \cup p.due.batch /\ page'[w].marked = p.marked /\ page'[w].turns = p.turns
      /\ page'[w].queue = p.queue /\ page'[w].recovered = p.recovered /\ page'[w].up = p.up
      /\ page'[w].before = p.before /\ page'[w].due = None /\ page'[w].inbox = p.inbox /\ page'[w].retry = p.retry
  BY <1>1, <1>2 DEF ValuesOK, Pages
<1>5. DueBatch(page'[w]) = {} /\ DueBatch(p) = p.due.batch /\ InboxBatch(page'[w]) = InboxBatch(p)
  BY <1>1, <1>4 DEF DueBatch, InboxBatch
<1> QED BY <1>3, <1>4, <1>5 DEF HandsOver, SamePage, SameQueue, SameBegun, SameInbox

LEMMA PollDoes ==
    ASSUME ValuesOK, NEW w \in AutoWindows, NEW found \in SUBSET Items, Poll(w, found)
    PROVE  OnlyPage(w) /\ SameInbox(page[w], page'[w]) /\ Idles(page[w], page'[w])
<1>1. page[w] \in Pages
  BY PageShape
<1>2. OnlyPage(w)
  BY <1>1 DEF ValuesOK, OnlyPage, Poll, Pages
<1>3. /\ page'[w].fresh = page[w].fresh /\ page'[w].marked = page[w].marked
      /\ page'[w].turns = page[w].turns /\ page'[w].queue = page[w].queue
      /\ page'[w].recovered = page[w].recovered /\ page'[w].up = page[w].up /\ page'[w].before = page[w].before
      /\ page'[w].due = page[w].due /\ page'[w].inbox = page[w].inbox /\ page'[w].retry = page[w].retry
  BY <1>1 DEF ValuesOK, Poll, Pages
<1>4. DueBatch(page'[w]) = DueBatch(page[w]) /\ InboxBatch(page'[w]) = InboxBatch(page[w])
  BY <1>3 DEF DueBatch, InboxBatch
<1> QED BY <1>2, <1>3, <1>4, SameRuns DEF SameInbox

LEMMA ClaimAppearedDoes ==
    ASSUME ValuesOK, NEW w \in AutoWindows, ClaimAppeared(w)
    PROVE  /\ OnlyPage(w) /\ Idles(page[w], page'[w]) /\ Queued(page[w]) \subseteq Items
           /\ page'[w].retry = Queued(page[w])
           /\ page'[w].inbox =
                  [todo |-> {a \in Autos : autos[a].there /\ autos[a].enabled} \X Queued(page[w]),
                   items |-> Queued(page[w]), failed |-> {}, batch |-> {}]
           /\ page'[w].inbox # None
<1> DEFINE p == page[w]  k == Queued(p)
           d == [todo |-> {a \in Autos : autos[a].there /\ autos[a].enabled} \X k,
                 items |-> k, failed |-> {}, batch |-> {}]
<1>1. p \in Pages /\ p.inbox = None
  BY PageShape DEF ClaimAppeared
<1>2. k \subseteq Items
  BY <1>1 DEF Queued, Pages, ValuesOK
<1>3. page' = [page EXCEPT ![w] = [p EXCEPT !.retry = k, !.waiting = {}, !.inbox = d]]
  BY DEF ClaimAppeared, StartInbox
<1> HIDE DEF k
<1>4. d \in InboxPasses /\ d # None /\ d.batch = {}
  <2>1. {a \in Autos : autos[a].there /\ autos[a].enabled} \X k \in SUBSET (Autos \X Items)
    BY <1>2
  <2> QED BY <1>2, <2>1, PassesAssumption DEF InboxPasses
<1> HIDE DEF d
<1>5. OnlyPage(w)
  BY <1>1, <1>2, <1>3, <1>4 DEF ValuesOK, OnlyPage, Pages
<1>6. /\ page'[w].fresh = p.fresh /\ page'[w].marked = p.marked /\ page'[w].turns = p.turns
      /\ page'[w].queue = p.queue /\ page'[w].recovered = p.recovered /\ page'[w].up = p.up
      /\ page'[w].before = p.before /\ page'[w].due = p.due /\ page'[w].inbox = d /\ page'[w].retry = k
  BY <1>1, <1>3 DEF ValuesOK, Pages
<1>7. DueBatch(page'[w]) = DueBatch(p) /\ InboxBatch(page'[w]) = InboxBatch(p)
  BY <1>1, <1>4, <1>6 DEF DueBatch, InboxBatch
<1>8. Idles(p, page'[w])
  BY <1>6, <1>7, SameRuns
<1> QED BY <1>2, <1>4, <1>5, <1>6, <1>8 DEF d, k

\* One claim of an inbox pass was tried.
Tries(p, q, m, failed, batch) ==
    /\ q.retry = p.retry /\ q.inbox # None /\ q.inbox.items = p.inbox.items
    /\ q.inbox.todo = p.inbox.todo \ {m} /\ q.inbox.failed = p.inbox.failed \cup failed
    /\ q.inbox.batch = p.inbox.batch \cup batch

LEMMA TriedDoes ==
    ASSUME ValuesOK, NEW w \in AutoWindows, NEW m, NEW failed \in SUBSET Items, NEW batch \in SUBSET Nat,
           page[w].inbox # None, page' = [page EXCEPT ![w] = Tried(@, m, failed, batch)]
    PROVE  /\ OnlyPage(w) /\ Tries(page[w], page'[w], m, failed, batch)
           /\ batch = {} => Idles(page[w], page'[w])
           /\ \A r : batch = {r} => Gains(page[w], page'[w], r)
<1> DEFINE p == page[w]  q == Tried(p, m, failed, batch)
           d == [todo |-> p.inbox.todo \ {m}, items |-> p.inbox.items,
                 failed |-> p.inbox.failed \cup failed, batch |-> p.inbox.batch \cup batch]
<1>1. p \in Pages /\ p.inbox \in InboxPasses
  BY PageShape
<1>2. d \in InboxPasses /\ d # None
  <2>1. /\ p.inbox.todo \ {m} \in SUBSET (Autos \X Items) /\ p.inbox.items \in SUBSET Items
        /\ p.inbox.failed \cup failed \in SUBSET Items /\ p.inbox.batch \cup batch \in SUBSET Nat
    BY <1>1 DEF InboxPasses
  <2>2. d \in InboxPasses
    BY <2>1 DEF InboxPasses
  <2> QED BY <2>2, PassesAssumption
<1>3. /\ d.todo = p.inbox.todo \ {m} /\ d.failed = p.inbox.failed \cup failed
      /\ d.batch = p.inbox.batch \cup batch /\ d.items = p.inbox.items
  BY <1>1 DEF InboxPasses
<1>4. q = [p EXCEPT !.inbox = d]
  BY <1>1 DEF Tried, Pages, InboxPasses
<1> HIDE DEF d
<1>5. q \in Pages
  BY <1>1, <1>2, <1>4 DEF Pages
<1>6. page'[w] = q /\ OnlyPage(w)
  <2>1. page' = [page EXCEPT ![w] = q]
    OBVIOUS
  <2> HIDE DEF q
  <2> QED BY <2>1, <1>5 DEF ValuesOK, OnlyPage
<1>7. /\ q.fresh = p.fresh /\ q.marked = p.marked /\ q.turns = p.turns
      /\ q.queue = p.queue /\ q.recovered = p.recovered /\ q.up = p.up
      /\ q.before = p.before /\ q.due = p.due /\ q.inbox = d /\ q.retry = p.retry
  <2> HIDE DEF q
  <2> QED BY <1>1, <1>4 DEF Pages
<1>8. DueBatch(q) = DueBatch(p) /\ InboxBatch(q) = InboxBatch(p) \cup batch
  <2> HIDE DEF q
  <2> QED BY <1>1, <1>2, <1>3, <1>7 DEF DueBatch, InboxBatch
<1> HIDE DEF q
<1>9. batch = {} => Idles(p, q)
  <2> SUFFICES ASSUME batch = {} PROVE Idles(p, q)
    OBVIOUS
  <2>1. InboxBatch(q) = InboxBatch(p)
    BY <1>8
  <2> QED BY <2>1, <1>7, <1>8, SameRuns
<1>10. \A r : batch = {r} => Gains(p, q, r)
  BY <1>7, <1>8 DEF Gains, SamePage, SameQueue, SameBegun
<1>11. Tries(p, q, m, failed, batch)
  BY <1>2, <1>3, <1>7 DEF Tries
<1> QED BY <1>6, <1>9, <1>10, <1>11

\* A claim that gets no run.
LEMMA TriedIdles ==
    ASSUME ValuesOK, NEW w \in AutoWindows, NEW m, NEW failed \in SUBSET Items,
           page[w].inbox # None, page' = [page EXCEPT ![w] = Tried(@, m, failed, {})]
    PROVE  OnlyPage(w) /\ Tries(page[w], page'[w], m, failed, {}) /\ Idles(page[w], page'[w])
<1>1. PICK none \in SUBSET Nat : none = {}
  OBVIOUS
<1>2. page' = [page EXCEPT ![w] = Tried(@, m, failed, none)]
  BY <1>1
<1>3. OnlyPage(w) /\ Tries(page[w], page'[w], m, failed, none) /\ (none = {} => Idles(page[w], page'[w]))
  BY <1>2, TriedDoes
<1> QED BY <1>1, <1>3

LEMMA EndInboxDoes ==
    ASSUME ValuesOK, NEW w \in AutoWindows, RetryOK(page[w]), EndInbox(w)
    PROVE  /\ OnlyPage(w) /\ HandsOver(page[w], page'[w])
           /\ page'[w].retry = Retained(page[w]) /\ page'[w].inbox = None
<1> DEFINE p == page[w]
<1>1. p \in Pages /\ p.inbox # None /\ p.inbox \in InboxPasses
  BY PageShape DEF EndInbox
<1>2. /\ page' = [page EXCEPT ![w].retry = Retained(p), ![w].inbox = None, ![w].fresh = @ \cup p.inbox.batch]
      /\ p.inbox.batch \in SUBSET Nat /\ stored' = Retained(p)
  BY <1>1 DEF EndInbox, InboxPasses
<1>3. Retained(p) \subseteq Items
  BY <1>1 DEF Retained, RetryOK
<1>4. OnlyPage(w)
  BY <1>1, <1>2, <1>3 DEF ValuesOK, OnlyPage, Pages
<1>5. /\ page'[w].fresh = p.fresh \cup p.inbox.batch /\ page'[w].marked = p.marked /\ page'[w].turns = p.turns
      /\ page'[w].queue = p.queue /\ page'[w].recovered = p.recovered /\ page'[w].up = p.up
      /\ page'[w].before = p.before /\ page'[w].due = p.due /\ page'[w].inbox = None
      /\ page'[w].retry = Retained(p)
  BY <1>1, <1>2 DEF ValuesOK, Pages
<1>6. InboxBatch(page'[w]) = {} /\ InboxBatch(p) = p.inbox.batch /\ DueBatch(page'[w]) = DueBatch(p)
  BY <1>1, <1>5 DEF DueBatch, InboxBatch
<1>7. HandsOver(p, page'[w])
  BY <1>5, <1>6 DEF HandsOver, SamePage, SameQueue, SameBegun
<1> QED BY <1>4, <1>5, <1>7

-----------------------------------------------------------------------------
(* The user and the app *)

LEMMA RunNowDoes ==
    ASSUME ValuesOK, NEW w \in AutoWindows, NEW a \in Autos, RunNow(w, a)
    PROVE  /\ OnlyPage(w) /\ SameInbox(page[w], page'[w]) /\ Gains(page[w], page'[w], Len(runs) + 1)
           /\ AddsRun(Run(a, "manual", now, "pending"))
<1> DEFINE p == page[w]  run == Run(a, "manual", now, "pending")
<1>1. p \in Pages /\ Len(runs) \in Nat
  BY PageShape, RunsListed
<1>2. run \in RunRows
  BY AutomationsAssumption DEF Run, RunRows, Statuses, ValuesOK
<1>3. AddsRun(run)
  BY <1>2, NewRunDoes DEF RunNow
<1>4. page' = [page EXCEPT ![w].fresh = @ \cup {Len(runs) + 1}]
  BY DEF RunNow
<1> PICK new : new = p.fresh \cup {Len(runs) + 1}
  OBVIOUS
<1>5. OnlyPage(w)
  <2>1. new \in SUBSET Nat /\ page' = [page EXCEPT ![w].fresh = new]
    BY <1>1, <1>4 DEF Pages
  <2> QED BY <1>1, <2>1 DEF ValuesOK, OnlyPage, Pages
<1>6. /\ page'[w].fresh = p.fresh \cup {Len(runs) + 1} /\ page'[w].marked = p.marked /\ page'[w].turns = p.turns
      /\ page'[w].queue = p.queue /\ page'[w].recovered = p.recovered /\ page'[w].up = p.up
      /\ page'[w].before = p.before /\ page'[w].due = p.due /\ page'[w].inbox = p.inbox /\ page'[w].retry = p.retry
  BY <1>1, <1>4 DEF ValuesOK, Pages
<1>7. DueBatch(page'[w]) = DueBatch(p) /\ InboxBatch(page'[w]) = InboxBatch(p)
  BY <1>6 DEF DueBatch, InboxBatch
<1> QED BY <1>3, <1>5, <1>6, <1>7 DEF Gains, SamePage, SameQueue, SameBegun, SameBatches, SameInbox

LEMMA OpenWindowDoes ==
    ASSUME ValuesOK, NEW w \in AutoWindows, OpenWindow(w)
    PROVE  OnlyPage(w) /\ page'[w] = Booted
BY BootedIsPage DEF ValuesOK, OnlyPage, OpenWindow

LEMMA RestartDoes ==
    ASSUME ValuesOK, NEW w \in AutoWindows, Restart(w)
    PROVE  /\ page' \in [AutoWindows -> Pages] /\ page'[w] = Booted
           /\ \A v \in AutoWindows \ {w} : page'[v] = Closed
BY BootedIsPage DEF Restart

LEMMA DeleteDoes ==
    ASSUME ValuesOK, NEW a \in Autos, Delete(a)
    PROVE  /\ \E set : SetStatuses(set, "deleted") /\ \A r \in 1..Len(runs) : r \in set <=> runs[r].auto = a
           /\ autos' = [autos EXCEPT ![a].there = FALSE] /\ autos' \in [Autos -> AutoRows]
           /\ claims' = {c \in claims : c[1] # a} /\ edited' = edited \cup {a}
<1> DEFINE set == {r \in DOMAIN runs : runs[r].auto = a}
<1>1. DOMAIN runs = 1..Len(runs)
  BY RunsListed
<1>2. runs' = [r \in DOMAIN runs |-> IF r \in set THEN [runs[r] EXCEPT !.status = "deleted"] ELSE runs[r]]
  BY DEF Delete
<1>3. \A r \in 1..Len(runs) : r \in set <=> runs[r].auto = a
  BY <1>1
<1> HIDE DEF set
<1>4. SetStatuses(set, "deleted")
  BY <1>2, RestateDoes DEF Statuses, Over
<1>5. autos' = [autos EXCEPT ![a].there = FALSE] /\ autos' \in [Autos -> AutoRows]
  BY DEF Delete, ValuesOK, AutoRows
<1> QED BY <1>3, <1>4, <1>5 DEF Delete

-----------------------------------------------------------------------------
(* Types *)

\* Only one page has changed, and it is all right.
LEMMA PagesKept ==
    ASSUME TInv, NEW w \in AutoWindows, OnlyPage(w), Len(runs') \in Nat, Len(runs) <= Len(runs'),
           PageOK(page'[w], Len(runs')), RetryOK(page'[w])
    PROVE  \A v \in AutoWindows : PageOK(page'[v], Len(runs')) /\ RetryOK(page'[v])
<1>1. Len(runs) \in Nat /\ \A v \in AutoWindows : page[v] \in Pages
  BY RunsListed, PageShape DEF TInv
<1>2. ASSUME NEW v \in AutoWindows, v # w PROVE PageOK(page'[v], Len(runs')) /\ RetryOK(page'[v])
  <2>1. page'[v] = page[v] /\ page[v] \in Pages /\ PageOK(page[v], Len(runs)) /\ RetryOK(page[v])
    BY <1>1, <1>2 DEF OnlyPage, TInv
  <2> QED BY <1>1, <2>1, PageGrows
<1> QED BY <1>2

\* A step that leaves the runs.
LEMMA SameRows ==
    ASSUME ValuesOK, runs' = runs, sent' = sent
    PROVE  /\ runs' \in Seq(RunRows) /\ sent' \in Seq(Nat) /\ Len(sent') = Len(runs') /\ Len(runs') <= MaxRuns
           /\ Len(runs') = Len(runs) /\ Len(runs) \in Nat
BY RunsListed DEF ValuesOK

LEMMA StatusRows ==
    ASSUME ValuesOK, runs' \in Seq(RunRows), Len(runs') = Len(runs), sent' = sent
    PROVE  /\ runs' \in Seq(RunRows) /\ sent' \in Seq(Nat) /\ Len(sent') = Len(runs') /\ Len(runs') <= MaxRuns
           /\ Len(runs') = Len(runs) /\ Len(runs) \in Nat
BY RunsListed DEF ValuesOK

LEMMA NewRows ==
    ASSUME ValuesOK, NEW run, AddsRun(run)
    PROVE  /\ runs' \in Seq(RunRows) /\ sent' \in Seq(Nat) /\ Len(sent') = Len(runs') /\ Len(runs') <= MaxRuns
           /\ Len(runs') = Len(runs) + 1 /\ Len(runs) \in Nat
BY RunsListed, AutomationsAssumption DEF ValuesOK, AddsRun

\* A pass over the inbox is left alone.
LEMMA InboxKept ==
    ASSUME TInv, NEW w \in AutoWindows, SameInbox(page[w], page'[w])
    PROVE  RetryOK(page'[w])
BY DEF TInv, RetryOK, SameInbox

LEMMA TypesInit == AutomationsInit => TInv
<1> SUFFICES ASSUME AutomationsInit PROVE TInv
  OBVIOUS
<1>1. /\ runs = <<>> /\ sent = <<>> /\ Len(runs) = 0 /\ Len(sent) = 0 /\ runs \in Seq(RunRows) /\ sent \in Seq(Nat)
  BY EmptySeq DEF AutomationsInit
<1>2. <<>> \in Seq(Nat) /\ Members(<<>>) = {} /\ Once(<<>>)
  BY EmptySeq, NoQueue
<1>3. Booted \in Pages /\ Closed \in Pages
  BY <1>1, <1>2 DEF Booted, Closed, Pages
<1>4. PageOK(Booted, Len(runs)) /\ PageOK(Closed, Len(runs)) /\ RetryOK(Booted) /\ RetryOK(Closed)
  <2>0. SUFFICES ASSUME NEW p \in {Booted, Closed} PROVE PageOK(p, Len(runs)) /\ RetryOK(p)
    OBVIOUS
  <2>1. /\ p.before = 0 /\ p.queue = <<>> /\ p.fresh = {} /\ p.marked = {}
        /\ p.turns = {} /\ p.due = None /\ p.inbox = None
    <3>1. CASE p = Closed
      BY <3>1 DEF Closed
    <3>2. CASE p = Booted
      BY <3>2, <1>1 DEF Booted, Closed
    <3> QED BY <2>0, <3>1, <3>2
  <2>2. Claimed(p) = {} /\ Begun(p) = {} /\ Queue(p) = {} /\ DueBatch(p) = {} /\ InboxBatch(p) = {}
    BY <2>1, <1>2 DEF Claimed, Begun, Queue, DueBatch, InboxBatch
  <2>3. Apart(p) /\ QueueOK(p)
    BY <2>1, <2>2, <1>2 DEF Apart, QueueOK
  <2> QED BY <2>1, <2>2, <2>3, <1>1 DEF PageOK, RetryOK
<1>5. PICK w \in AutoWindows : page = [x \in AutoWindows |-> IF x = w THEN Booted ELSE Closed]
  BY DEF AutomationsInit
<1>6. page \in [AutoWindows -> Pages] /\ \A v \in AutoWindows : PageOK(page[v], Len(runs)) /\ RetryOK(page[v])
  BY <1>3, <1>4, <1>5
<1>7. now \in 0..MaxTime /\ autos \in [Autos -> AutoRows] /\ Len(runs) <= MaxRuns
  BY <1>1, AutomationsAssumption DEF AutomationsInit, AutoRows
<1>8. claims = {} /\ stored = {} /\ kept = {} /\ edit = None /\ edited = {} /\ crowded = FALSE
  BY DEF AutomationsInit
<1> QED BY <1>1, <1>6, <1>7, <1>8 DEF TInv, ValuesOK

\* A step that takes one page on and leaves the rest of the state typed.
LEMMA TypesKept ==
    ASSUME TInv, NEW w \in AutoWindows, OnlyPage(w),
           runs' \in Seq(RunRows), sent' \in Seq(Nat), Len(sent') = Len(runs'), Len(runs') <= MaxRuns,
           Len(runs') \in Nat, Len(runs) <= Len(runs'),
           PageOK(page'[w], Len(runs')), RetryOK(page'[w]),
           now' = now, autos' \in [Autos -> AutoRows], claims' \subseteq Autos \X Items, stored' \subseteq Items,
           kept' \subseteq Items, edit' = edit, edited' = edited, crowded' \in BOOLEAN
    PROVE  TInv'
<1>1. \A v \in AutoWindows : PageOK(page'[v], Len(runs')) /\ RetryOK(page'[v])
  BY PagesKept
<1>2. page' \in [AutoWindows -> Pages]
  BY DEF OnlyPage
<1> QED BY <1>1, <1>2 DEF TInv, ValuesOK

LEMMA TypesNext ==
    ASSUME TInv, [AutomationsNext]_autoVars
    PROVE  TInv'
<1>0. ValuesOK /\ Len(runs) \in Nat
  BY RunsListed DEF TInv
<1>1. /\ autos \in [Autos -> AutoRows] /\ claims \subseteq Autos \X Items /\ stored \subseteq Items
      /\ kept \subseteq Items /\ crowded \in BOOLEAN
  BY <1>0 DEF ValuesOK
<1>2. \A w \in AutoWindows : page[w] \in Pages /\ PageOK(page[w], Len(runs)) /\ RetryOK(page[w])
  BY <1>0, PageShape DEF TInv
<1>3. CASE UNCHANGED autoVars
  BY <1>3 DEF TInv, ValuesOK, autoVars, autoStore, autoPast
<1>4. CASE Tick
  BY <1>4, AutomationsAssumption DEF Tick, TInv, ValuesOK, autoStore, autoPast
<1>5. CASE EditLands
  <2>1. PICK e : e = edit
    OBVIOUS
  <2>2. e \in Edits /\ autos' = [autos EXCEPT ![e.auto] = [there |-> TRUE, enabled |-> e.enabled, next |-> e.next]]
        /\ edited' = edited \cup {e.auto} /\ edit' = None
    BY <1>0, <1>5, <2>1 DEF EditLands, ValuesOK
  <2>3. autos' \in [Autos -> AutoRows] /\ edited' \subseteq Autos
    BY <1>0, <1>1, <2>2 DEF Edits, AutoRows, ValuesOK
  <2> QED BY <1>5, <2>2, <2>3 DEF EditLands, TInv, ValuesOK
<1>6. ASSUME NEW a \in Autos, Edit(a) PROVE TInv'
  <2>1. edit' \in Edits
    BY <1>0, <1>6, AutomationsAssumption DEF Edit, Edits, ValuesOK
  <2> QED BY <1>6, <2>1 DEF Edit, TInv, ValuesOK, autoStore, autoPast
<1>7. ASSUME NEW a \in Autos, Delete(a) PROVE TInv'
  <2>1. PICK set : SetStatuses(set, "deleted")
    BY <1>0, <1>7, DeleteDoes
  <2>2. /\ runs' \in Seq(RunRows) /\ sent' \in Seq(Nat) /\ Len(sent') = Len(runs') /\ Len(runs') <= MaxRuns
        /\ Len(runs') = Len(runs)
    BY <1>0, <1>7, <2>1, StatusRows DEF SetStatuses, Delete
  <2>3. autos' \in [Autos -> AutoRows] /\ claims' \subseteq claims /\ edited' \subseteq Autos
    BY <1>0, <1>7, DeleteDoes DEF ValuesOK
  <2> QED BY <1>7, <2>2, <2>3 DEF Delete, TInv, ValuesOK
<1>8. ASSUME NEW w \in AutoWindows, Recover(w) PROVE TInv'
  <2>1. /\ OnlyPage(w) /\ SameInbox(page[w], page'[w]) /\ SetStatuses(Interrupted(w), "over")
        /\ Recovers(page[w], page'[w], Pending(w)) /\ Pending(w) \subseteq 1..page[w].before
    BY <1>8, RecoverDoes
  <2>2. page'[w] \in Pages
    BY <2>1 DEF OnlyPage
  <2>3. PageOK(page'[w], Len(runs))
    BY <1>0, <1>2, <2>1, <2>2, RecoverOK
  <2>4. UNCHANGED <<now, autos, claims, stored, edit, kept, sent, edited, crowded>>
    BY <1>8 DEF Recover, autoPast
  <2> QED BY <1>0, <1>1, <2>1, <2>3, <2>4, TypesKept, InboxKept, StatusRows DEF SetStatuses
<1>9. ASSUME NEW w \in AutoWindows, RecoverFails(w) PROVE TInv'
  <2>1. OnlyPage(w) /\ SameInbox(page[w], page'[w]) /\ Idles(page[w], page'[w])
    BY <1>0, <1>9, RecoverFailsDoes
  <2>2. PageOK(page'[w], Len(runs))
    BY <1>0, <1>2, <2>1, IdleOK DEF OnlyPage
  <2>3. UNCHANGED <<now, autos, runs, claims, stored, edit, kept, sent, edited, crowded>>
    BY <1>9 DEF RecoverFails, autoPast, autoStore
  <2> QED BY <1>0, <1>1, <2>1, <2>2, <2>3, TypesKept, InboxKept, SameRows
<1>10. ASSUME NEW w \in AutoWindows, ClaimDue(w) PROVE TInv'
  <2>1. PICK status \in {"pending", "over"} :
            /\ AddsRun(Run(page[w].due.auto, "scheduled", page[w].due.expected, status))
            /\ status = "pending" => Gains(page[w], page'[w], Len(runs) + 1)
            /\ status = "over" => Idles(page[w], page'[w])
    BY <1>0, <1>10, ClaimDueDoes
  <2>2. OnlyPage(w) /\ SameInbox(page[w], page'[w]) /\ page'[w] \in Pages
    BY <1>0, <1>10, ClaimDueDoes DEF OnlyPage
  <2>3. /\ runs' \in Seq(RunRows) /\ sent' \in Seq(Nat) /\ Len(sent') = Len(runs') /\ Len(runs') <= MaxRuns
        /\ Len(runs') = Len(runs) + 1
    BY <1>0, <2>1, NewRows
  <2>4. PageOK(page'[w], Len(runs) + 1)
    <3>1. CASE status = "pending"
      BY <1>0, <1>2, <2>1, <2>2, <3>1, GainOK
    <3>2. CASE status = "over"
      <4>1. PageOK(page'[w], Len(runs))
        BY <1>0, <1>2, <2>1, <2>2, <3>2, IdleOK
      <4> QED BY <4>1, <1>0, <2>2, PageGrows
    <3> QED BY <3>1, <3>2, <2>1
  <2>5. autos' \in [Autos -> AutoRows]
    <3>1. page[w].due.expected \in 0..MaxTime /\ autos' = [autos EXCEPT ![page[w].due.auto].next = page[w].due.expected + 1]
      BY <1>0, <1>10, ClaimDueDoes DEF ClaimDue
    <3>2. page[w].due.expected + 1 \in 0..(MaxTime + 1)
      BY <3>1, AutomationsAssumption
    <3> QED BY <1>1, <3>1, <3>2 DEF AutoRows
  <2>6. UNCHANGED <<now, claims, stored, edit, kept, edited, crowded>>
    BY <1>10 DEF ClaimDue
  <2>7. Len(runs') \in Nat /\ Len(runs) <= Len(runs') /\ PageOK(page'[w], Len(runs'))
    BY <1>0, <2>3, <2>4
  <2> QED BY <1>1, <2>2, <2>3, <2>5, <2>6, <2>7, TypesKept, InboxKept
<1>11. ASSUME NEW w \in AutoWindows, EndPass(w) PROVE TInv'
  <2>1. OnlyPage(w) /\ SameInbox(page[w], page'[w]) /\ HandsOver(page[w], page'[w])
    BY <1>0, <1>11, EndPassDoes
  <2>2. PageOK(page'[w], Len(runs))
    BY <1>0, <1>2, <2>1, HandOverOK DEF OnlyPage
  <2>3. UNCHANGED <<now, autos, runs, claims, stored, edit, kept, sent, edited, crowded>>
    BY <1>11 DEF EndPass, autoPast, autoStore
  <2> QED BY <1>0, <1>1, <2>1, <2>2, <2>3, TypesKept, InboxKept, SameRows
<1>12. ASSUME NEW w \in AutoWindows, ClaimAppeared(w) PROVE TInv'
  <2>1. OnlyPage(w) /\ Idles(page[w], page'[w]) /\ Queued(page[w]) \subseteq Items /\ page'[w].retry = Queued(page[w])
    BY <1>0, <1>12, ClaimAppearedDoes
  <2>2. PageOK(page'[w], Len(runs)) /\ RetryOK(page'[w])
    BY <1>0, <1>2, <2>1, IdleOK DEF OnlyPage, RetryOK
  <2>3. UNCHANGED <<now, autos, runs, claims, edit, sent, edited, crowded>>
    BY <1>12 DEF ClaimAppeared
  <2>4. stored' \subseteq Items /\ kept' \subseteq Items
    BY <1>1, <1>12, <2>1 DEF ClaimAppeared
  <2> QED BY <1>0, <1>1, <2>1, <2>2, <2>3, <2>4, TypesKept, SameRows
<1>13. ASSUME NEW w \in AutoWindows, EndInbox(w) PROVE TInv'
  <2>1. OnlyPage(w) /\ HandsOver(page[w], page'[w]) /\ page'[w].inbox = None
    BY <1>0, <1>2, <1>13, EndInboxDoes
  <2>2. PageOK(page'[w], Len(runs)) /\ RetryOK(page'[w])
    BY <1>0, <1>2, <2>1, HandOverOK DEF OnlyPage, RetryOK
  <2>3. UNCHANGED <<now, autos, runs, claims, edit, kept, sent, edited, crowded>>
    BY <1>13 DEF EndInbox, autoPast
  <2>4. stored' \subseteq Items
    BY <1>2, <1>13 DEF EndInbox, Retained, RetryOK
  <2> QED BY <1>0, <1>1, <2>1, <2>2, <2>3, <2>4, TypesKept, SameRows
<1>14. ASSUME NEW w \in AutoWindows, OpenWindow(w) PROVE TInv'
  <2>1. OnlyPage(w) /\ page'[w] = Booted
    BY <1>0, <1>14, OpenWindowDoes
  <2>2. PageOK(page'[w], Len(runs)) /\ RetryOK(page'[w])
    BY <1>0, <2>1, BootedIsPage DEF RetryOK, Booted, Closed
  <2>3. UNCHANGED <<now, autos, runs, claims, stored, edit, kept, sent, edited>> /\ crowded' \in BOOLEAN
    BY <1>14 DEF OpenWindow, autoStore
  <2> QED BY <1>0, <1>1, <2>1, <2>2, <2>3, TypesKept, SameRows
<1>15. ASSUME NEW w \in AutoWindows, Restart(w) PROVE TInv'
  <2>1. /\ page' \in [AutoWindows -> Pages] /\ page'[w] = Booted
        /\ \A v \in AutoWindows \ {w} : page'[v] = Closed
    BY <1>0, <1>15, RestartDoes
  <2>2. UNCHANGED <<now, autos, runs, claims, stored, kept, sent, edited, crowded>> /\ edit' = None
    BY <1>15 DEF Restart, autoStore, autoPast
  <2>3. RetryOK(Booted) /\ RetryOK(Closed)
    BY DEF RetryOK, Booted, Closed
  <2>4. \A v \in AutoWindows : PageOK(page'[v], Len(runs)) /\ RetryOK(page'[v])
    BY <1>0, <2>1, <2>3, BootedIsPage
  <2> QED BY <1>0, <2>1, <2>2, <2>4 DEF TInv, ValuesOK
<1>16. ASSUME NEW w \in AutoWindows, NEW a \in Autos, StartPass(w, a) PROVE TInv'
  <2>1. OnlyPage(w) /\ SameInbox(page[w], page'[w]) /\ Idles(page[w], page'[w])
    BY <1>0, <1>16, StartPassDoes
  <2>2. PageOK(page'[w], Len(runs))
    BY <1>0, <1>2, <2>1, IdleOK DEF OnlyPage
  <2>3. UNCHANGED <<now, autos, runs, claims, stored, edit, kept, sent, edited, crowded>>
    BY <1>16 DEF StartPass, autoPast, autoStore
  <2> QED BY <1>0, <1>1, <2>1, <2>2, <2>3, TypesKept, InboxKept, SameRows
<1>17. ASSUME NEW w \in AutoWindows, NEW a \in Autos, RunNow(w, a) PROVE TInv'
  <2>1. OnlyPage(w) /\ SameInbox(page[w], page'[w]) /\ Gains(page[w], page'[w], Len(runs) + 1) /\ page'[w] \in Pages
    BY <1>0, <1>17, RunNowDoes DEF OnlyPage
  <2>2. /\ runs' \in Seq(RunRows) /\ sent' \in Seq(Nat) /\ Len(sent') = Len(runs') /\ Len(runs') <= MaxRuns
        /\ Len(runs') = Len(runs) + 1
    BY <1>0, <1>17, RunNowDoes, NewRows
  <2>3. PageOK(page'[w], Len(runs) + 1)
    BY <1>0, <1>2, <2>1, GainOK
  <2>4. UNCHANGED <<now, autos, claims, stored, edit, kept, edited, crowded>>
    BY <1>17 DEF RunNow
  <2>5. Len(runs') \in Nat /\ Len(runs) <= Len(runs') /\ PageOK(page'[w], Len(runs'))
    BY <1>0, <2>2, <2>3
  <2> QED BY <1>1, <2>1, <2>2, <2>4, <2>5, TypesKept, InboxKept
<1>18. ASSUME NEW w \in AutoWindows, NEW r \in DOMAIN runs, Mark(w, r) PROVE TInv'
  <2>1. OnlyPage(w) /\ SameInbox(page[w], page'[w]) /\ Marks(page[w], page'[w], r) /\ SetsStatus(r, "running")
    BY <1>0, <1>18, MarkDoes
  <2>2. PageOK(page'[w], Len(runs))
    BY <1>0, <1>2, <2>1, MarkOK DEF OnlyPage
  <2>3. UNCHANGED <<now, autos, claims, stored, edit, kept, sent, edited, crowded>>
    BY <1>18 DEF Mark, autoPast
  <2> QED BY <1>0, <1>1, <2>1, <2>2, <2>3, TypesKept, InboxKept, StatusRows DEF SetsStatus
<1>19. ASSUME NEW w \in AutoWindows, NEW r \in DOMAIN runs, NotFound(w, r) PROVE TInv'
  <2>1. OnlyPage(w) /\ SameInbox(page[w], page'[w]) /\ Drops(page[w], page'[w], r)
    BY <1>0, <1>19, DropDoes DEF NotFound
  <2>2. PageOK(page'[w], Len(runs))
    BY <1>0, <1>2, <2>1, DropOK DEF OnlyPage
  <2>3. UNCHANGED <<now, autos, runs, claims, stored, edit, kept, sent, edited, crowded>>
    BY <1>19 DEF NotFound, autoPast, autoStore
  <2> QED BY <1>0, <1>1, <2>1, <2>2, <2>3, TypesKept, InboxKept, SameRows
<1>20. ASSUME NEW w \in AutoWindows, NEW r \in DOMAIN runs, MarkFails(w, r) PROVE TInv'
  <2>1. OnlyPage(w) /\ SameInbox(page[w], page'[w]) /\ Drops(page[w], page'[w], r)
    BY <1>0, <1>20, DropDoes DEF MarkFails
  <2>2. PageOK(page'[w], Len(runs))
    BY <1>0, <1>2, <2>1, DropOK DEF OnlyPage
  <2>3. UNCHANGED <<now, autos, claims, stored, edit, kept, sent, edited, crowded>>
    BY <1>20 DEF MarkFails
  <2>4. runs' = runs \/ SetsStatus(r, "over")
    BY <1>0, <1>20, UpdateDoes DEF MarkFails, Statuses, Over
  <2> QED BY <1>0, <1>1, <2>1, <2>2, <2>3, <2>4, TypesKept, InboxKept, StatusRows, SameRows DEF SetsStatus
<1>21. ASSUME NEW w \in AutoWindows, NEW r \in DOMAIN runs, Submit(w, r) PROVE TInv'
  <2>1. OnlyPage(w) /\ SameInbox(page[w], page'[w]) /\ Submits(page[w], page'[w], r)
    BY <1>0, <1>21, SubmitDoes
  <2>2. PageOK(page'[w], Len(runs))
    BY <1>0, <1>2, <2>1, SubmitOK DEF OnlyPage
  <2>3. UNCHANGED <<now, autos, runs, claims, stored, edit, kept, edited, crowded>>
    BY <1>21 DEF Submit, autoStore
  <2>4. sent' \in Seq(Nat) /\ Len(sent') = Len(sent)
    <3>1. sent \in Seq(Nat) /\ r \in 1..Len(sent)
      BY <1>0, RunsListed DEF ValuesOK
    <3>2. sent[r] + 1 \in Nat
      BY <3>1, ElementOfSeq
    <3>3. sent' = [sent EXCEPT ![r] = sent[r] + 1]
      BY <1>21 DEF Submit
    <3> QED BY <3>1, <3>2, <3>3, ExceptSeq
  <2>5. runs' \in Seq(RunRows) /\ Len(runs') <= MaxRuns /\ Len(sent') = Len(runs') /\ Len(runs') = Len(runs)
    BY <1>0, <2>3, <2>4 DEF ValuesOK
  <2> QED BY <1>0, <1>1, <2>1, <2>2, <2>3, <2>4, <2>5, TypesKept, InboxKept
<1>22. ASSUME NEW w \in AutoWindows, NEW r \in DOMAIN runs, Settle(w, r) PROVE TInv'
  <2>1. OnlyPage(w) /\ SameInbox(page[w], page'[w]) /\ Ends(page[w], page'[w], r)
    BY <1>0, <1>22, EndDoes DEF Settle
  <2>2. PageOK(page'[w], Len(runs))
    BY <1>0, <1>2, <2>1, EndOK DEF OnlyPage
  <2>3. UNCHANGED <<now, autos, claims, stored, edit, kept, sent, edited, crowded>>
    BY <1>22 DEF Settle, autoPast
  <2>4. runs' = runs \/ SetsStatus(r, "over")
    BY <1>0, <1>22, UpdateDoes DEF Settle, Statuses, Over
  <2> QED BY <1>0, <1>1, <2>1, <2>2, <2>3, <2>4, TypesKept, InboxKept, StatusRows, SameRows DEF SetsStatus
<1>23. ASSUME NEW w \in AutoWindows, NEW r \in DOMAIN runs, SettleFails(w, r) PROVE TInv'
  <2>1. OnlyPage(w) /\ SameInbox(page[w], page'[w]) /\ Ends(page[w], page'[w], r)
    BY <1>0, <1>23, EndDoes DEF SettleFails
  <2>2. PageOK(page'[w], Len(runs))
    BY <1>0, <1>2, <2>1, EndOK DEF OnlyPage
  <2>3. UNCHANGED <<now, autos, runs, claims, stored, edit, kept, sent, edited, crowded>>
    BY <1>23 DEF SettleFails, autoStore
  <2> QED BY <1>0, <1>1, <2>1, <2>2, <2>3, TypesKept, InboxKept, SameRows
<1>24. ASSUME NEW w \in AutoWindows, NEW found \in SUBSET Items, Poll(w, found) PROVE TInv'
  <2>1. OnlyPage(w) /\ SameInbox(page[w], page'[w]) /\ Idles(page[w], page'[w])
    BY <1>0, <1>24, PollDoes
  <2>2. PageOK(page'[w], Len(runs))
    BY <1>0, <1>2, <2>1, IdleOK DEF OnlyPage
  <2>3. UNCHANGED <<now, autos, runs, claims, stored, edit, kept, sent, edited, crowded>>
    BY <1>24 DEF Poll, autoPast, autoStore
  <2> QED BY <1>0, <1>1, <2>1, <2>2, <2>3, TypesKept, InboxKept, SameRows
<1>25. ASSUME NEW w \in AutoWindows, NEW a \in Autos, NEW i \in Items, ClaimEvent(w, a, i) PROVE TInv'
  <2>1. UNCHANGED <<now, autos, stored, edit, kept, edited, crowded>> /\ page[w].inbox # None
    BY <1>25 DEF ClaimEvent
  <2>2. ASSUME NEW failed \in SUBSET Items, page' = [page EXCEPT ![w] = Tried(@, <<a, i>>, failed, {})],
               UNCHANGED <<runs, claims, sent>>
        PROVE  TInv'
    <3>1. OnlyPage(w) /\ Idles(page[w], page'[w]) /\ page'[w].retry = page[w].retry
      BY <1>0, <2>1, <2>2, TriedIdles DEF Tries
    <3>2. PageOK(page'[w], Len(runs)) /\ RetryOK(page'[w])
      BY <1>0, <1>2, <2>1, <3>1, IdleOK DEF OnlyPage, RetryOK
    <3>3. runs' = runs /\ claims' = claims /\ sent' = sent
      BY <2>2
    <3> QED BY <1>0, <1>1, <2>1, <3>1, <3>2, <3>3, TypesKept, SameRows
  <2>3. CASE autos[a].there /\ MayClaimEvent(a, i)
    <3>1. /\ NewRun(Run(a, "event", i, "pending")) /\ claims' = claims \cup {<<a, i>>}
          /\ page' = [page EXCEPT ![w] = Tried(@, <<a, i>>, {}, {Len(runs) + 1})]
      BY <1>25, <2>3 DEF ClaimEvent
    <3>2. Run(a, "event", i, "pending") \in RunRows
      BY DEF Run, RunRows, Statuses
    <3>3. /\ runs' \in Seq(RunRows) /\ sent' \in Seq(Nat) /\ Len(sent') = Len(runs') /\ Len(runs') <= MaxRuns
          /\ Len(runs') = Len(runs) + 1
      BY <1>0, <3>1, <3>2, NewRunDoes, NewRows
    <3>4. {Len(runs) + 1} \in SUBSET Nat
      BY <1>0
    <3>5. OnlyPage(w) /\ Gains(page[w], page'[w], Len(runs) + 1) /\ page'[w].retry = page[w].retry
      BY <1>0, <2>1, <3>1, <3>4, TriedDoes DEF Tries
    <3>6. PageOK(page'[w], Len(runs) + 1) /\ RetryOK(page'[w])
      BY <1>0, <1>2, <2>1, <3>5, GainOK DEF OnlyPage, RetryOK
    <3>7. Len(runs') \in Nat /\ Len(runs) <= Len(runs') /\ PageOK(page'[w], Len(runs')) /\ claims' \subseteq Autos \X Items
      BY <1>0, <1>1, <3>1, <3>3, <3>6
    <3> QED BY <1>1, <2>1, <3>3, <3>5, <3>6, <3>7, TypesKept
  <2>4. CASE ~(autos[a].there /\ MayClaimEvent(a, i))
    <3>1. PICK failed \in SUBSET Items : failed = IF autos[a].there THEN {} ELSE {i}
      OBVIOUS
    <3>2. page' = [page EXCEPT ![w] = Tried(@, <<a, i>>, failed, {})] /\ UNCHANGED <<runs, claims, sent>>
      BY <1>25, <2>4, <3>1 DEF ClaimEvent
    <3> QED BY <2>2, <3>2
  <2> QED BY <2>3, <2>4
<1>26. ASSUME NEW w \in AutoWindows, NEW a \in Autos, NEW i \in Items, ClaimEventFails(w, a, i) PROVE TInv'
  <2>1. UNCHANGED <<now, autos, runs, claims, sent, stored, edit, kept, edited, crowded>> /\ page[w].inbox # None
    BY <1>26 DEF ClaimEventFails, autoStore, autoPast
  <2>2. OnlyPage(w) /\ Idles(page[w], page'[w]) /\ page'[w].retry = page[w].retry
    <3>1. page' = [page EXCEPT ![w] = Tried(@, <<a, i>>, {i}, {})] /\ {i} \in SUBSET Items
      BY <1>26 DEF ClaimEventFails
    <3> QED BY <1>0, <2>1, <3>1, TriedIdles DEF Tries
  <2>3. PageOK(page'[w], Len(runs)) /\ RetryOK(page'[w])
    BY <1>0, <1>2, <2>1, <2>2, IdleOK DEF OnlyPage, RetryOK
  <2> QED BY <1>0, <1>1, <2>1, <2>2, <2>3, TypesKept, SameRows
<1> QED
  BY <1>3, <1>4, <1>5, <1>6, <1>7, <1>8, <1>9, <1>10, <1>11, <1>12, <1>13, <1>14, <1>15, <1>16, <1>17, <1>18,
     <1>19, <1>20, <1>21, <1>22, <1>23, <1>24, <1>25, <1>26 DEF AutomationsNext

-----------------------------------------------------------------------------
(* One run for what starts one *)

\* The runs are the ones there were; none comes back.
Restated ==
    /\ Len(runs') = Len(runs) /\ runs' \in Seq(RunRows)
    /\ \A r \in 1..Len(runs) :
           /\ runs'[r].auto = runs[r].auto /\ runs'[r].why = runs[r].why /\ runs'[r].of = runs[r].of
           /\ There(r)' => There(r)

LEMMA SameRestates == ASSUME ValuesOK, runs' = runs PROVE Restated
BY DEF Restated, There, ValuesOK

LEMMA StatusRestates ==
    ASSUME ValuesOK, NEW r \in DOMAIN runs, NEW status \in Statuses, SetsStatus(r, status), There(r)
    PROVE  Restated
<1>1. \A s \in 1..Len(runs) : runs[s] \in RunRows
  BY RunsListed
<1>2. \A s \in 1..Len(runs) : s # r => runs'[s] = runs[s]
  BY DEF SetsStatus
<1>3. runs'[r].auto = runs[r].auto /\ runs'[r].why = runs[r].why /\ runs'[r].of = runs[r].of
  BY <1>1 DEF SetsStatus, RunRows
<1> QED BY <1>2, <1>3 DEF Restated, There, SetsStatus

LEMMA StatusesRestate ==
    ASSUME ValuesOK, NEW set, NEW status \in Statuses, SetStatuses(set, status),
           \A r \in 1..Len(runs) : r \in set => status = "deleted" \/ There(r)
    PROVE  Restated
<1>1. \A s \in 1..Len(runs) : runs[s] \in RunRows
  BY RunsListed
<1>2. ASSUME NEW r \in 1..Len(runs)
      PROVE  /\ runs'[r].auto = runs[r].auto /\ runs'[r].why = runs[r].why /\ runs'[r].of = runs[r].of
             /\ There(r)' => There(r)
  <2>1. CASE r \in set
    <3>1. runs'[r] = [runs[r] EXCEPT !.status = status] /\ runs[r] \in RunRows
      BY <1>1, <2>1 DEF SetStatuses
    <3>2. runs'[r].status = status
      BY <3>1 DEF RunRows
    <3> QED BY <2>1, <3>1, <3>2 DEF There, RunRows
  <2>2. CASE r \notin set
    BY <2>2 DEF SetStatuses, There
  <2> QED BY <2>1, <2>2
<1> QED BY <1>2 DEF Restated, SetStatuses

LEMMA RowsListed == ASSUME TInv, TInv' PROVE DOMAIN runs = 1..Len(runs) /\ DOMAIN runs' = 1..Len(runs')
BY LenProperties DEF TInv, ValuesOK

\* The schedules and the claims stand.
LEMMA OnceKept ==
    ASSUME TInv, TInv', RInv, Restated, autos' = autos, claims' = claims, edited' = edited
    PROVE  RInv'
<1>1. DOMAIN runs = 1..Len(runs) /\ DOMAIN runs' = 1..Len(runs)
  BY RowsListed DEF Restated
<1>2. RowsOK'
  BY <1>1 DEF RInv, RowsOK, Restated
<1>3. ClaimedOnce'
  BY <1>1 DEF RInv, ClaimedOnce, Restated
<1>4. PassedOK'
  BY <1>1 DEF RInv, PassedOK, Passed, Restated
<1>5. Untouched'
  BY DEF RInv, Untouched
<1> QED BY <1>2, <1>3, <1>4, <1>5 DEF RInv

\* An automation is edited or deleted: the others stand.
LEMMA OnceEdited ==
    ASSUME TInv, TInv', RInv, Restated, NEW a \in Autos, edited' = edited \cup {a},
           \A b \in Autos \ {a} : autos'[b] = autos[b],
           \A b \in Autos, i \in Items : b # a /\ <<b, i>> \in claims => <<b, i>> \in claims',
           claims' = claims \/ \A r \in 1..Len(runs) : runs[r].auto = a => ~There(r)'
    PROVE  RInv'
<1>1. DOMAIN runs = 1..Len(runs) /\ DOMAIN runs' = 1..Len(runs)
  BY RowsListed DEF Restated
<1>0. \A r \in 1..Len(runs) : runs[r].auto \in Autos
  BY RunsListed DEF TInv, RunRows
<1>2. RowsOK'
  <2> SUFFICES ASSUME NEW r \in 1..Len(runs)
               PROVE  /\ runs'[r].why = "scheduled" => runs'[r].of \in Nat
                      /\ runs'[r].why = "scheduled" /\ runs'[r].auto \notin edited' => runs'[r].of < autos'[runs'[r].auto].next
                      /\ runs'[r].why = "event" /\ There(r)' => <<runs'[r].auto, runs'[r].of>> \in claims'
    BY <1>1 DEF RowsOK
  <2>1. /\ runs[r].why = "scheduled" => runs[r].of \in Nat
        /\ runs[r].why = "scheduled" /\ runs[r].auto \notin edited => runs[r].of < autos[runs[r].auto].next
        /\ runs[r].why = "event" /\ There(r) => <<runs[r].auto, runs[r].of>> \in claims
    BY <1>1 DEF RInv, RowsOK
  <2>2. runs'[r].auto = runs[r].auto /\ runs'[r].why = runs[r].why /\ runs'[r].of = runs[r].of /\ (There(r)' => There(r))
    BY DEF Restated
  <2>3. ASSUME runs[r].why = "event", There(r)' PROVE <<runs[r].auto, runs[r].of>> \in claims'
    <3>1. <<runs[r].auto, runs[r].of>> \in claims
      BY <2>1, <2>2, <2>3
    <3>2. runs[r].of \in Items
      BY <3>1 DEF TInv, ValuesOK
    <3> QED BY <1>0, <2>3, <3>1, <3>2
  <2> QED BY <1>0, <2>1, <2>2, <2>3
<1>3. ClaimedOnce'
  BY <1>1 DEF RInv, ClaimedOnce, Restated
<1>4. PassedOK'
  BY <1>1 DEF RInv, PassedOK, Passed, Restated
<1>5. Untouched'
  BY DEF RInv, Untouched
<1> QED BY <1>2, <1>3, <1>4, <1>5 DEF RInv

\* A run is added, with its claim.
LEMMA OnceAdded ==
    ASSUME TInv, TInv', RInv, NEW a \in Autos, NEW why, NEW of, NEW status, AddsRun(Run(a, why, of, status)),
           edited' = edited, claims \subseteq claims',
           \A b \in Autos : autos'[b].there = autos[b].there /\ autos'[b].enabled = autos[b].enabled,
           \/ why = "manual" /\ autos' = autos
           \/ /\ why = "scheduled" /\ of \in Nat /\ autos[a].next = of /\ autos'[a].next = of + 1
              /\ \A b \in Autos \ {a} : autos'[b] = autos[b]
           \/ why = "event" /\ autos' = autos /\ <<a, of>> \notin claims /\ <<a, of>> \in claims'
    PROVE  RInv'
<1> DEFINE n == Len(runs)
<1>1. /\ DOMAIN runs = 1..n /\ DOMAIN runs' = 1..(n + 1) /\ n \in Nat
      /\ runs'[n + 1] = Run(a, why, of, status) /\ \A r \in 1..n : runs'[r] = runs[r]
  BY RowsListed, RunsListed DEF AddsRun, TInv
<1>2. /\ runs'[n + 1].auto = a /\ runs'[n + 1].why = why /\ runs'[n + 1].of = of
  BY <1>1 DEF Run
<1>3. \A r \in 1..n : runs[r].auto \in Autos
  BY RunsListed DEF TInv, RunRows
<1>4. \A b \in Autos : autos[b].next \in Nat
  BY AutomationsAssumption DEF TInv, ValuesOK, AutoRows
<1>5. \A r \in 1..(n + 1) : r \in 1..n \/ r = n + 1
  BY <1>1
<1>6. ASSUME NEW r \in 1..n
      PROVE  /\ runs[r].why = "scheduled" => runs[r].of \in Nat
             /\ runs[r].why = "scheduled" /\ runs[r].auto \notin edited => runs[r].of < autos[runs[r].auto].next
             /\ runs[r].why = "event" /\ There(r) => <<runs[r].auto, runs[r].of>> \in claims
  BY <1>1 DEF RInv, RowsOK
<1> HIDE DEF n
<1>7. RowsOK'
  <2> SUFFICES ASSUME NEW r \in 1..(n + 1)
               PROVE  /\ runs'[r].why = "scheduled" => runs'[r].of \in Nat
                      /\ runs'[r].why = "scheduled" /\ runs'[r].auto \notin edited' => runs'[r].of < autos'[runs'[r].auto].next
                      /\ runs'[r].why = "event" /\ There(r)' => <<runs'[r].auto, runs'[r].of>> \in claims'
    BY <1>1 DEF RowsOK
  <2>1. CASE r = n + 1
    BY <1>1, <1>2, <2>1
  <2>2. CASE r \in 1..n
    <3>1. runs'[r] = runs[r] /\ (There(r)' <=> There(r)) /\ runs[r].auto \in Autos
      BY <1>1, <1>3, <2>2 DEF There
    <3>2. ASSUME runs[r].why = "scheduled", runs[r].auto \notin edited
          PROVE  runs[r].of < autos'[runs[r].auto].next
      <4>1. runs[r].of \in Nat /\ runs[r].of < autos[runs[r].auto].next
        BY <1>6, <2>2, <3>2
      <4>2. autos'[runs[r].auto].next = autos[runs[r].auto].next
            \/ autos'[runs[r].auto].next = autos[runs[r].auto].next + 1
        BY <3>1
      <4> QED BY <1>4, <3>1, <4>1, <4>2
    <3> QED BY <1>6, <2>2, <3>1, <3>2
  <2> QED BY <1>5, <2>1, <2>2
<1>8. ASSUME NEW s \in 1..n, There(s), runs[s].auto = a, runs[s].why = why, runs[s].of = of
      PROVE  why = "manual" \/ (why = "scheduled" /\ a \in edited)
  <2>1. CASE why = "event"
    BY <1>6, <1>8, <2>1
  <2>2. CASE why = "scheduled" /\ a \notin edited
    <3>1. of \in Nat /\ of < autos[a].next /\ autos[a].next = of
      BY <1>6, <1>8, <2>2
    <3> QED BY <3>1
  <2> QED BY <2>1, <2>2
<1>9. ClaimedOnce'
  <2> SUFFICES ASSUME NEW r \in 1..(n + 1), NEW s \in 1..(n + 1), r # s, There(r)', There(s)',
                      runs'[r].auto = runs'[s].auto, runs'[r].why = runs'[s].why, runs'[r].of = runs'[s].of
               PROVE  runs'[r].why = "manual" \/ (runs'[r].why = "scheduled" /\ runs'[r].auto \in edited')
    BY <1>1 DEF ClaimedOnce
  <2>1. CASE r \in 1..n /\ s \in 1..n
    <3>1. runs'[r] = runs[r] /\ runs'[s] = runs[s] /\ There(r) /\ There(s)
      BY <1>1, <2>1 DEF There
    <3> QED BY <1>1, <2>1, <3>1 DEF RInv, ClaimedOnce
  <2>2. CASE r = n + 1 /\ s \in 1..n
    <3>1. runs'[s] = runs[s] /\ There(s)
      BY <1>1, <2>2 DEF There
    <3> QED BY <1>2, <1>8, <2>2, <3>1
  <2>3. CASE s = n + 1 /\ r \in 1..n
    <3>1. runs'[r] = runs[r] /\ There(r)
      BY <1>1, <2>3 DEF There
    <3> QED BY <1>2, <1>8, <2>3, <3>1
  <2> QED BY <1>5, <2>1, <2>2, <2>3
<1>10. PassedOK'
  <2> SUFFICES ASSUME NEW b \in Autos, b \notin edited, NEW t \in 1..MaxTime, t < autos'[b].next
               PROVE  \E r \in 1..(n + 1) : runs'[r].auto = b /\ runs'[r].why = "scheduled" /\ runs'[r].of = t
    BY <1>1 DEF PassedOK, Passed
  <2>1. CASE t < autos[b].next
    <3>1. PICK r \in 1..n : runs[r].auto = b /\ runs[r].why = "scheduled" /\ runs[r].of = t
      BY <1>1, <2>1 DEF RInv, PassedOK, Passed
    <3>2. r \in 1..(n + 1)
      BY <1>1
    <3> QED BY <1>1, <3>1, <3>2
  <2>2. CASE ~(t < autos[b].next)
    <3>1. b = a /\ why = "scheduled" /\ of \in Nat /\ autos[a].next = of /\ autos'[a].next = of + 1
      BY <2>2
    <3>2. t = of
      BY <2>2, <3>1, AutomationsAssumption
    <3>3. n + 1 \in 1..(n + 1)
      BY <1>1
    <3> QED BY <1>2, <3>1, <3>2, <3>3
  <2> QED BY <2>1, <2>2
<1>11. Untouched'
  BY DEF RInv, Untouched
<1> QED BY <1>7, <1>9, <1>10, <1>11 DEF RInv

LEMMA OnceInit == AutomationsInit => RInv
<1> SUFFICES ASSUME AutomationsInit PROVE RInv
  OBVIOUS
<1>1. DOMAIN runs = {}
  BY DEF AutomationsInit
<1>2. \A a \in Autos : autos[a].next = 1 /\ autos[a].there /\ autos[a].enabled
  BY DEF AutomationsInit
<1>3. \A t \in 1..MaxTime : ~(t < 1)
  BY AutomationsAssumption
<1> QED BY <1>1, <1>2, <1>3 DEF RInv, RowsOK, ClaimedOnce, PassedOK, Untouched

LEMMA OnceNext ==
    ASSUME TInv, TInv', RInv, [AutomationsNext]_autoVars
    PROVE  RInv'
<1>0. ValuesOK /\ Len(runs) \in Nat /\ DOMAIN runs = 1..Len(runs)
  BY RunsListed DEF TInv
<1>1. ASSUME runs' = runs, autos' = autos, claims' = claims, edited' = edited PROVE RInv'
  BY <1>0, <1>1, OnceKept, SameRestates
<1>2. ASSUME NEW r \in DOMAIN runs, There(r), SetsStatus(r, "running") \/ SetsStatus(r, "over"),
             autos' = autos, claims' = claims, edited' = edited
      PROVE  RInv'
  <2>1. "running" \in Statuses /\ "over" \in Statuses
    BY DEF Statuses, Over
  <2>2. Restated
    BY <1>0, <1>2, <2>1, StatusRestates
  <2> QED BY <1>2, <2>2, OnceKept
<1>3. CASE UNCHANGED autoVars
  BY <1>1, <1>3 DEF autoVars, autoStore, autoPast
<1>4. CASE Tick
  BY <1>1, <1>4 DEF Tick, autoStore, autoPast
<1>5. CASE EditLands
  <2>1. PICK e : e = edit
    OBVIOUS
  <2>2. e \in Edits /\ autos' = [autos EXCEPT ![e.auto] = [there |-> TRUE, enabled |-> e.enabled, next |-> e.next]]
        /\ edited' = edited \cup {e.auto} /\ claims' = claims /\ runs' = runs
    BY <1>0, <1>5, <2>1 DEF EditLands, ValuesOK
  <2>3. PICK a \in Autos : a = e.auto
    BY <2>2 DEF Edits
  <2>4. \A b \in Autos \ {a} : autos'[b] = autos[b]
    BY <1>0, <2>2, <2>3 DEF ValuesOK
  <2> QED BY <1>0, <2>2, <2>3, <2>4, SameRestates, OnceEdited
<1>6. ASSUME NEW a \in Autos, Edit(a) PROVE RInv'
  BY <1>1, <1>6 DEF Edit, autoStore, autoPast
<1>7. ASSUME NEW a \in Autos, Delete(a) PROVE RInv'
  <2>1. PICK set : SetStatuses(set, "deleted") /\ \A r \in 1..Len(runs) : r \in set <=> runs[r].auto = a
    BY <1>0, <1>7, DeleteDoes
  <2>2. /\ autos' = [autos EXCEPT ![a].there = FALSE]
        /\ claims' = {c \in claims : c[1] # a} /\ edited' = edited \cup {a}
    BY <1>0, <1>7, DeleteDoes
  <2>3. Restated
    BY <1>0, <2>1, StatusesRestate DEF Statuses, Over
  <2>4. \A b \in Autos \ {a} : autos'[b] = autos[b]
    BY <1>0, <2>2 DEF ValuesOK
  <2>5. \A b \in Autos, i \in Items : b # a /\ <<b, i>> \in claims => <<b, i>> \in claims'
    BY <2>2
  <2>6. \A r \in 1..Len(runs) : runs[r].auto = a => ~There(r)'
    <3> SUFFICES ASSUME NEW r \in 1..Len(runs), runs[r].auto = a PROVE runs'[r].status = "deleted"
      BY DEF There
    <3>1. runs'[r] = [runs[r] EXCEPT !.status = "deleted"] /\ runs[r] \in RunRows
      BY <1>0, <2>1, RunsListed DEF SetStatuses
    <3> QED BY <3>1 DEF RunRows
  <2> QED BY <2>2, <2>3, <2>4, <2>5, <2>6, OnceEdited
<1>8. ASSUME NEW w \in AutoWindows, Recover(w) PROVE RInv'
  <2>1. SetStatuses(Interrupted(w), "over")
    BY <1>8, RecoverDoes
  <2>2. \A r \in Interrupted(w) : There(r)
    BY DEF Interrupted, There
  <2>3. Restated
    BY <1>0, <2>1, <2>2, StatusesRestate DEF Statuses, Over
  <2> QED BY <1>8, <2>3, OnceKept DEF Recover, autoPast
<1>9. ASSUME NEW w \in AutoWindows,
             RecoverFails(w) \/ EndPass(w) \/ ClaimAppeared(w) \/ EndInbox(w) \/ OpenWindow(w) \/ Restart(w)
      PROVE  RInv'
  <2>1. runs' = runs /\ autos' = autos /\ claims' = claims /\ edited' = edited
    BY <1>9 DEF RecoverFails, EndPass, ClaimAppeared, EndInbox, OpenWindow, Restart, autoStore, autoPast
  <2> QED BY <1>1, <2>1
<1>10. ASSUME NEW w \in AutoWindows, ClaimDue(w) PROVE RInv'
  <2>1. PICK status \in {"pending", "over"} :
            AddsRun(Run(page[w].due.auto, "scheduled", page[w].due.expected, status))
    BY <1>0, <1>10, ClaimDueDoes
  <2>2. PICK a \in Autos, t \in 0..MaxTime : a = page[w].due.auto /\ t = page[w].due.expected
    BY <1>0, <1>10, ClaimDueDoes DEF DuePasses
  <2>3. /\ autos' = [autos EXCEPT ![a].next = t + 1] /\ autos[a].next = t /\ claims' = claims /\ edited' = edited
    BY <1>10, <2>2 DEF ClaimDue, MayClaim
  <2>4. /\ \A b \in Autos : autos'[b].there = autos[b].there /\ autos'[b].enabled = autos[b].enabled
        /\ autos'[a].next = t + 1 /\ \A b \in Autos \ {a} : autos'[b] = autos[b]
    BY <1>0, <2>3 DEF ValuesOK, AutoRows
  <2>5. t \in Nat
    BY AutomationsAssumption
  <2> QED BY <2>1, <2>2, <2>3, <2>4, <2>5, OnceAdded
<1>11. ASSUME NEW w \in AutoWindows, NEW a \in Autos, StartPass(w, a) PROVE RInv'
  BY <1>1, <1>11 DEF StartPass, autoStore, autoPast
<1>12. ASSUME NEW w \in AutoWindows, NEW a \in Autos, RunNow(w, a) PROVE RInv'
  <2>1. AddsRun(Run(a, "manual", now, "pending"))
    BY <1>0, <1>12, RunNowDoes
  <2>2. autos' = autos /\ claims' = claims /\ edited' = edited
    BY <1>12 DEF RunNow
  <2> QED BY <2>1, <2>2, OnceAdded
<1>13. ASSUME NEW w \in AutoWindows, NEW r \in DOMAIN runs, Mark(w, r) PROVE RInv'
  BY <1>0, <1>2, <1>13, MarkDoes DEF Mark, autoPast
<1>14. ASSUME NEW w \in AutoWindows, NEW r \in DOMAIN runs, NotFound(w, r) \/ Submit(w, r) \/ SettleFails(w, r)
       PROVE  RInv'
  <2>1. runs' = runs /\ autos' = autos /\ claims' = claims /\ edited' = edited
    BY <1>14 DEF NotFound, Submit, SettleFails, autoStore, autoPast
  <2> QED BY <1>1, <2>1
<1>15. ASSUME NEW w \in AutoWindows, NEW r \in DOMAIN runs, MarkFails(w, r) PROVE RInv'
  <2>1. autos' = autos /\ claims' = claims /\ edited' = edited /\ There(r)
    BY <1>15 DEF MarkFails
  <2>2. runs' = runs \/ SetsStatus(r, "over")
    BY <1>0, <1>15, UpdateDoes DEF MarkFails, Statuses, Over
  <2> QED BY <1>1, <1>2, <2>1, <2>2
<1>16. ASSUME NEW w \in AutoWindows, NEW r \in DOMAIN runs, Settle(w, r) PROVE RInv'
  <2>1. autos' = autos /\ claims' = claims /\ edited' = edited
    BY <1>16 DEF Settle, autoPast
  <2>2. runs' = runs \/ (There(r) /\ SetsStatus(r, "over"))
    BY <1>0, <1>16, UpdateDoes DEF Settle, Statuses, Over
  <2> QED BY <1>1, <1>2, <2>1, <2>2
<1>17. ASSUME NEW w \in AutoWindows, NEW found \in SUBSET Items, Poll(w, found) PROVE RInv'
  BY <1>1, <1>17 DEF Poll, autoStore, autoPast
<1>18. ASSUME NEW w \in AutoWindows, NEW a \in Autos, NEW i \in Items, ClaimEvent(w, a, i) PROVE RInv'
  <2>1. autos' = autos /\ edited' = edited
    BY <1>18 DEF ClaimEvent
  <2>2. CASE autos[a].there /\ MayClaimEvent(a, i)
    <3>1. /\ NewRun(Run(a, "event", i, "pending")) /\ claims' = claims \cup {<<a, i>>} /\ <<a, i>> \notin claims
      BY <1>18, <2>2 DEF ClaimEvent, MayClaimEvent
    <3>2. Run(a, "event", i, "pending") \in RunRows
      BY DEF Run, RunRows, Statuses
    <3>3. AddsRun(Run(a, "event", i, "pending"))
      BY <1>0, <3>1, <3>2, NewRunDoes
    <3> QED BY <2>1, <3>1, <3>3, OnceAdded
  <2>3. CASE ~(autos[a].there /\ MayClaimEvent(a, i))
    <3>1. runs' = runs /\ claims' = claims
      BY <1>18, <2>3 DEF ClaimEvent
    <3> QED BY <1>1, <2>1, <3>1
  <2> QED BY <2>2, <2>3
<1>19. ASSUME NEW w \in AutoWindows, NEW a \in Autos, NEW i \in Items, ClaimEventFails(w, a, i) PROVE RInv'
  BY <1>1, <1>19 DEF ClaimEventFails, autoStore, autoPast
<1> QED
  BY <1>3, <1>4, <1>5, <1>6, <1>7, <1>8, <1>9, <1>10, <1>11, <1>12, <1>13, <1>14, <1>15, <1>16, <1>17, <1>18,
     <1>19 DEF AutomationsNext

-----------------------------------------------------------------------------
(* A prompt is submitted once *)

\* What a page has still to submit, after a step.
LEMMA StillToSubmit ==
    ASSUME NEW p \in Pages, NEW q \in Pages, NEW n \in Nat, PageOK(p, n)
    PROVE  /\ Idles(p, q) => ToSubmit(q) = ToSubmit(p)
           /\ \A r : Gains(p, q, r) => ToSubmit(q) = ToSubmit(p) \cup {r}
           /\ HandsOver(p, q) => ToSubmit(q) = ToSubmit(p)
           /\ \A r : Marks(p, q, r) => ToSubmit(q) \subseteq ToSubmit(p)
           /\ \A r : Drops(p, q, r) => ToSubmit(q) \subseteq ToSubmit(p)
           /\ \A r : Ends(p, q, r) => ToSubmit(q) = ToSubmit(p)
           /\ \A s : Recovers(p, q, s) => ToSubmit(q) = ToSubmit(p) \cup s
<1>1. Idles(p, q) => ToSubmit(q) = ToSubmit(p)
  BY DEF Idles, SameQueue, SameBegun, SameBatches, ToSubmit, Claimed, Queue
<1>2. \A r : Gains(p, q, r) => ToSubmit(q) = ToSubmit(p) \cup {r}
  <2> TAKE r
  <2> HAVE Gains(p, q, r)
  <2>1. Claimed(q) = Claimed(p) \cup {r} /\ q.marked = p.marked /\ Queue(q) = Queue(p)
    BY DEF Gains, SameQueue, SameBegun, SameBatches, Claimed, Queue
  <2> QED BY <2>1 DEF ToSubmit
<1>3. HandsOver(p, q) => ToSubmit(q) = ToSubmit(p)
  <2> HAVE HandsOver(p, q)
  <2>1. Claimed(q) = Claimed(p) /\ q.marked = p.marked /\ Queue(q) = Queue(p)
    BY DEF HandsOver, SameQueue, SameBegun, Claimed, Queue
  <2> QED BY <2>1 DEF ToSubmit
<1>4. \A r : Marks(p, q, r) => ToSubmit(q) \subseteq ToSubmit(p)
  <2> TAKE r
  <2> HAVE Marks(p, q, r)
  <2>1. Claimed(q) \subseteq Claimed(p) /\ q.marked = p.marked \cup {r} /\ Queue(q) = Queue(p)
    BY DEF Marks, SameQueue, SameBatches, Claimed, Queue
  <2>2. r \in Claimed(p) \/ r \in Queue(p)
    <3>1. r \in p.fresh \/ (p.queue # <<>> /\ Head(p.queue) = r)
      BY DEF Marks, MayLaunch
    <3>2. p.queue \in Seq(Nat) /\ Once(p.queue)
      BY DEF Pages, PageOK, QueueOK
    <3> QED BY <3>1, <3>2, Rest DEF Claimed, Queue
  <2> QED BY <2>1, <2>2 DEF ToSubmit
<1>5. \A r : Drops(p, q, r) => ToSubmit(q) \subseteq ToSubmit(p)
  <2> TAKE r
  <2> HAVE Drops(p, q, r)
  <2>1. Claimed(q) \subseteq Claimed(p) /\ q.marked = p.marked
    BY DEF Drops, SameBegun, SameBatches, Claimed
  <2>2. Queue(q) \subseteq Queue(p)
    BY GoneOn DEF Drops, PageOK, QueueOK
  <2> QED BY <2>1, <2>2 DEF ToSubmit
<1>6. \A r : Ends(p, q, r) => ToSubmit(q) = ToSubmit(p)
  BY DEF Ends, SameQueue, SameBatches, ToSubmit, Claimed, Queue
<1>7. \A s : Recovers(p, q, s) => ToSubmit(q) = ToSubmit(p) \cup s
  <2> TAKE s
  <2> HAVE Recovers(p, q, s)
  <2>1. Claimed(q) = Claimed(p) /\ q.marked = p.marked /\ Queue(q) = s
    BY DEF Recovers, SameBegun, SameBatches, Claimed, Queue
  <2>2. Queue(p) = {}
    BY NoQueue DEF Recovers, PageOK, QueueOK, Queue
  <2> QED BY <2>1, <2>2 DEF ToSubmit
<1> QED BY <1>1, <1>2, <1>3, <1>4, <1>5, <1>6, <1>7

\* What a page has to submit are runs.
LEMMA ToSubmitRuns ==
    ASSUME NEW p \in Pages, NEW n \in Nat, PageOK(p, n)
    PROVE  ToSubmit(p) \subseteq 1..n /\ p.marked \subseteq 1..n
<1>1. p.before \in Nat /\ p.before <= n
  BY DEF Pages, PageOK
<1> QED BY <1>1 DEF PageOK, QueueOK, ToSubmit, Begun

\* No run goes back to waiting; a run that is added has not been prompted for.
NoneWaitsAgain ==
    /\ Len(runs) <= Len(runs')
    /\ \A r \in 1..Len(runs) : runs'[r].status = "pending" => runs[r].status = "pending"
    /\ \A r \in 1..Len(runs) : sent'[r] = sent[r]
    /\ \A r \in 1..Len(runs') : r \in 1..Len(runs) \/ sent'[r] = 0

LEMMA SubmissionsKept ==
    ASSUME TInv, TInv', SInv, NEW w \in AutoWindows, OnlyPage(w), page[w].up, SamePage(page[w], page'[w]),
           NoneWaitsAgain, crowded' = crowded,
           \A r \in page'[w].marked : r \in page[w].marked \/ runs'[r].status # "pending",
           ~crowded => \A r \in ToSubmit(page'[w]) : r \in ToSubmit(page[w]) \/ sent'[r] = 0
    PROVE  SInv'
<1>1. /\ DOMAIN runs = 1..Len(runs) /\ DOMAIN runs' = 1..Len(runs') /\ Len(runs) \in Nat /\ Len(runs') \in Nat
      /\ DOMAIN sent = 1..Len(runs) /\ DOMAIN sent' = 1..Len(runs')
  BY LenProperties DEF TInv, ValuesOK
<1>2. \A v \in AutoWindows : page[v] \in Pages /\ PageOK(page[v], Len(runs))
  BY PageShape DEF TInv
<1>3. page'[w].up
  BY DEF SamePage
<1>4. OneUp'
  <2>1. \A v \in AutoWindows : page'[v].up = page[v].up
    BY DEF OnlyPage, SamePage
  <2>2. \A v \in AutoWindows : ~page'[v].up => page'[v] = page[v]
    BY <1>3 DEF OnlyPage
  <2>3. \A v \in AutoWindows : ~page'[v].up => page'[v] = Closed
    BY <2>1, <2>2 DEF SInv, OneUp
  <2> QED BY <2>1, <2>3 DEF SInv, OneUp, Closed, Booted
<1>5. \A v \in AutoWindows : page[v].marked \subseteq 1..Len(runs) /\ ToSubmit(page[v]) \subseteq 1..Len(runs)
  BY <1>1, <1>2, ToSubmitRuns
<1>6. PendingOK'
  <2>1. \A r \in 1..Len(runs') : runs'[r].status = "pending" => sent'[r] = 0
    BY <1>1 DEF SInv, PendingOK, NoneWaitsAgain
  <2>2. ASSUME NEW v \in AutoWindows, NEW r \in page'[v].marked PROVE runs'[r].status # "pending"
    <3>1. CASE r \in page[v].marked
      BY <1>1, <1>5, <3>1 DEF SInv, PendingOK, NoneWaitsAgain
    <3>2. CASE r \notin page[v].marked
      BY <2>2, <3>2 DEF OnlyPage
    <3> QED BY <3>1, <3>2
  <2> QED BY <1>1, <2>1, <2>2 DEF PendingOK
<1>7. NotYetSent'
  <2> SUFFICES ASSUME ~crowded, NEW v \in AutoWindows, NEW r \in ToSubmit(page'[v]) PROVE sent'[r] = 0
    BY DEF NotYetSent
  <2>1. CASE r \in ToSubmit(page[v])
    <3>1. sent[r] = 0 /\ r \in 1..Len(runs)
      BY <1>5, <2>1 DEF SInv, NotYetSent
    <3> QED BY <3>1 DEF NoneWaitsAgain
  <2>2. CASE r \notin ToSubmit(page[v])
    <3>1. v = w
      BY <2>2 DEF OnlyPage
    <3> QED BY <2>2, <3>1
  <2> QED BY <2>1, <2>2
<1>8. SubmittedOnce'
  <2> SUFFICES ASSUME ~crowded, NEW r \in 1..Len(runs') PROVE sent'[r] <= 1
    BY <1>1 DEF SubmittedOnce
  <2> QED BY <1>1 DEF SInv, SubmittedOnce, NoneWaitsAgain
<1> QED BY <1>4, <1>6, <1>7, <1>8 DEF SInv

\* No page has changed.
LEMMA SubmissionsSame ==
    ASSUME TInv, TInv', SInv, page' = page, sent' = sent, crowded' = crowded, Len(runs') = Len(runs),
           \A r \in 1..Len(runs) : runs'[r].status = "pending" => runs[r].status = "pending"
    PROVE  SInv'
<1>1. /\ DOMAIN runs = 1..Len(runs) /\ DOMAIN runs' = 1..Len(runs) /\ Len(runs) \in Nat
  BY LenProperties DEF TInv, ValuesOK
<1>2. \A v \in AutoWindows : page[v] \in Pages /\ PageOK(page[v], Len(runs))
  BY PageShape DEF TInv
<1>3. \A v \in AutoWindows : page[v].marked \subseteq 1..Len(runs)
  BY <1>1, <1>2, ToSubmitRuns
<1>4. OneUp' /\ NotYetSent' /\ SubmittedOnce'
  BY DEF SInv, OneUp, NotYetSent, SubmittedOnce, Closed
<1>5. PendingOK'
  BY <1>1, <1>3 DEF SInv, PendingOK
<1> QED BY <1>4, <1>5 DEF SInv

\* What the steps do to the statuses and the submissions.
LEMMA SameWaits == ASSUME ValuesOK, runs' = runs, sent' = sent PROVE NoneWaitsAgain
BY RunsListed DEF NoneWaitsAgain

LEMMA StatusWaits ==
    ASSUME ValuesOK, NEW r, NEW status \in {"running", "over"}, SetsStatus(r, status), sent' = sent
    PROVE  NoneWaitsAgain /\ runs'[r].status = status
<1>1. /\ Len(runs') = Len(runs) /\ Len(runs) \in Nat /\ r \in 1..Len(runs) /\ runs[r] \in RunRows
      /\ runs'[r] = [runs[r] EXCEPT !.status = status] /\ \A s \in 1..Len(runs) : s # r => runs'[s] = runs[s]
  BY RunsListed DEF SetsStatus
<1>2. runs'[r].status = status
  BY <1>1 DEF RunRows
<1>3. \A s \in 1..Len(runs) : s # r => runs'[s].status = runs[s].status
  BY <1>1
<1>4. \A s \in 1..Len(runs) : runs'[s].status = "pending" => runs[s].status = "pending"
  BY <1>2, <1>3
<1>5. Len(runs) <= Len(runs') /\ \A s \in 1..Len(runs') : s \in 1..Len(runs)
  BY <1>1
<1> QED BY <1>2, <1>4, <1>5 DEF NoneWaitsAgain

LEMMA StatusesWait ==
    ASSUME ValuesOK, NEW set, NEW status \in {"deleted", "over"}, SetStatuses(set, status), sent' = sent
    PROVE  NoneWaitsAgain /\ \A r \in 1..Len(runs) : runs'[r].status = IF r \in set THEN status ELSE runs[r].status
<1>1. Len(runs') = Len(runs) /\ Len(runs) \in Nat /\ \A r \in 1..Len(runs) : runs[r] \in RunRows
  BY RunsListed DEF SetStatuses
<1>2. \A r \in 1..Len(runs) : runs'[r].status = IF r \in set THEN status ELSE runs[r].status
  BY <1>1 DEF SetStatuses, RunRows
<1> QED BY <1>1, <1>2 DEF NoneWaitsAgain

LEMMA AddWaits ==
    ASSUME ValuesOK, NEW run, AddsRun(run)
    PROVE  NoneWaitsAgain /\ sent'[Len(runs) + 1] = 0 /\ Len(runs') = Len(runs) + 1 /\ Len(runs) \in Nat
BY RunsListed DEF AddsRun, NoneWaitsAgain, ValuesOK

LEMMA SubmissionsInit == AutomationsInit => SInv
<1> SUFFICES ASSUME AutomationsInit PROVE SInv
  OBVIOUS
<1>1. DOMAIN runs = {} /\ DOMAIN sent = {}
  BY DEF AutomationsInit
<1>2. PICK w \in AutoWindows : page = [x \in AutoWindows |-> IF x = w THEN Booted ELSE Closed]
  BY DEF AutomationsInit
<1>3. Booted.up /\ ~Closed.up /\ Booted.marked = {} /\ Closed.marked = {}
  BY DEF Booted, Closed
<1>4. ToSubmit(Booted) = {} /\ ToSubmit(Closed) = {}
  BY NoQueue DEF Booted, Closed, ToSubmit, Claimed, Queue, DueBatch, InboxBatch
<1>5. \A v \in AutoWindows : page[v] = IF v = w THEN Booted ELSE Closed
  BY <1>2
<1> QED BY <1>1, <1>3, <1>4, <1>5 DEF SInv, OneUp, PendingOK, NotYetSent, SubmittedOnce

LEMMA SubmissionsNext ==
    ASSUME TInv, TInv', SInv, [AutomationsNext]_autoVars
    PROVE  SInv'
<1>0. /\ ValuesOK /\ Len(runs) \in Nat /\ DOMAIN runs = 1..Len(runs) /\ DOMAIN runs' = 1..Len(runs')
      /\ DOMAIN sent = 1..Len(runs) /\ DOMAIN sent' = 1..Len(runs')
  BY RunsListed, LenProperties DEF TInv, ValuesOK
<1>1. \A w \in AutoWindows : /\ page[w] \in Pages /\ PageOK(page[w], Len(runs))
                             /\ page'[w] \in Pages /\ PageOK(page'[w], Len(runs'))
  BY PageShape DEF TInv, ValuesOK
\* The kinds of steps.
<1>2. ASSUME page' = page, runs' = runs, sent' = sent, crowded' = crowded PROVE SInv'
  BY <1>2, SubmissionsSame
<1>3. ASSUME NEW w \in AutoWindows, page[w].up, OnlyPage(w), runs' = runs, sent' = sent, crowded' = crowded,
             Idles(page[w], page'[w]) \/ HandsOver(page[w], page'[w])
      PROVE  SInv'
  <2>1. ToSubmit(page'[w]) = ToSubmit(page[w])
    BY <1>0, <1>1, <1>3, StillToSubmit
  <2>2. SamePage(page[w], page'[w]) /\ page'[w].marked = page[w].marked
    BY <1>3 DEF Idles, HandsOver, SameBegun
  <2> QED BY <1>0, <1>3, <2>1, <2>2, SameWaits, SubmissionsKept
<1>4. ASSUME NEW w \in AutoWindows, page[w].up, OnlyPage(w), NEW run, AddsRun(run), crowded' = crowded,
             Idles(page[w], page'[w]) \/ Gains(page[w], page'[w], Len(runs) + 1)
      PROVE  SInv'
  <2>1. ToSubmit(page'[w]) \subseteq ToSubmit(page[w]) \cup {Len(runs) + 1}
    BY <1>0, <1>1, <1>4, StillToSubmit
  <2>2. SamePage(page[w], page'[w]) /\ page'[w].marked = page[w].marked
    BY <1>4 DEF Idles, Gains, SameBegun
  <2>3. NoneWaitsAgain /\ sent'[Len(runs) + 1] = 0
    BY <1>0, <1>4, AddWaits
  <2> QED BY <1>4, <2>1, <2>2, <2>3, SubmissionsKept
<1>5. ASSUME NEW w \in AutoWindows, NEW r, page[w].up, OnlyPage(w), sent' = sent, crowded' = crowded,
             runs' = runs \/ SetsStatus(r, "over"),
             Drops(page[w], page'[w], r) \/ Ends(page[w], page'[w], r)
      PROVE  SInv'
  <2>1. ToSubmit(page'[w]) \subseteq ToSubmit(page[w])
    BY <1>0, <1>1, <1>5, StillToSubmit
  <2>2. SamePage(page[w], page'[w]) /\ page'[w].marked = page[w].marked
    BY <1>5 DEF Drops, Ends, SameBegun
  <2>3. NoneWaitsAgain
    BY <1>0, <1>5, SameWaits, StatusWaits
  <2> QED BY <1>5, <2>1, <2>2, <2>3, SubmissionsKept
\* The steps.
<1>6. CASE UNCHANGED autoVars
  BY <1>2, <1>6 DEF autoVars, autoStore, autoPast
<1>7. CASE Tick \/ EditLands \/ \E a \in Autos : Edit(a)
  <2>1. page' = page /\ runs' = runs /\ sent' = sent /\ crowded' = crowded
    BY <1>7 DEF Tick, EditLands, Edit, autoStore, autoPast
  <2> QED BY <1>2, <2>1
<1>8. ASSUME NEW a \in Autos, Delete(a) PROVE SInv'
  <2>1. PICK set : SetStatuses(set, "deleted")
    BY <1>0, <1>8, DeleteDoes
  <2>2. page' = page /\ sent' = sent /\ crowded' = crowded
    BY <1>8 DEF Delete
  <2>3. \A r \in 1..Len(runs) : runs'[r].status = "pending" => runs[r].status = "pending"
    BY <1>0, <2>1, <2>2, StatusesWait
  <2> QED BY <2>1, <2>2, <2>3, SubmissionsSame DEF SetStatuses
<1>9. ASSUME NEW w \in AutoWindows, Recover(w) PROVE SInv'
  <2>1. /\ OnlyPage(w) /\ SetStatuses(Interrupted(w), "over") /\ page[w].up
        /\ Recovers(page[w], page'[w], Pending(w)) /\ Pending(w) \subseteq 1..page[w].before
    BY <1>9, RecoverDoes
  <2>2. sent' = sent /\ crowded' = crowded
    BY <1>9 DEF Recover, autoPast
  <2>3. NoneWaitsAgain
    BY <1>0, <2>1, <2>2, StatusesWait
  <2>4. ToSubmit(page'[w]) = ToSubmit(page[w]) \cup Pending(w)
    BY <1>0, <1>1, <2>1, StillToSubmit
  <2>5. \A r \in Pending(w) : sent[r] = 0
    <3>1. \A r \in Pending(w) : r \in 1..Len(runs) /\ runs[r].status \notin Over /\ runs[r].status # "running"
      <4>1. page[w].before \in Nat /\ page[w].before <= Len(runs)
        BY <1>1 DEF Pages, PageOK
      <4> QED BY <1>0, <4>1 DEF Pending, Interrupted
    <3>2. \A r \in Pending(w) : runs[r].status = "pending"
      BY <1>0, <3>1, RunsListed DEF RunRows, Statuses
    <3> QED BY <1>0, <3>1, <3>2 DEF SInv, PendingOK
  <2>6. SamePage(page[w], page'[w]) /\ page'[w].marked = page[w].marked
    BY <2>1 DEF Recovers, SameBegun
  <2> QED BY <2>1, <2>2, <2>3, <2>4, <2>5, <2>6, SubmissionsKept
<1>10. ASSUME NEW w \in AutoWindows, RecoverFails(w) PROVE SInv'
  BY <1>0, <1>3, <1>10, RecoverFailsDoes DEF RecoverFails, autoStore, autoPast
<1>11. ASSUME NEW w \in AutoWindows, ClaimDue(w) PROVE SInv'
  <2>1. PICK status \in {"pending", "over"} :
            /\ AddsRun(Run(page[w].due.auto, "scheduled", page[w].due.expected, status))
            /\ status = "pending" => Gains(page[w], page'[w], Len(runs) + 1)
            /\ status = "over" => Idles(page[w], page'[w])
    BY <1>0, <1>11, ClaimDueDoes
  <2>2. OnlyPage(w) /\ page[w].up /\ crowded' = crowded
    BY <1>0, <1>11, ClaimDueDoes DEF ClaimDue
  <2> QED BY <1>4, <2>1, <2>2
<1>12. ASSUME NEW w \in AutoWindows, EndPass(w) PROVE SInv'
  BY <1>0, <1>3, <1>12, EndPassDoes DEF EndPass, autoStore, autoPast
<1>13. ASSUME NEW w \in AutoWindows, ClaimAppeared(w) PROVE SInv'
  BY <1>0, <1>3, <1>13, ClaimAppearedDoes DEF ClaimAppeared, Ready
<1>14. ASSUME NEW w \in AutoWindows, EndInbox(w) PROVE SInv'
  <2>1. RetryOK(page[w])
    BY DEF TInv
  <2> QED BY <1>0, <1>3, <1>14, <2>1, EndInboxDoes DEF EndInbox, autoPast
<1>15. ASSUME NEW w \in AutoWindows, OpenWindow(w) PROVE SInv'
  <2>1. OnlyPage(w) /\ page'[w] = Booted /\ crowded' = TRUE /\ sent' = sent /\ runs' = runs
    BY <1>0, <1>15, OpenWindowDoes DEF OpenWindow, autoStore
  <2>2. Booted.up /\ Booted.marked = {}
    BY DEF Booted, Closed
  <2>3. OneUp'
    <3>1. ASSUME NEW v \in AutoWindows, ~page'[v].up PROVE page'[v] = Closed
      BY <2>1, <2>2, <3>1 DEF OnlyPage, SInv, OneUp
    <3> QED BY <2>1, <3>1 DEF OneUp, Closed
  <2>4. PendingOK'
    <3>1. \A v \in AutoWindows : page'[v].marked \subseteq page[v].marked
      BY <2>1, <2>2 DEF OnlyPage
    <3> QED BY <2>1, <3>1 DEF SInv, PendingOK
  <2> QED BY <2>1, <2>3, <2>4 DEF SInv, NotYetSent, SubmittedOnce
<1>16. ASSUME NEW w \in AutoWindows, Restart(w) PROVE SInv'
  <2>1. /\ page'[w] = Booted /\ \A v \in AutoWindows \ {w} : page'[v] = Closed
        /\ sent' = sent /\ runs' = runs /\ crowded' = crowded
    BY <1>0, <1>16, RestartDoes DEF Restart, autoStore, autoPast
  <2>2. Booted.up /\ ~Closed.up /\ Booted.marked = {} /\ Closed.marked = {}
    BY DEF Booted, Closed
  <2>3. ToSubmit(Booted) = {} /\ ToSubmit(Closed) = {}
    BY NoQueue DEF Booted, Closed, ToSubmit, Claimed, Queue, DueBatch, InboxBatch
  <2>4. \A v \in AutoWindows : page'[v] = Booted \/ page'[v] = Closed
    BY <2>1
  <2>5. OneUp'
    BY <2>1, <2>2 DEF OneUp, Closed
  <2>6. PendingOK'
    BY <2>1, <2>2, <2>4 DEF SInv, PendingOK
  <2>7. NotYetSent'
    BY <2>3, <2>4, <2>1 DEF NotYetSent
  <2> QED BY <2>1, <2>5, <2>6, <2>7 DEF SInv, SubmittedOnce
<1>17. ASSUME NEW w \in AutoWindows, NEW a \in Autos, StartPass(w, a) PROVE SInv'
  BY <1>0, <1>3, <1>17, StartPassDoes DEF StartPass, Ready, autoStore, autoPast
<1>18. ASSUME NEW w \in AutoWindows, NEW a \in Autos, RunNow(w, a) PROVE SInv'
  BY <1>0, <1>4, <1>18, RunNowDoes DEF RunNow
<1>19. ASSUME NEW w \in AutoWindows, NEW r \in DOMAIN runs, Mark(w, r) PROVE SInv'
  <2>1. OnlyPage(w) /\ Marks(page[w], page'[w], r) /\ SetsStatus(r, "running")
    BY <1>0, <1>19, MarkDoes
  <2>2. sent' = sent /\ crowded' = crowded /\ page[w].up
    BY <1>19 DEF Mark, autoPast
  <2>3. NoneWaitsAgain /\ runs'[r].status = "running"
    BY <1>0, <2>1, <2>2, StatusWaits
  <2>4. ToSubmit(page'[w]) \subseteq ToSubmit(page[w])
    BY <1>0, <1>1, <2>1, StillToSubmit
  <2>5. SamePage(page[w], page'[w]) /\ page'[w].marked = page[w].marked \cup {r}
    BY <2>1 DEF Marks
  <2> QED BY <2>1, <2>2, <2>3, <2>4, <2>5, SubmissionsKept
<1>20. ASSUME NEW w \in AutoWindows, NEW r \in DOMAIN runs, NotFound(w, r) PROVE SInv'
  BY <1>0, <1>5, <1>20, DropDoes DEF NotFound, autoStore, autoPast
<1>21. ASSUME NEW w \in AutoWindows, NEW r \in DOMAIN runs, MarkFails(w, r) PROVE SInv'
  <2>1. runs' = runs \/ SetsStatus(r, "over")
    BY <1>0, <1>21, UpdateDoes DEF MarkFails, Statuses, Over
  <2>2. OnlyPage(w) /\ Drops(page[w], page'[w], r)
    BY <1>0, <1>21, DropDoes DEF MarkFails
  <2>3. sent' = sent /\ crowded' = crowded /\ page[w].up
    BY <1>21 DEF MarkFails
  <2> QED BY <1>5, <2>1, <2>2, <2>3
<1>22. ASSUME NEW w \in AutoWindows, NEW r \in DOMAIN runs, Submit(w, r) PROVE SInv'
  <2>1. OnlyPage(w) /\ Submits(page[w], page'[w], r)
    BY <1>0, <1>22, SubmitDoes
  <2>2. runs' = runs /\ crowded' = crowded /\ page[w].up /\ r \in page[w].marked
    BY <1>22 DEF Submit, autoStore
  <2>3. /\ PageOK(page'[w], Len(runs)) /\ r \in 1..Len(runs)
        /\ r \notin ToSubmit(page'[w]) /\ ToSubmit(page'[w]) \subseteq ToSubmit(page[w])
    BY <1>0, <1>1, <2>1, SubmitOK
  <2>4. /\ sent'[r] = sent[r] + 1 /\ \A s \in 1..Len(runs) : s # r => sent'[s] = sent[s]
        /\ \A s \in 1..Len(runs) : sent[s] \in Nat
    <3>1. sent \in Seq(Nat) /\ r \in 1..Len(sent) /\ Len(sent) = Len(runs)
      BY <1>0, <2>3 DEF ValuesOK
    <3>2. \A s \in 1..Len(runs) : sent[s] \in Nat
      BY <3>1, ElementOfSeq
    <3>3. sent' = [sent EXCEPT ![r] = sent[r] + 1]
      BY <1>22 DEF Submit
    <3> QED BY <1>0, <3>1, <3>2, <3>3
  <2>5. OneUp'
    <3>1. \A v \in AutoWindows : page'[v].up = page[v].up
      BY <2>1 DEF OnlyPage, Submits, SamePage
    <3>2. \A v \in AutoWindows : ~page'[v].up => page'[v] = page[v]
      BY <2>1, <2>2, <3>1 DEF OnlyPage
    <3>3. \A v \in AutoWindows : ~page'[v].up => page'[v] = Closed
      BY <3>1, <3>2 DEF SInv, OneUp
    <3> QED BY <2>2, <3>1, <3>3 DEF SInv, OneUp, Closed
  <2>6. PendingOK'
    <3>1. \A v \in AutoWindows : page'[v].marked \subseteq page[v].marked
      BY <2>1 DEF OnlyPage, Submits
    <3>2. runs[r].status # "pending"
      BY <2>2 DEF SInv, PendingOK
    <3>3. \A s \in 1..Len(runs) : runs[s].status = "pending" => sent'[s] = 0
      BY <1>0, <2>4, <3>2 DEF SInv, PendingOK
    <3> QED BY <1>0, <2>2, <3>1, <3>3 DEF SInv, PendingOK
  <2>7. ASSUME ~crowded, NEW v \in AutoWindows, NEW s \in ToSubmit(page'[v]) PROVE s \in 1..Len(runs) /\ s # r /\ sent[s] = 0
    <3>1. CASE v = w
      <4>1. s \in ToSubmit(page[w]) /\ s # r
        BY <2>3, <2>7, <3>1
      <4> QED BY <1>0, <1>1, <2>7, <4>1, ToSubmitRuns DEF SInv, NotYetSent
    <3>2. CASE v # w
      <4>1. page[v] = Closed
        BY <2>2, <2>7, <3>2 DEF SInv, OneUp
      <4>2. page'[v] = Closed
        BY <2>1, <3>2, <4>1 DEF OnlyPage
      <4>3. ToSubmit(Closed) = {}
        BY NoQueue DEF Closed, ToSubmit, Claimed, Queue, DueBatch, InboxBatch
      <4> QED BY <2>7, <4>2, <4>3
    <3> QED BY <3>1, <3>2
  <2>8. NotYetSent'
    BY <2>2, <2>4, <2>7 DEF NotYetSent
  <2>9. SubmittedOnce'
    <3> SUFFICES ASSUME ~crowded, NEW s \in 1..Len(runs) PROVE sent'[s] <= 1
      BY <1>0, <2>2 DEF SubmittedOnce
    <3>1. r \in ToSubmit(page[w])
      BY <2>2 DEF ToSubmit
    <3>2. sent[r] = 0
      BY <3>1 DEF SInv, NotYetSent
    <3> QED BY <1>0, <2>4, <3>2 DEF SInv, SubmittedOnce
  <2> QED BY <2>5, <2>6, <2>8, <2>9 DEF SInv
<1>23. ASSUME NEW w \in AutoWindows, NEW r \in DOMAIN runs, Settle(w, r) PROVE SInv'
  <2>1. runs' = runs \/ SetsStatus(r, "over")
    BY <1>0, <1>23, UpdateDoes DEF Settle, Statuses, Over
  <2>2. OnlyPage(w) /\ Ends(page[w], page'[w], r)
    BY <1>0, <1>23, EndDoes DEF Settle
  <2>3. sent' = sent /\ crowded' = crowded /\ page[w].up
    BY <1>23 DEF Settle, autoPast
  <2> QED BY <1>5, <2>1, <2>2, <2>3
<1>24. ASSUME NEW w \in AutoWindows, NEW r \in DOMAIN runs, SettleFails(w, r) PROVE SInv'
  BY <1>0, <1>5, <1>24, EndDoes DEF SettleFails, autoStore
<1>25. ASSUME NEW w \in AutoWindows, NEW found \in SUBSET Items, Poll(w, found) PROVE SInv'
  BY <1>0, <1>3, <1>25, PollDoes DEF Poll, autoStore, autoPast
<1>26. ASSUME NEW w \in AutoWindows, NEW a \in Autos, NEW i \in Items, ClaimEvent(w, a, i) PROVE SInv'
  <2>1. crowded' = crowded /\ page[w].up /\ page[w].inbox # None
    BY <1>26 DEF ClaimEvent
  <2>2. CASE autos[a].there /\ MayClaimEvent(a, i)
    <3>1. /\ NewRun(Run(a, "event", i, "pending"))
          /\ page' = [page EXCEPT ![w] = Tried(@, <<a, i>>, {}, {Len(runs) + 1})]
      BY <1>26, <2>2 DEF ClaimEvent
    <3>2. Run(a, "event", i, "pending") \in RunRows
      BY DEF Run, RunRows, Statuses
    <3>3. AddsRun(Run(a, "event", i, "pending"))
      BY <1>0, <3>1, <3>2, NewRunDoes
    <3>4. {Len(runs) + 1} \in SUBSET Nat
      BY <1>0
    <3>5. OnlyPage(w) /\ Gains(page[w], page'[w], Len(runs) + 1)
      BY <1>0, <2>1, <3>1, <3>4, TriedDoes
    <3> QED BY <1>4, <2>1, <3>3, <3>5
  <2>3. CASE ~(autos[a].there /\ MayClaimEvent(a, i))
    <3>1. PICK failed \in SUBSET Items : failed = IF autos[a].there THEN {} ELSE {i}
      OBVIOUS
    <3>2. page' = [page EXCEPT ![w] = Tried(@, <<a, i>>, failed, {})] /\ runs' = runs /\ sent' = sent
      BY <1>26, <2>3, <3>1 DEF ClaimEvent
    <3>3. OnlyPage(w) /\ Idles(page[w], page'[w])
      BY <1>0, <2>1, <3>2, TriedIdles
    <3> QED BY <1>3, <2>1, <3>2, <3>3
  <2> QED BY <2>2, <2>3
<1>27. ASSUME NEW w \in AutoWindows, NEW a \in Autos, NEW i \in Items, ClaimEventFails(w, a, i) PROVE SInv'
  <2>1. crowded' = crowded /\ page[w].up /\ page[w].inbox # None /\ runs' = runs /\ sent' = sent
    BY <1>27 DEF ClaimEventFails, autoStore, autoPast
  <2>2. page' = [page EXCEPT ![w] = Tried(@, <<a, i>>, {i}, {})] /\ {i} \in SUBSET Items
    BY <1>27 DEF ClaimEventFails
  <2>3. OnlyPage(w) /\ Idles(page[w], page'[w])
    BY <1>0, <2>1, <2>2, TriedIdles
  <2> QED BY <1>3, <2>1, <2>3
<1> QED
  BY <1>6, <1>7, <1>8, <1>9, <1>10, <1>11, <1>12, <1>13, <1>14, <1>15, <1>16, <1>17, <1>18,
     <1>19, <1>20, <1>21, <1>22, <1>23, <1>24, <1>25, <1>26, <1>27 DEF AutomationsNext

-----------------------------------------------------------------------------
(* A run that waits or runs is in somebody's hands *)

\* In the hands of a page: it holds the run, or has still to recover it.
HeldBy(p, r) ==
    r \in Claimed(p) \cup Begun(p) \cup Queue(p) \/ (p.up /\ ~p.recovered /\ r <= p.before)

HeldMeans == \A r : Held(r) <=> \E w \in AutoWindows : HeldBy(page[w], r)

LEMMA HeldIsHeld == ValuesOK => HeldMeans
<1> SUFFICES ASSUME ValuesOK, NEW r PROVE Held(r) <=> \E w \in AutoWindows : HeldBy(page[w], r)
  BY DEF HeldMeans
<1>1. \A w \in AutoWindows : DOMAIN page[w].queue = 1..Len(page[w].queue)
  BY PageShape, LenProperties
<1>2. \A w \in AutoWindows : {page[w].queue[i] : i \in DOMAIN page[w].queue} = Queue(page[w])
  BY <1>1 DEF Queue, Members
<1> QED BY <1>2 DEF Held, HeldBy, Claimed, Begun, DueBatch, InboxBatch

LEMMA HeldIsHeldNext == ValuesOK' => HeldMeans'
BY HeldIsHeld, PTL

\* What a page keeps of what it holds.
LEMMA StillHeld ==
    ASSUME NEW p \in Pages, NEW q \in Pages, NEW n \in Nat, PageOK(p, n), NEW r, HeldBy(p, r)
    PROVE  /\ Idles(p, q) => HeldBy(q, r)
           /\ \A x : Gains(p, q, x) => HeldBy(q, r)
           /\ HandsOver(p, q) => HeldBy(q, r)
           /\ \A x : Marks(p, q, x) => HeldBy(q, r)
           /\ \A x : Drops(p, q, x) /\ r # x => HeldBy(q, r)
           /\ \A x : Submits(p, q, x) => HeldBy(q, r)
           /\ \A x : Ends(p, q, x) /\ r # x => HeldBy(q, r)
           /\ \A s : Recovers(p, q, s) /\ (r <= p.before => r \in s) => HeldBy(q, r)
<1>1. Idles(p, q) => HeldBy(q, r)
  BY DEF Idles, SamePage, SameQueue, SameBegun, SameBatches, HeldBy, Claimed, Begun, Queue
<1>2. \A x : Gains(p, q, x) => HeldBy(q, r)
  <2> TAKE x
  <2> HAVE Gains(p, q, x)
  <2>1. Claimed(p) \subseteq Claimed(q) /\ Begun(q) = Begun(p) /\ Queue(q) = Queue(p)
    BY DEF Gains, SameQueue, SameBegun, SameBatches, Claimed, Queue, Begun
  <2> QED BY <2>1 DEF Gains, SamePage, SameQueue, HeldBy
<1>3. HandsOver(p, q) => HeldBy(q, r)
  <2> HAVE HandsOver(p, q)
  <2>1. Claimed(p) = Claimed(q) /\ Begun(q) = Begun(p) /\ Queue(q) = Queue(p)
    BY DEF HandsOver, SameQueue, SameBegun, Claimed, Queue, Begun
  <2> QED BY <2>1 DEF HandsOver, SamePage, SameQueue, HeldBy
<1>4. \A x : Marks(p, q, x) => HeldBy(q, r)
  <2> TAKE x
  <2> HAVE Marks(p, q, x)
  <2>1. Claimed(p) \subseteq Claimed(q) \cup {x} /\ Begun(q) = Begun(p) \cup {x} /\ Queue(q) = Queue(p)
    BY DEF Marks, SameQueue, SameBatches, Claimed, Queue, Begun
  <2> QED BY <2>1 DEF Marks, SamePage, SameQueue, HeldBy
<1>5. \A x : Drops(p, q, x) /\ r # x => HeldBy(q, r)
  <2> TAKE x
  <2> HAVE Drops(p, q, x) /\ r # x
  <2>1. Claimed(p) \subseteq Claimed(q) \cup {x} /\ Begun(q) = Begun(p)
    BY DEF Drops, SameBegun, SameBatches, Claimed, Begun
  <2>2. Queue(p) \ {x} \subseteq Queue(q)
    BY GoneOn DEF Drops, PageOK, QueueOK
  <2> QED BY <2>1, <2>2 DEF Drops, SamePage, GoesOn, HeldBy
<1>6. \A x : Submits(p, q, x) => HeldBy(q, r)
  <2> TAKE x
  <2> HAVE Submits(p, q, x)
  <2>1. Claimed(p) = Claimed(q) /\ Begun(q) = Begun(p) \cup {x}
    BY DEF Submits, SameBatches, Claimed, Begun
  <2>2. Queue(p) \ {x} \subseteq Queue(q)
    BY GoneOn DEF Submits, PageOK, QueueOK
  <2> QED BY <2>1, <2>2 DEF Submits, SamePage, GoesOn, HeldBy
<1>7. \A x : Ends(p, q, x) /\ r # x => HeldBy(q, r)
  <2> TAKE x
  <2> HAVE Ends(p, q, x) /\ r # x
  <2>1. Claimed(p) = Claimed(q) /\ Begun(p) \subseteq Begun(q) \cup {x} /\ Queue(q) = Queue(p)
    BY DEF Ends, SameQueue, SameBatches, Claimed, Queue, Begun
  <2> QED BY <2>1 DEF Ends, SamePage, SameQueue, HeldBy
<1>8. \A s : Recovers(p, q, s) /\ (r <= p.before => r \in s) => HeldBy(q, r)
  <2> TAKE s
  <2> HAVE Recovers(p, q, s) /\ (r <= p.before => r \in s)
  <2>1. Claimed(p) = Claimed(q) /\ Begun(p) = Begun(q) /\ Queue(q) = s
    BY DEF Recovers, SameBegun, SameBatches, Claimed, Queue, Begun
  <2>2. Queue(p) = {}
    BY NoQueue DEF Recovers, PageOK, QueueOK, Queue
  <2> QED BY <2>1, <2>2 DEF HeldBy
<1> QED BY <1>1, <1>2, <1>3, <1>4, <1>5, <1>6, <1>7, <1>8

\* What one page holds is enough, when no other has changed.
LEMMA HandsKept ==
    ASSUME TInv, TInv', HInv, NEW w \in AutoWindows, OnlyPage(w), unreported \subseteq unreported',
           \A r \in 1..Len(runs) : runs'[r].status \notin Over =>
               \/ HeldBy(page'[w], r) \/ r \in unreported'
               \/ runs[r].status \notin Over /\ (HeldBy(page[w], r) => HeldBy(page'[w], r)),
           \A r \in 1..Len(runs') : r \in 1..Len(runs) \/ HeldBy(page'[w], r) \/ runs'[r].status \in Over
    PROVE  HInv'
<1>1. DOMAIN runs = 1..Len(runs) /\ DOMAIN runs' = 1..Len(runs') /\ ValuesOK /\ ValuesOK'
  BY RowsListed DEF TInv
<1>2. \A r : (Held(r) <=> \E v \in AutoWindows : HeldBy(page[v], r))
  BY <1>1, HeldIsHeld DEF HeldMeans
<1>3. \A r : Held(r)' <=> \E v \in AutoWindows : HeldBy(page'[v], r)
  BY <1>1, HeldIsHeldNext DEF HeldMeans
<1>4. ASSUME NEW r \in 1..Len(runs'), runs'[r].status \notin Over
      PROVE  r \in unreported' \/ \E v \in AutoWindows : HeldBy(page'[v], r)
  <2>1. CASE HeldBy(page'[w], r) \/ r \in unreported'
    BY <2>1
  <2>2. CASE ~(HeldBy(page'[w], r) \/ r \in unreported')
    <3>1. r \in 1..Len(runs) /\ runs[r].status \notin Over /\ (HeldBy(page[w], r) => HeldBy(page'[w], r))
      BY <1>4, <2>2
    <3>2. PICK v \in AutoWindows : HeldBy(page[v], r)
      BY <1>1, <1>2, <2>2, <3>1 DEF HInv
    <3>3. v # w
      BY <2>2, <3>1, <3>2
    <3> QED BY <3>2, <3>3 DEF OnlyPage
  <2> QED BY <2>1, <2>2
<1>5. ASSUME NEW r \in 1..Len(runs'), runs'[r].status \notin Over PROVE Held(r)' \/ r \in unreported'
  BY <1>3, <1>4, <1>5
<1> QED BY <1>1, <1>5 DEF HInv
\* Most steps take one page on and leave every row that was over, over.
LEMMA HandsInit == AutomationsInit => HInv
BY EmptySeq DEF AutomationsInit, HInv

LEMMA HandsNext ==
    ASSUME TInv, TInv', SInv, HInv, [AutomationsNext]_autoVars
    PROVE  HInv'
<1>0. /\ ValuesOK /\ Len(runs) \in Nat /\ DOMAIN runs = 1..Len(runs) /\ DOMAIN runs' = 1..Len(runs')
      /\ \A r \in 1..Len(runs) : runs[r] \in RunRows
  BY RunsListed, RowsListed DEF TInv
<1>1. \A w \in AutoWindows : page[w] \in Pages /\ PageOK(page[w], Len(runs)) /\ page'[w] \in Pages
  BY PageShape DEF TInv, ValuesOK
<1>2. "over" \in Over /\ "deleted" \in Over
  BY DEF Over
\* The kinds of steps.
<1>3. ASSUME page' = page, Len(runs') = Len(runs), unreported' = unreported,
             \A r \in 1..Len(runs) : runs[r].status \in Over => runs'[r].status \in Over
      PROVE  HInv'
  <2>1. \A r : Held(r)' <=> Held(r)
    BY <1>3 DEF Held
  <2> QED BY <1>0, <1>3, <2>1 DEF HInv
<1>4. ASSUME NEW w \in AutoWindows, OnlyPage(w), runs' = runs, unreported' = unreported,
             Idles(page[w], page'[w]) \/ HandsOver(page[w], page'[w])
      PROVE  HInv'
  <2>1. \A r : HeldBy(page[w], r) => HeldBy(page'[w], r)
    BY <1>0, <1>1, <1>4, StillHeld
  <2> QED BY <1>0, <1>4, <2>1, HandsKept
<1>5. ASSUME NEW w \in AutoWindows, OnlyPage(w), NEW run, AddsRun(run), unreported' = unreported,
             \/ Gains(page[w], page'[w], Len(runs) + 1)
             \/ Idles(page[w], page'[w]) /\ run.status \in Over
      PROVE  HInv'
  <2>1. \A r : HeldBy(page[w], r) => HeldBy(page'[w], r)
    BY <1>0, <1>1, <1>5, StillHeld
  <2>2. HeldBy(page'[w], Len(runs) + 1) \/ runs'[Len(runs) + 1].status \in Over
    BY <1>5 DEF AddsRun, Gains, HeldBy, Claimed
  <2>3. \A r \in 1..Len(runs) : runs'[r] = runs[r]
    BY <1>5 DEF AddsRun
  <2>4. \A r \in 1..Len(runs') : r \in 1..Len(runs) \/ r = Len(runs) + 1
    BY <1>0, <1>5 DEF AddsRun
  <2> QED BY <1>5, <2>1, <2>2, <2>3, <2>4, HandsKept
<1>6. ASSUME NEW w \in AutoWindows, NEW r, OnlyPage(w), unreported \subseteq unreported',
             Drops(page[w], page'[w], r) \/ Ends(page[w], page'[w], r),
             \/ runs' = runs /\ (r \in unreported' \/ runs[r].status \in Over)
             \/ SetsStatus(r, "over")
      PROVE  HInv'
  <2>1. \A s : HeldBy(page[w], s) /\ s # r => HeldBy(page'[w], s)
    BY <1>0, <1>1, <1>6, StillHeld
  <2>2. Len(runs') = Len(runs) /\ \A s \in 1..Len(runs) : s # r => runs'[s] = runs[s]
    BY <1>6 DEF SetsStatus
  <2>3. r \in 1..Len(runs) => r \in unreported' \/ runs'[r].status \in Over
    BY <1>0, <1>2, <1>6 DEF SetsStatus, RunRows
  <2> QED BY <1>6, <2>1, <2>2, <2>3, HandsKept
\* The steps.
<1>7. CASE UNCHANGED autoVars
  BY <1>3, <1>7 DEF autoVars, autoStore, autoPast
<1>8. CASE Tick \/ EditLands \/ \E a \in Autos : Edit(a)
  <2>1. page' = page /\ runs' = runs /\ unreported' = unreported
    BY <1>8 DEF Tick, EditLands, Edit, autoStore, autoPast
  <2> QED BY <1>3, <2>1
<1>9. ASSUME NEW a \in Autos, Delete(a) PROVE HInv'
  <2>1. PICK set : SetStatuses(set, "deleted")
    BY <1>0, <1>9, DeleteDoes
  <2>2. page' = page /\ unreported' = unreported
    BY <1>9 DEF Delete
  <2>3. \A r \in 1..Len(runs) : runs[r].status \in Over => runs'[r].status \in Over
    BY <1>0, <1>2, <2>1 DEF SetStatuses, RunRows
  <2> QED BY <1>3, <2>1, <2>2, <2>3 DEF SetStatuses
<1>10. ASSUME NEW w \in AutoWindows, Recover(w) PROVE HInv'
  <2>1. /\ OnlyPage(w) /\ SetStatuses(Interrupted(w), "over")
        /\ Recovers(page[w], page'[w], Pending(w))
    BY <1>10, RecoverDoes
  <2>2. unreported' = unreported
    BY <1>10 DEF Recover, autoPast
  <2>3. Len(runs') = Len(runs) /\ \A r \in 1..Len(runs) :
            /\ r \in Interrupted(w) => runs'[r].status = "over"
            /\ r \notin Interrupted(w) => runs'[r] = runs[r]
    BY <1>0, <2>1 DEF SetStatuses, RunRows
  <2>4. page[w].before \in Nat
    BY <1>1 DEF Pages
  <2>5. ASSUME NEW r \in 1..Len(runs), runs'[r].status \notin Over
        PROVE  runs[r].status \notin Over /\ (HeldBy(page[w], r) => HeldBy(page'[w], r))
    <3>1. r \notin Interrupted(w) /\ runs[r].status \notin Over
      BY <1>2, <2>3, <2>5
    <3>2. r <= page[w].before => r \in Pending(w)
      BY <2>4, <3>1 DEF Pending
    <3> QED BY <1>0, <1>1, <2>1, <3>1, <3>2, StillHeld
  <2> QED BY <2>1, <2>2, <2>3, <2>5, HandsKept
<1>11. ASSUME NEW w \in AutoWindows, RecoverFails(w) PROVE HInv'
  BY <1>0, <1>4, <1>11, RecoverFailsDoes DEF RecoverFails, autoStore, autoPast
<1>12. ASSUME NEW w \in AutoWindows, ClaimDue(w) PROVE HInv'
  <2>1. PICK status \in {"pending", "over"} :
            /\ AddsRun(Run(page[w].due.auto, "scheduled", page[w].due.expected, status))
            /\ status = "pending" => Gains(page[w], page'[w], Len(runs) + 1)
            /\ status = "over" => Idles(page[w], page'[w])
    BY <1>0, <1>12, ClaimDueDoes
  <2>2. OnlyPage(w) /\ unreported' = unreported
    BY <1>0, <1>12, ClaimDueDoes DEF ClaimDue
  <2>3. Run(page[w].due.auto, "scheduled", page[w].due.expected, status).status = status
    BY DEF Run
  <2> QED BY <1>2, <1>5, <2>1, <2>2, <2>3
<1>13. ASSUME NEW w \in AutoWindows, EndPass(w) PROVE HInv'
  BY <1>0, <1>4, <1>13, EndPassDoes DEF EndPass, autoStore, autoPast
<1>14. ASSUME NEW w \in AutoWindows, ClaimAppeared(w) PROVE HInv'
  BY <1>0, <1>4, <1>14, ClaimAppearedDoes DEF ClaimAppeared
<1>15. ASSUME NEW w \in AutoWindows, EndInbox(w) PROVE HInv'
  <2>1. RetryOK(page[w])
    BY DEF TInv
  <2> QED BY <1>0, <1>4, <1>15, <2>1, EndInboxDoes DEF EndInbox, autoPast
<1>16. ASSUME NEW w \in AutoWindows, OpenWindow(w) PROVE HInv'
  <2>1. OnlyPage(w) /\ page[w] = Closed /\ unreported' = unreported /\ runs' = runs
    BY <1>0, <1>16, OpenWindowDoes DEF OpenWindow, autoStore, SInv, OneUp
  <2>2. \A r : ~HeldBy(Closed, r)
    BY NoQueue DEF Closed, HeldBy, Claimed, Begun, Queue, DueBatch, InboxBatch
  <2> QED BY <1>0, <2>1, <2>2, HandsKept
<1>17. ASSUME NEW w \in AutoWindows, Restart(w) PROVE HInv'
  <2>1. page'[w] = Booted /\ unreported' = unreported /\ runs' = runs
    BY <1>0, <1>17, RestartDoes DEF Restart, autoStore, autoPast
  <2>2. Booted.up /\ ~Booted.recovered /\ Booted.before = Len(runs)
    BY DEF Booted, Closed
  <2>3. \A r \in 1..Len(runs) : HeldBy(page'[w], r)
    BY <1>0, <2>1, <2>2 DEF HeldBy
  <2>4. \A r \in 1..Len(runs) : Held(r)'
    BY <2>3, HeldIsHeldNext DEF HeldMeans, TInv
  <2> QED BY <1>0, <2>1, <2>4 DEF HInv
<1>18. ASSUME NEW w \in AutoWindows, NEW a \in Autos, StartPass(w, a) PROVE HInv'
  BY <1>0, <1>4, <1>18, StartPassDoes DEF StartPass, autoStore, autoPast
<1>19. ASSUME NEW w \in AutoWindows, NEW a \in Autos, RunNow(w, a) PROVE HInv'
  BY <1>0, <1>5, <1>19, RunNowDoes DEF RunNow
<1>20. ASSUME NEW w \in AutoWindows, NEW r \in DOMAIN runs, Mark(w, r) PROVE HInv'
  <2>1. OnlyPage(w) /\ Marks(page[w], page'[w], r) /\ SetsStatus(r, "running")
    BY <1>0, <1>20, MarkDoes
  <2>2. unreported' = unreported
    BY <1>20 DEF Mark, autoPast
  <2>3. \A s : HeldBy(page[w], s) => HeldBy(page'[w], s)
    BY <1>0, <1>1, <2>1, StillHeld
  <2>4. HeldBy(page'[w], r)
    BY <2>1 DEF Marks, HeldBy, Begun
  <2>5. Len(runs') = Len(runs) /\ \A s \in 1..Len(runs) : s # r => runs'[s] = runs[s]
    BY <2>1 DEF SetsStatus
  <2> QED BY <2>1, <2>2, <2>3, <2>4, <2>5, HandsKept
<1>21. ASSUME NEW w \in AutoWindows, NEW r \in DOMAIN runs, NotFound(w, r) PROVE HInv'
  <2>1. OnlyPage(w) /\ Drops(page[w], page'[w], r)
    BY <1>0, <1>21, DropDoes DEF NotFound
  <2>2. runs' = runs /\ unreported' = unreported /\ runs[r].status = "deleted"
    BY <1>21 DEF NotFound, There, autoStore, autoPast
  <2> QED BY <1>2, <1>6, <2>1, <2>2
<1>22. ASSUME NEW w \in AutoWindows, NEW r \in DOMAIN runs, MarkFails(w, r) PROVE HInv'
  <2>1. (SetsStatus(r, "over") /\ unreported' = unreported) \/ (runs' = runs /\ unreported' = unreported \cup {r})
    <3>1. Update(r, "over") => SetsStatus(r, "over")
      BY <1>0, UpdateDoes DEF Statuses, Over
    <3> QED BY <3>1, <1>22 DEF MarkFails
  <2>2. OnlyPage(w) /\ Drops(page[w], page'[w], r)
    BY <1>0, <1>22, DropDoes DEF MarkFails
  <2>3. unreported \subseteq unreported'
    BY <2>1
  <2>4. (runs' = runs /\ r \in unreported') \/ SetsStatus(r, "over")
    BY <2>1
  <2> QED BY <1>6, <2>2, <2>3, <2>4
<1>23. ASSUME NEW w \in AutoWindows, NEW r \in DOMAIN runs, Submit(w, r) PROVE HInv'
  <2>1. OnlyPage(w) /\ Submits(page[w], page'[w], r)
    BY <1>0, <1>23, SubmitDoes
  <2>2. runs' = runs /\ unreported' = unreported
    BY <1>23 DEF Submit, autoStore
  <2>3. \A s : HeldBy(page[w], s) => HeldBy(page'[w], s)
    BY <1>0, <1>1, <2>1, StillHeld
  <2> QED BY <1>0, <2>1, <2>2, <2>3, HandsKept
<1>24. ASSUME NEW w \in AutoWindows, NEW r \in DOMAIN runs, Settle(w, r) PROVE HInv'
  <2>1. SetsStatus(r, "over") \/ (runs' = runs /\ runs[r].status = "deleted")
    <3>1. Update(r, "over") => SetsStatus(r, "over")
      BY <1>0, UpdateDoes DEF Statuses, Over
    <3> QED BY <3>1, <1>24 DEF Settle, There
  <2>2. OnlyPage(w) /\ Ends(page[w], page'[w], r)
    BY <1>0, <1>24, EndDoes DEF Settle
  <2>3. unreported' = unreported
    BY <1>24 DEF Settle, autoPast
  <2> QED BY <1>2, <1>6, <2>1, <2>2, <2>3
<1>25. ASSUME NEW w \in AutoWindows, NEW r \in DOMAIN runs, SettleFails(w, r) PROVE HInv'
  <2>1. OnlyPage(w) /\ Ends(page[w], page'[w], r)
    BY <1>0, <1>25, EndDoes DEF SettleFails
  <2>2. runs' = runs /\ unreported' = unreported \cup {r}
    BY <1>25 DEF SettleFails, autoStore
  <2>3. unreported \subseteq unreported' /\ r \in unreported'
    BY <2>2
  <2> QED BY <1>6, <2>1, <2>2, <2>3
<1>26. ASSUME NEW w \in AutoWindows, NEW found \in SUBSET Items, Poll(w, found) PROVE HInv'
  BY <1>0, <1>4, <1>26, PollDoes DEF Poll, autoStore, autoPast
<1>27. ASSUME NEW w \in AutoWindows, NEW a \in Autos, NEW i \in Items, ClaimEvent(w, a, i) PROVE HInv'
  <2>1. unreported' = unreported /\ page[w].inbox # None
    BY <1>27 DEF ClaimEvent
  <2>2. CASE autos[a].there /\ MayClaimEvent(a, i)
    <3>1. /\ NewRun(Run(a, "event", i, "pending"))
          /\ page' = [page EXCEPT ![w] = Tried(@, <<a, i>>, {}, {Len(runs) + 1})]
      BY <1>27, <2>2 DEF ClaimEvent
    <3>2. Run(a, "event", i, "pending") \in RunRows
      BY DEF Run, RunRows, Statuses
    <3>3. AddsRun(Run(a, "event", i, "pending"))
      BY <1>0, <3>1, <3>2, NewRunDoes
    <3>4. {Len(runs) + 1} \in SUBSET Nat
      BY <1>0
    <3>5. OnlyPage(w) /\ Gains(page[w], page'[w], Len(runs) + 1)
      BY <1>0, <2>1, <3>1, <3>4, TriedDoes
    <3> QED BY <1>5, <2>1, <3>3, <3>5
  <2>3. CASE ~(autos[a].there /\ MayClaimEvent(a, i))
    <3>1. PICK failed \in SUBSET Items : failed = IF autos[a].there THEN {} ELSE {i}
      OBVIOUS
    <3>2. page' = [page EXCEPT ![w] = Tried(@, <<a, i>>, failed, {})] /\ runs' = runs
      BY <1>27, <2>3, <3>1 DEF ClaimEvent
    <3>3. OnlyPage(w) /\ Idles(page[w], page'[w])
      BY <1>0, <2>1, <3>2, TriedIdles
    <3> QED BY <1>4, <2>1, <3>2, <3>3
  <2> QED BY <2>2, <2>3
<1>28. ASSUME NEW w \in AutoWindows, NEW a \in Autos, NEW i \in Items, ClaimEventFails(w, a, i) PROVE HInv'
  <2>1. page[w].inbox # None /\ runs' = runs /\ unreported' = unreported
    BY <1>28 DEF ClaimEventFails, autoStore, autoPast
  <2>2. page' = [page EXCEPT ![w] = Tried(@, <<a, i>>, {i}, {})] /\ {i} \in SUBSET Items
    BY <1>28 DEF ClaimEventFails
  <2>3. OnlyPage(w) /\ Idles(page[w], page'[w])
    BY <1>0, <2>1, <2>2, TriedIdles
  <2> QED BY <1>4, <2>1, <2>3
<1> QED
  BY <1>7, <1>8, <1>9, <1>10, <1>11, <1>12, <1>13, <1>14, <1>15, <1>16, <1>17, <1>18,
     <1>19, <1>20, <1>21, <1>22, <1>23, <1>24, <1>25, <1>26, <1>27, <1>28 DEF AutomationsNext
-----------------------------------------------------------------------------
(* An item that was kept stays kept until it is claimed *)

\* The claims of an automation that is left alone are left alone.
ClaimsStand ==
    edited \subseteq edited' /\ \A a \in Autos \ edited', i \in Items : <<a, i>> \in claims => <<a, i>> \in claims'

LEMMA PassItemsTyped ==
    ASSUME ValuesOK, NEW w \in AutoWindows, page[w].inbox # None
    PROVE  page[w].inbox.items \subseteq Items /\ page[w].inbox.todo \subseteq Autos \X Items
BY PageShape DEF InboxPasses

\* A step that leaves the items alone.
LEMMA ItemsKept ==
    ASSUME TInv, KInv, ClaimsStand, crowded' = crowded, stored' = stored, kept' = kept,
           \A w \in AutoWindows : SameInbox(page[w], page'[w])
    PROVE  KInv'
<1> SUFFICES ASSUME ~crowded PROVE KInv'
  BY DEF KInv
<1>1. kept \subseteq Items /\ edited \subseteq edited'
  BY DEF TInv, ValuesOK, ClaimsStand
<1>2. ASSUME NEW i \in kept, NEW a \in Autos \ edited' PROVE <<a, i>> \in claims' \/ i \in stored'
  BY <1>1 DEF KInv, ClaimsStand
<1>3. ASSUME NEW w \in AutoWindows
      PROVE  /\ page'[w].retry # None \/ page'[w].inbox # None => page'[w].retry = stored'
             /\ PassItems(page[w])'
  <2>1. page'[w].retry = page[w].retry /\ page'[w].inbox = page[w].inbox
    BY DEF SameInbox
  <2>2. ASSUME page[w].inbox # None, NEW i \in page[w].inbox.items, NEW a \in Autos \ edited'
        PROVE  <<a, i>> \in page[w].inbox.todo \/ i \in page[w].inbox.failed \/ <<a, i>> \in claims'
    <3>1. i \in Items
      BY <2>2, PassItemsTyped DEF TInv
    <3>2. <<a, i>> \in page[w].inbox.todo \/ i \in page[w].inbox.failed \/ <<a, i>> \in claims
      BY <1>1, <2>2 DEF KInv, PassItems
    <3> QED BY <3>1, <3>2 DEF ClaimsStand
  <2> QED BY <2>1, <2>2 DEF KInv, PassItems
<1> QED BY <1>2, <1>3 DEF KInv

\* The same, of a step that takes one page on.
LEMMA ItemsKeptBut ==
    ASSUME TInv, KInv, NEW w \in AutoWindows, OnlyPage(w), SameInbox(page[w], page'[w]), ClaimsStand,
           crowded' = crowded, stored' = stored, kept' = kept
    PROVE  KInv'
<1>1. \A v \in AutoWindows : SameInbox(page[v], page'[v])
  BY DEF OnlyPage, SameInbox
<1> QED BY <1>1, ItemsKept

\* A step of the one window that is open.
LEMMA ItemsOfOne ==
    ASSUME TInv, SInv, NEW w \in AutoWindows, page[w].up, OnlyPage(w), crowded' = crowded,
           ~crowded =>
               /\ page'[w].retry # None \/ page'[w].inbox # None => page'[w].retry = stored'
               /\ PassItems(page[w])'
               /\ \A i \in kept', a \in Autos \ edited' : <<a, i>> \in claims' \/ i \in stored'
    PROVE  KInv'
<1> SUFFICES ASSUME ~crowded PROVE KInv'
  BY DEF KInv
<1>1. ASSUME NEW v \in AutoWindows, v # w PROVE page'[v].retry = None /\ page'[v].inbox = None
  <2>1. page'[v] = page[v] /\ page[v] = Closed
    BY <1>1 DEF OnlyPage, SInv, OneUp
  <2> QED BY <2>1 DEF Closed
<1>2. \A v \in AutoWindows :
          /\ page'[v].retry # None \/ page'[v].inbox # None => page'[v].retry = stored'
          /\ PassItems(page[v])'
  <2> TAKE v \in AutoWindows
  <2>1. CASE v = w
    BY <2>1
  <2>2. CASE v # w
    BY <1>1, <2>2 DEF PassItems
  <2> QED BY <2>1, <2>2
<1> QED BY <1>2 DEF KInv

\* A claim of a pass is tried: it failed, or the item is claimed.
LEMMA ItemsTried ==
    ASSUME TInv, SInv, RInv, KInv, NEW w \in AutoWindows, page[w].up, OnlyPage(w), page[w].inbox # None,
           NEW a \in Autos, NEW i \in Items, NEW failed, NEW batch,
           Tries(page[w], page'[w], <<a, i>>, failed, batch),
           crowded' = crowded, stored' = stored, kept' = kept, edited' = edited, claims \subseteq claims',
           a \notin edited => i \in failed \/ <<a, i>> \in claims'
    PROVE  KInv'
<1> SUFFICES ASSUME ~crowded PROVE KInv'
  BY DEF KInv
<1>1. page'[w].retry = page[w].retry /\ page[w].retry = stored
  BY DEF KInv, Tries
<1>2. \A j \in kept, b \in Autos \ edited : <<b, j>> \in claims' \/ j \in stored
  BY DEF KInv
<1>3. ASSUME NEW j \in page'[w].inbox.items, NEW b \in Autos \ edited
      PROVE  <<b, j>> \in page'[w].inbox.todo \/ j \in page'[w].inbox.failed \/ <<b, j>> \in claims'
  <2>1. <<b, j>> \in page[w].inbox.todo \/ j \in page[w].inbox.failed \/ <<b, j>> \in claims
    BY <1>3 DEF Tries, KInv, PassItems
  <2>2. CASE <<b, j>> = <<a, i>>
    <3>1. b = a /\ j = i
      BY <2>2
    <3> QED BY <3>1 DEF Tries
  <2>3. CASE <<b, j>> # <<a, i>>
    BY <2>1, <2>3 DEF Tries
  <2> QED BY <2>2, <2>3
<1>4. PassItems(page[w])'
  BY <1>3 DEF PassItems
<1> QED BY <1>1, <1>2, <1>4, ItemsOfOne

LEMMA ItemsInit == AutomationsInit => KInv
<1> SUFFICES ASSUME AutomationsInit PROVE KInv
  OBVIOUS
<1>1. PICK w \in AutoWindows : page = [x \in AutoWindows |-> IF x = w THEN Booted ELSE Closed]
  BY DEF AutomationsInit
<1>2. \A v \in AutoWindows : page[v].retry = None /\ page[v].inbox = None
  BY <1>1 DEF Booted, Closed
<1>3. kept = {}
  BY DEF AutomationsInit
<1> QED BY <1>2, <1>3 DEF KInv, PassItems

LEMMA ItemsNext ==
    ASSUME TInv, RInv, SInv, KInv, [AutomationsNext]_autoVars
    PROVE  KInv'
<1>0. ValuesOK /\ Len(runs) \in Nat
  BY RunsListed DEF TInv
\* The kinds of steps.
<1>1. ASSUME page' = page, claims' = claims, edited' = edited, crowded' = crowded, stored' = stored, kept' = kept
      PROVE  KInv'
  BY <1>1, ItemsKept DEF ClaimsStand, SameInbox
<1>2. ASSUME NEW w \in AutoWindows, OnlyPage(w), SameInbox(page[w], page'[w]), claims' = claims, edited' = edited,
             crowded' = crowded, stored' = stored, kept' = kept
      PROVE  KInv'
  BY <1>2, ItemsKeptBut DEF ClaimsStand
\* The steps.
<1>3. CASE UNCHANGED autoVars
  BY <1>1, <1>3 DEF autoVars, autoStore, autoPast
<1>4. CASE Tick \/ \E a \in Autos : Edit(a)
  BY <1>1, <1>4 DEF Tick, Edit, autoStore, autoPast
<1>5. CASE EditLands
  <2>1. /\ page' = page /\ claims' = claims /\ edited \subseteq edited'
        /\ crowded' = crowded /\ stored' = stored /\ kept' = kept
    BY <1>5 DEF EditLands
  <2> QED BY <2>1, ItemsKept DEF ClaimsStand, SameInbox
<1>6. ASSUME NEW a \in Autos, Delete(a) PROVE KInv'
  <2>1. /\ page' = page /\ claims' = {c \in claims : c[1] # a} /\ edited' = edited \cup {a}
        /\ crowded' = crowded /\ stored' = stored /\ kept' = kept
    BY <1>6 DEF Delete
  <2>2. \A b \in Autos \ edited', i \in Items : <<b, i>> \in claims => <<b, i>> \in claims'
    BY <2>1
  <2>3. edited \subseteq edited'
    BY <2>1
  <2> QED BY <2>1, <2>2, <2>3, ItemsKept DEF ClaimsStand, SameInbox
<1>7. ASSUME NEW w \in AutoWindows, Recover(w) PROVE KInv'
  BY <1>2, <1>7, RecoverDoes DEF Recover, autoPast
<1>8. ASSUME NEW w \in AutoWindows, RecoverFails(w) PROVE KInv'
  BY <1>0, <1>2, <1>8, RecoverFailsDoes DEF RecoverFails, autoStore, autoPast
<1>9. ASSUME NEW w \in AutoWindows, ClaimDue(w) PROVE KInv'
  BY <1>0, <1>2, <1>9, ClaimDueDoes DEF ClaimDue
<1>10. ASSUME NEW w \in AutoWindows, EndPass(w) PROVE KInv'
  BY <1>0, <1>2, <1>10, EndPassDoes DEF EndPass, autoStore, autoPast
<1>11. ASSUME NEW w \in AutoWindows, ClaimAppeared(w) PROVE KInv'
  <2>1. /\ OnlyPage(w) /\ page'[w].retry = Queued(page[w])
        /\ page'[w].inbox =
               [todo |-> {a \in Autos : autos[a].there /\ autos[a].enabled} \X Queued(page[w]),
                items |-> Queued(page[w]), failed |-> {}, batch |-> {}]
    BY <1>0, <1>11, ClaimAppearedDoes
  <2>2. /\ stored' = Queued(page[w]) /\ kept' = kept \cup Queued(page[w]) /\ claims' = claims /\ edited' = edited
        /\ crowded' = crowded /\ page[w].up
    BY <1>11 DEF ClaimAppeared, Ready
  <2>3. ~crowded => stored \subseteq Queued(page[w])
    BY DEF KInv, Queued
  <2>4. PassItems(page[w])'
    BY <2>1, <2>2 DEF PassItems, RInv, Untouched
  <2>5. ~crowded => \A i \in kept', a \in Autos \ edited' : <<a, i>> \in claims' \/ i \in stored'
    BY <2>2, <2>3 DEF KInv
  <2> QED BY <2>1, <2>2, <2>4, <2>5, ItemsOfOne
<1>12. ASSUME NEW w \in AutoWindows, EndInbox(w) PROVE KInv'
  <2>1. OnlyPage(w) /\ page'[w].retry = Retained(page[w]) /\ page'[w].inbox = None
    BY <1>0, <1>12, EndInboxDoes DEF TInv
  <2>2. /\ stored' = Retained(page[w]) /\ kept' = kept /\ claims' = claims /\ edited' = edited
        /\ crowded' = crowded /\ page[w].up /\ page[w].inbox # None /\ page[w].inbox.todo = {}
    BY <1>12 DEF EndInbox, autoPast
  <2>3. ASSUME ~crowded, NEW i \in kept, NEW a \in Autos \ edited PROVE <<a, i>> \in claims \/ i \in Retained(page[w])
    <3>1. <<a, i>> \in claims \/ i \in page[w].retry
      BY <2>2, <2>3 DEF KInv
    <3>2. i \in page[w].inbox.items => i \in page[w].inbox.failed \/ <<a, i>> \in claims
      BY <2>2, <2>3 DEF KInv, PassItems
    <3> QED BY <3>1, <3>2 DEF Retained
  <2>4. PassItems(page[w])'
    BY <2>1 DEF PassItems
  <2> QED BY <2>1, <2>2, <2>3, <2>4, ItemsOfOne
<1>13. ASSUME NEW w \in AutoWindows, OpenWindow(w) PROVE KInv'
  BY <1>13 DEF OpenWindow, KInv
<1>14. ASSUME NEW w \in AutoWindows, Restart(w) PROVE KInv'
  <2>1. /\ page'[w] = Booted /\ \A v \in AutoWindows \ {w} : page'[v] = Closed
        /\ claims' = claims /\ edited' = edited /\ crowded' = crowded /\ stored' = stored /\ kept' = kept
    BY <1>0, <1>14, RestartDoes DEF Restart, autoStore, autoPast
  <2>2. \A v \in AutoWindows : page'[v].retry = None /\ page'[v].inbox = None
    <3>1. \A v \in AutoWindows : page'[v] = Booted \/ page'[v] = Closed
      BY <2>1
    <3>2. Booted.retry = None /\ Booted.inbox = None /\ Closed.retry = None /\ Closed.inbox = None
      BY DEF Booted, Closed
    <3> QED BY <3>1, <3>2
  <2> QED BY <2>1, <2>2 DEF KInv, PassItems
<1>15. ASSUME NEW w \in AutoWindows, NEW a \in Autos, StartPass(w, a) PROVE KInv'
  BY <1>0, <1>2, <1>15, StartPassDoes DEF StartPass, autoStore, autoPast
<1>16. ASSUME NEW w \in AutoWindows, NEW a \in Autos, RunNow(w, a) PROVE KInv'
  BY <1>0, <1>2, <1>16, RunNowDoes DEF RunNow
<1>17. ASSUME NEW w \in AutoWindows, NEW r \in DOMAIN runs, Mark(w, r) PROVE KInv'
  BY <1>0, <1>2, <1>17, MarkDoes DEF Mark, autoPast
<1>18. ASSUME NEW w \in AutoWindows, NEW r \in DOMAIN runs, NotFound(w, r) PROVE KInv'
  BY <1>0, <1>2, <1>18, DropDoes DEF NotFound, autoStore, autoPast
<1>19. ASSUME NEW w \in AutoWindows, NEW r \in DOMAIN runs, MarkFails(w, r) PROVE KInv'
  BY <1>0, <1>2, <1>19, DropDoes DEF MarkFails
<1>20. ASSUME NEW w \in AutoWindows, NEW r \in DOMAIN runs, Submit(w, r) PROVE KInv'
  BY <1>0, <1>2, <1>20, SubmitDoes DEF Submit, autoStore
<1>21. ASSUME NEW w \in AutoWindows, NEW r \in DOMAIN runs, Settle(w, r) PROVE KInv'
  BY <1>0, <1>2, <1>21, EndDoes DEF Settle, autoPast
<1>22. ASSUME NEW w \in AutoWindows, NEW r \in DOMAIN runs, SettleFails(w, r) PROVE KInv'
  BY <1>0, <1>2, <1>22, EndDoes DEF SettleFails, autoStore
<1>23. ASSUME NEW w \in AutoWindows, NEW found \in SUBSET Items, Poll(w, found) PROVE KInv'
  BY <1>0, <1>2, <1>23, PollDoes DEF Poll, autoStore, autoPast
<1>24. ASSUME NEW w \in AutoWindows, NEW a \in Autos, NEW i \in Items, ClaimEvent(w, a, i) PROVE KInv'
  <2>1. /\ page[w].up /\ page[w].inbox # None
        /\ stored' = stored /\ kept' = kept /\ edited' = edited /\ crowded' = crowded
    BY <1>24 DEF ClaimEvent
  <2>2. CASE autos[a].there /\ MayClaimEvent(a, i)
    <3>1. page' = [page EXCEPT ![w] = Tried(@, <<a, i>>, {}, {Len(runs) + 1})] /\ claims' = claims \cup {<<a, i>>}
      BY <1>24, <2>2 DEF ClaimEvent
    <3>2. {Len(runs) + 1} \in SUBSET Nat
      BY <1>0
    <3>3. OnlyPage(w) /\ Tries(page[w], page'[w], <<a, i>>, {}, {Len(runs) + 1})
      BY <1>0, <2>1, <3>1, <3>2, TriedDoes
    <3>4. claims \subseteq claims' /\ <<a, i>> \in claims'
      BY <3>1
    <3> QED BY <2>1, <3>3, <3>4, ItemsTried
  <2>3. CASE ~(autos[a].there /\ MayClaimEvent(a, i))
    <3>1. PICK failed \in SUBSET Items : failed = IF autos[a].there THEN {} ELSE {i}
      OBVIOUS
    <3>2. page' = [page EXCEPT ![w] = Tried(@, <<a, i>>, failed, {})] /\ claims' = claims
      BY <1>24, <2>3, <3>1 DEF ClaimEvent
    <3>3. OnlyPage(w) /\ Tries(page[w], page'[w], <<a, i>>, failed, {})
      BY <1>0, <2>1, <3>2, TriedIdles
    <3>4. a \notin edited => i \in failed \/ <<a, i>> \in claims'
      BY <2>3, <3>1, <3>2 DEF MayClaimEvent, RInv, Untouched
    <3> QED BY <2>1, <3>2, <3>3, <3>4, ItemsTried
  <2> QED BY <2>2, <2>3
<1>25. ASSUME NEW w \in AutoWindows, NEW a \in Autos, NEW i \in Items, ClaimEventFails(w, a, i) PROVE KInv'
  <2>1. /\ page[w].up /\ page[w].inbox # None /\ claims' = claims
        /\ stored' = stored /\ kept' = kept /\ edited' = edited /\ crowded' = crowded
    BY <1>25 DEF ClaimEventFails, autoStore, autoPast
  <2>2. page' = [page EXCEPT ![w] = Tried(@, <<a, i>>, {i}, {})] /\ {i} \in SUBSET Items
    BY <1>25 DEF ClaimEventFails
  <2>3. OnlyPage(w) /\ Tries(page[w], page'[w], <<a, i>>, {i}, {})
    BY <1>0, <2>1, <2>2, TriedIdles
  <2>4. i \in {i}
    OBVIOUS
  <2> QED BY <2>1, <2>3, <2>4, ItemsTried
<1> QED
  BY <1>3, <1>4, <1>5, <1>6, <1>7, <1>8, <1>9, <1>10, <1>11, <1>12, <1>13, <1>14, <1>15, <1>16, <1>17, <1>18,
     <1>19, <1>20, <1>21, <1>22, <1>23, <1>24, <1>25 DEF AutomationsNext

-----------------------------------------------------------------------------
(* The theorems *)

LEMMA TypesShown == TInv => AutomationsTypeOK
<1> SUFFICES ASSUME TInv PROVE AutomationsTypeOK
  OBVIOUS
<1>1. ValuesOK /\ DOMAIN runs = 1..Len(runs) /\ \A r \in 1..Len(runs) : runs[r] \in RunRows
  BY RunsListed DEF TInv
<1>2. ASSUME NEW w \in AutoWindows
      PROVE  LET p == page[w]
             IN /\ p.fresh \cup p.marked \cup p.turns \cup {p.queue[i] : i \in DOMAIN p.queue} \subseteq DOMAIN runs
                /\ p.fresh \cap (p.marked \cup p.turns) = {} /\ p.waiting \subseteq Items
                /\ p.due \in DuePasses \cup {None} /\ p.inbox \in InboxPasses \cup {None}
                /\ p.retry = None \/ p.retry \subseteq Items
  <2>1. page[w] \in Pages /\ PageOK(page[w], Len(runs)) /\ page[w].before \in Nat
    BY <1>1, PageShape DEF TInv, Pages
  <2>2. DOMAIN page[w].queue = 1..Len(page[w].queue)
    BY <1>1, PageShape, LenProperties
  <2>3. {page[w].queue[i] : i \in DOMAIN page[w].queue} = Queue(page[w])
    BY <2>2 DEF Queue, Members
  <2>4. Queue(page[w]) \subseteq 1..Len(runs)
    <3>1. Queue(page[w]) \subseteq 1..page[w].before /\ page[w].before <= Len(runs)
      BY <2>1 DEF PageOK, QueueOK
    <3> QED BY <1>1, <2>1, <3>1, RunsListed
  <2>5. page[w].fresh \cup page[w].marked \cup page[w].turns \subseteq 1..Len(runs)
    BY <2>1 DEF PageOK, Claimed, Begun
  <2>6. page[w].fresh \cap (page[w].marked \cup page[w].turns) = {}
    BY <2>1 DEF PageOK, Apart, Claimed, Begun
  <2>7. /\ page[w].waiting \subseteq Items /\ page[w].due \in DuePasses \cup {None}
        /\ page[w].inbox \in InboxPasses \cup {None} /\ (page[w].retry = None \/ page[w].retry \subseteq Items)
    BY <2>1 DEF Pages
  <2> QED BY <1>1, <2>3, <2>4, <2>5, <2>6, <2>7
<1> QED BY <1>1, <1>2 DEF AutomationsTypeOK, ValuesOK, AutoRows

LEMMA AutomationsInductive == AutomationsSpec => []IInv
<1>1. AutomationsInit => IInv
  BY TypesInit, OnceInit, SubmissionsInit, HandsInit, ItemsInit DEF IInv
<1>2. IInv /\ [AutomationsNext]_autoVars => IInv'
  BY TypesNext, OnceNext, SubmissionsNext, HandsNext, ItemsNext DEF IInv
<1> QED BY <1>1, <1>2, PTL DEF AutomationsSpec

\* However many windows claim, die, fail and start again, whatever the user
\* edits in between: the state is well typed, an occurrence and an inbox item
\* start one run between them all, and a run prompts once as long as the app
\* has had one window (automations.rs:737-960, App.tsx:6960-7128).
THEOREM RunsOnceAlways == AutomationsSpec => []RunsOnce
<1>1. IInv => RunsOnce
  BY TypesShown DEF IInv, RInv, SInv, RunsOnce
<1> QED BY <1>1, AutomationsInductive, PTL

\* The schedule of an automation nobody edits moves past an occurrence only
\* with a run for it; in an app with one window, a run that waits or runs is in
\* the hands of the page or of its recovery, and an item that was kept for an
\* automation stays kept until it is claimed.
THEOREM NothingIsForgotten == AutomationsSpec => []NothingForgotten
<1>1. IInv => NothingForgotten
  <2> SUFFICES ASSUME IInv PROVE NothingForgotten
    OBVIOUS
  <2>1. \A a \in Autos \ edited, t \in 1..MaxTime : t < autos[a].next => Passed(a, t)
    BY DEF IInv, RInv, PassedOK
  <2>2. \A r \in DOMAIN runs : runs[r].status \notin Over => Held(r) \/ r \in unreported
    BY DEF IInv, HInv
  <2>3. ~crowded => \A i \in kept, a \in Autos \ edited : <<a, i>> \in claims \/ Kept(i)
    BY DEF IInv, KInv, Kept
  <2> QED BY <2>1, <2>2, <2>3 DEF NothingForgotten
<1> QED BY <1>1, AutomationsInductive, PTL

=============================================================================

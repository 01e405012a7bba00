------------------------ MODULE HarnessSessionProofs ------------------------
(***************************************************************************)
(* Proofs about HarnessSession, for any number of turns, deaths, timeouts    *)
(* and steers:                                                               *)
(*   NoTurnIsLost          a turn that waits can still be ended              *)
(*   SessionIsConsistent   the types; the idle timer never kills a turn and  *)
(*                         is armed when the connection is left idle; a turn *)
(*                         ends with itself                                  *)
(*   StopsStop             a stopped turn shows and does nothing more        *)
(*                                                                          *)
(* The first needs TurnInv, which every user keeps: the queue, the promises  *)
(* and the connection name the same turn.  The others speak of a user who    *)
(* does not hurry the app, and need PoliteInv besides: what is on the wire   *)
(* in either direction, and what the app server owes, is about the one turn  *)
(* under way, each note once and in its order.  hasty is chosen at the start *)
(* and never changes, so one specification has both kinds of user.           *)
(***************************************************************************)
EXTENDS HarnessSession, SequenceTheorems, TLAPS

\* The values of the variables, as SessionTypeOK has them, and of the history.
ValuesOK ==
    /\ timer \in BOOLEAN /\ steering \in BOOLEAN /\ hasty \in BOOLEAN
    /\ live \in Live \cup {None} /\ swallow \in BOOLEAN
    /\ promise \in [Turns -> {"none", "pending", "resolved", "rejected"}]
    /\ toCodex \in Seq(Requests) /\ fromCodex \in Seq(Answers)
    /\ running \in Turns \cup {None} /\ owed \subseteq Turns
    /\ outcome \in [Turns -> {"none", "ended", "failed", "swallowed"}]
    /\ stopped \subseteq Turns /\ ended \subseteq Turns

\* The queue holds the operations under way, each once, and only its head has
\* gone further than waiting.
Stages == {"new", "queued", "opening", "starting", "waiting", "finishing", "done"}
InQueue(t) == \E k \in 1..Len(queue) : queue[k] = t
QueueOK ==
    /\ queue \in Seq(Turns) /\ at \in [Turns -> Stages]
    /\ \A i, j \in 1..Len(queue) : queue[i] = queue[j] => i = j
    /\ \A t \in Turns : InQueue(t) <=> at[t] \notin {"new", "done"}
    /\ \A t \in Turns : at[t] \notin {"new", "queued", "done"} => Current(t)

\* A pending promise is that of the turn registered with the connection.
PromiseOK ==
    /\ \A t \in Turns : promise[t] = "pending" =>
           at[t] \in {"starting", "waiting"} /\ live # None /\ live.done = t
    /\ live # None => (live.done # None => promise[live.done] = "pending")

\* The connection is there while a turn is started, and is not while one opens;
\* nothing is on the way without it.
ConnectionOK ==
    /\ live # None => live.mute = live.cancelled
    /\ \A t \in Turns : /\ at[t] = "starting" => live # None
                        /\ at[t] = "opening" => live = None
    /\ live = None => toCodex = <<>> /\ fromCodex = <<>> /\ running = None /\ owed = {}

TurnInv == ValuesOK /\ QueueOK /\ PromiseOK /\ ConnectionOK
-----------------------------------------------------------------------------
(* The queue *)

\* The head leaves the queue: the others move up.
LEMMA HeadLeaves ==
    ASSUME QueueOK, NEW t \in Turns, Current(t)
    PROVE  /\ Left(t) = Tail(queue)
           /\ Tail(queue) \in Seq(Turns)
           /\ \A i, j \in 1..Len(Tail(queue)) : Tail(queue)[i] = Tail(queue)[j] => i = j
           /\ \A u \in Turns :
                (\E k \in 1..Len(Tail(queue)) : Tail(queue)[k] = u) <=> InQueue(u) /\ u # t
  <1>1. /\ queue \in Seq(Turns) /\ queue # <<>> /\ Len(queue) \in Nat \ {0} /\ queue[1] = t
        /\ DOMAIN queue = 1..Len(queue)
    BY DEF QueueOK, Current
  <1>2. /\ Tail(queue) \in Seq(Turns) /\ Len(Tail(queue)) = Len(queue) - 1
        /\ \A k \in 1..Len(queue) - 1 : Tail(queue)[k] = queue[k + 1]
    BY <1>1
  <1>3. Left(t) = [k \in 1..Len(queue) - 1 |-> queue[k + 1]]
    BY <1>1 DEF Left
  <1>4. Left(t) = Tail(queue)
    <2>1. \A k \in 1..Len(queue) - 1 : queue[k + 1] \in Turns
      BY <1>1
    <2>2. /\ Left(t) \in Seq(Turns) /\ Len(Left(t)) = Len(queue) - 1
          /\ \A k \in 1..Len(queue) - 1 : Left(t)[k] = queue[k + 1]
      BY <1>1, <1>3, <2>1
    <2> QED BY <1>2, <2>2, SeqEqual
  <1>5. \A i, j \in 1..Len(Tail(queue)) : Tail(queue)[i] = Tail(queue)[j] => i = j
    <2> SUFFICES ASSUME NEW i \in 1..Len(queue) - 1, NEW j \in 1..Len(queue) - 1, queue[i + 1] = queue[j + 1]
                 PROVE  i = j
      BY <1>2
    <2>1. i + 1 \in 1..Len(queue) /\ j + 1 \in 1..Len(queue)
      BY <1>1
    <2>2. i + 1 = j + 1
      BY <2>1 DEF QueueOK
    <2> QED BY <2>2
  <1>6. ASSUME NEW u \in Turns
        PROVE  (\E k \in 1..Len(Tail(queue)) : Tail(queue)[k] = u) <=> InQueue(u) /\ u # t
    <2>1. ASSUME NEW k \in 1..Len(queue) - 1, queue[k + 1] = u
          PROVE  InQueue(u) /\ u # t
      <3>1. k + 1 \in 1..Len(queue) /\ 1 \in 1..Len(queue) /\ k + 1 # 1
        BY <1>1, <2>1
      <3>2. queue[k + 1] # queue[1]
        BY <3>1 DEF QueueOK
      <3> QED BY <1>1, <2>1, <3>1, <3>2 DEF InQueue
    <2>2. ASSUME NEW k \in 1..Len(queue), queue[k] = u, u # t
          PROVE  \E j \in 1..Len(queue) - 1 : queue[j + 1] = u
      <3>1. k # 1 /\ k - 1 \in 1..Len(queue) - 1 /\ (k - 1) + 1 = k
        BY <1>1, <2>2
      <3> QED BY <2>2, <3>1
    <2> QED BY <1>2, <2>1, <2>2 DEF InQueue
  <1> QED BY <1>2, <1>4, <1>5, <1>6

\* The queue after an operation of its head has moved on.
LEMMA HeadMoves ==
    ASSUME QueueOK, NEW t \in Turns, Current(t), UNCHANGED queue,
           NEW x \in Stages \ {"new", "done"}, at' = [at EXCEPT ![t] = x]
    PROVE  QueueOK'
  <1>1. InQueue(t)
    <2>1. 1 \in 1..Len(queue) /\ queue[1] = t
      BY DEF QueueOK, Current
    <2> QED BY <2>1 DEF InQueue
  <1>2. at' \in [Turns -> Stages] /\ at'[t] = x /\ \A u \in Turns \ {t} : at'[u] = at[u]
    BY DEF QueueOK
  <1>3. \A u : (InQueue(u)' <=> InQueue(u)) /\ (Current(u)' <=> Current(u))
    BY DEF InQueue, Current
  <1>4. \A u \in Turns : InQueue(u) <=> at'[u] \notin {"new", "done"}
    BY <1>1, <1>2 DEF QueueOK
  <1>5. \A u \in Turns : at'[u] \notin {"new", "queued", "done"} => Current(u)
    BY <1>2 DEF QueueOK
  <1> QED BY <1>2, <1>3, <1>4, <1>5 DEF QueueOK

\* Only one turn is the head.
LEMMA OneHead ==
    ASSUME QueueOK, NEW t \in Turns, NEW u \in Turns, Current(t), at[u] \notin {"new", "queued", "done"}
    PROVE  t = u
  BY DEF QueueOK, Current

\* The queue after its head has left.
LEMMA QueueLeft ==
    ASSUME QueueOK, NEW t \in Turns, Current(t), queue' = Tail(queue), at' = [at EXCEPT ![t] = "done"]
    PROVE  QueueOK'
  <1>1. at' \in [Turns -> Stages] /\ at'[t] = "done" /\ \A u \in Turns \ {t} : at'[u] = at[u]
    BY DEF QueueOK, Stages
  <1>2. \A u \in Turns : InQueue(u)' <=> InQueue(u) /\ u # t
    BY HeadLeaves DEF InQueue
  <1>3. \A u \in Turns : InQueue(u)' <=> at'[u] \notin {"new", "done"}
    BY <1>1, <1>2 DEF QueueOK
  <1>4. \A u \in Turns : at'[u] \notin {"new", "queued", "done"} => FALSE
    BY <1>1, OneHead
  <1>5. queue' \in Seq(Turns) /\ \A i, j \in 1..Len(queue') : queue'[i] = queue'[j] => i = j
    BY HeadLeaves
  <1> QED BY <1>1, <1>3, <1>4, <1>5 DEF QueueOK
-----------------------------------------------------------------------------
(* The connection *)

\* A connection whose turn the user stopped.
LEMMA Cancelled ==
    ASSUME NEW l \in Live
    PROVE  LET r == [l EXCEPT !.cancelled = TRUE, !.mute = TRUE] IN
           /\ r \in Live /\ r.done = l.done /\ r.active = l.active /\ r.endPending = l.endPending
           /\ r.mute /\ r.cancelled /\ r.mute = r.cancelled
  BY DEF Live

\* The end of the turn registered with a connection.
LEMMA FinishEffect ==
    ASSUME ValuesOK, NEW l \in Live, Finish(l)
    PROVE  /\ live' \in Live /\ live' # None
           /\ live'.done = None /\ live'.active = None
           /\ live'.mute = l.mute /\ live'.cancelled = l.cancelled
           /\ live'.endPending = (l.done = None)
           /\ promise' \in [Turns -> {"none", "pending", "resolved", "rejected"}]
           /\ \A u \in Turns : promise'[u] = IF l.done = u THEN "resolved" ELSE promise[u]
  <1>1. live' = Finished(l) /\ Finished(l) \in Live
    BY DEF Finish, Finished, Live
  <1>2. live' # None
    BY <1>1, LiveAssumption
  <1>3. /\ live'.done = None /\ live'.active = None
        /\ live'.mute = l.mute /\ live'.cancelled = l.cancelled
        /\ live'.endPending = (l.done = None)
    BY <1>1 DEF Finished, Live
  <1>4. l.done \in Turns \cup {None} /\ None \notin Turns
    BY SessionAssumption DEF Live
  <1>5. /\ promise' \in [Turns -> {"none", "pending", "resolved", "rejected"}]
        /\ \A u \in Turns : promise'[u] = IF l.done = u THEN "resolved" ELSE promise[u]
    BY <1>4 DEF Finish, Kept, ValuesOK
  <1> QED BY <1>1, <1>2, <1>3, <1>5

\* What runTurn leaves of the connection and the promises, up to its request.
StartedOn(t, l) ==
    /\ live' \in Live /\ live' # None /\ ~live'.mute /\ ~live'.cancelled
    /\ promise' \in [Turns -> {"none", "pending", "resolved", "rejected"}]
    /\ \A u \in Turns \ {t} : promise'[u] = promise[u]
    /\ \/ ~l.endPending /\ live'.done = t /\ promise'[t] = "pending"
          /\ live'.active = l.active /\ ~live'.endPending
       \/ l.endPending /\ live'.done = None /\ promise'[t] = "resolved"
\* runTurn up to its request, from any connection.
LEMMA StartEffect ==
    ASSUME ValuesOK, NEW t \in Turns, NEW l \in Live, StartTurn(t, l)
    PROVE  StartedOn(t, l)
  <1>1. PICK r : r = [Unmuted(l) EXCEPT !.done = t]
    OBVIOUS
  <1>2. /\ r \in Live /\ r.done = t /\ ~r.mute /\ ~r.cancelled
        /\ r.active = l.active /\ r.endPending = l.endPending
    BY <1>1 DEF Live, Unmuted
  <1>3. r # None /\ Finished(r) \in Live /\ Finished(r) # None
    BY <1>2, LiveAssumption DEF Live, Finished
  <1>4. PICK p : p = [promise EXCEPT ![t] = "pending"]
    OBVIOUS
  <1>5. /\ p \in [Turns -> {"none", "pending", "resolved", "rejected"}]
        /\ p[t] = "pending" /\ \A u \in Turns \ {t} : p[u] = promise[u]
    BY <1>4 DEF ValuesOK
  <1>6. CASE l.endPending
    <2>1. live' = Finished(r) /\ promise' = Kept(p, r)
      BY <1>1, <1>2, <1>4, <1>6 DEF StartTurn
    <2>2. promise' = [p EXCEPT ![t] = "resolved"]
      BY <2>1, <1>2, SessionAssumption DEF Kept
    <2>3. ~live'.mute /\ ~live'.cancelled /\ live'.done = None
      BY <2>1, <1>2 DEF Finished, Live
    <2>4. /\ promise' \in [Turns -> {"none", "pending", "resolved", "rejected"}]
          /\ promise'[t] = "resolved" /\ \A u \in Turns \ {t} : promise'[u] = promise[u]
      BY <2>2, <1>5
    <2> QED BY <1>3, <1>6, <2>1, <2>3, <2>4 DEF StartedOn
  <1>7. CASE ~l.endPending
    <2>1. live' = r /\ promise' = p
      BY <1>1, <1>2, <1>4, <1>7 DEF StartTurn
    <2> QED BY <1>2, <1>3, <1>5, <1>7, <2>1 DEF StartedOn
  <1> QED BY <1>2, <1>6, <1>7 DEF Live
-----------------------------------------------------------------------------
(* The invariant, action by action *)

\* At first no turn is there and nothing is on.
LEMMA InitTurnInv == SessionInit => TurnInv
  <1> SUFFICES ASSUME SessionInit PROVE TurnInv
    OBVIOUS
  <1>1. ValuesOK
    <2>1. toCodex \in Seq(Requests) /\ fromCodex \in Seq(Answers)
      BY DEF SessionInit
    <2>2. hasty \in BOOLEAN /\ timer \in BOOLEAN /\ steering \in BOOLEAN /\ swallow \in BOOLEAN
      BY DEF SessionInit
    <2> QED BY <2>1, <2>2 DEF SessionInit, ValuesOK
  <1>2. QueueOK
    BY DEF SessionInit, QueueOK, InQueue, Stages
  <1> QED BY <1>1, <1>2 DEF SessionInit, TurnInv, PromiseOK, ConnectionOK

\* A turn that only waits in the queue touches no connection.
LEMMA SubmitKeeps ==
    ASSUME TurnInv, NEW t \in Turns, Submit(t)
    PROVE  TurnInv'
  <1>1. /\ at[t] = "new" /\ queue' = Append(queue, t) /\ at' = [at EXCEPT ![t] = "queued"]
        /\ UNCHANGED <<timer, steering, codexVars, serverVars, sessionPast, faultBounds>>
    BY DEF Submit
  <1>2. /\ queue \in Seq(Turns) /\ Len(queue) \in Nat /\ at \in [Turns -> Stages] /\ ~InQueue(t)
    BY <1>1 DEF TurnInv, QueueOK
  <1>3. /\ queue' \in Seq(Turns) /\ Len(queue') = Len(queue) + 1 /\ queue'[Len(queue) + 1] = t
        /\ \A k \in 1..Len(queue) : queue'[k] = queue[k]
    BY <1>1, <1>2
  <1>4. /\ at' \in [Turns -> Stages] /\ at'[t] = "queued" /\ \A u \in Turns \ {t} : at'[u] = at[u]
    BY <1>1, <1>2 DEF Stages
  <1>5. QueueOK'
    <2>1. \A i, j \in 1..Len(queue') : queue'[i] = queue'[j] => i = j
      <3> SUFFICES ASSUME NEW i \in 1..Len(queue) + 1, NEW j \in 1..Len(queue) + 1, queue'[i] = queue'[j]
                   PROVE  i = j
        BY <1>3
      <3>1. CASE i \in 1..Len(queue) /\ j \in 1..Len(queue)
        BY <1>3, <3>1 DEF TurnInv, QueueOK
      <3>2. CASE i = Len(queue) + 1 /\ j \in 1..Len(queue)
        BY <1>2, <1>3, <3>2 DEF InQueue
      <3>3. CASE j = Len(queue) + 1 /\ i \in 1..Len(queue)
        BY <1>2, <1>3, <3>3 DEF InQueue
      <3> QED BY <1>2, <3>1, <3>2, <3>3
    <2>2. \A u \in Turns : InQueue(u)' <=> InQueue(u) \/ u = t
      <3> TAKE u \in Turns
      <3>1. InQueue(u) \/ u = t => InQueue(u)'
        <4>1. \A k \in 1..Len(queue) : k \in 1..Len(queue')
          BY <1>2, <1>3
        <4>2. Len(queue) + 1 \in 1..Len(queue')
          BY <1>2, <1>3
        <4> QED BY <1>3, <4>1, <4>2 DEF InQueue
      <3>2. ASSUME NEW k \in 1..Len(queue'), queue'[k] = u PROVE InQueue(u) \/ u = t
        <4>1. k \in 1..Len(queue) \/ k = Len(queue) + 1
          BY <1>2, <1>3
        <4> QED BY <1>3, <3>2, <4>1 DEF InQueue
      <3> QED BY <3>1, <3>2 DEF InQueue
    <2>3. \A u \in Turns : Current(u) => Current(u)'
      BY <1>2, <1>3 DEF Current
    <2>4. \A u \in Turns : InQueue(u)' <=> at'[u] \notin {"new", "done"}
      BY <1>4, <2>2 DEF TurnInv, QueueOK
    <2>5. \A u \in Turns : at'[u] \notin {"new", "queued", "done"} => Current(u)'
      BY <1>4, <2>3 DEF TurnInv, QueueOK
    <2> QED BY <1>3, <1>4, <2>1, <2>4, <2>5 DEF QueueOK
  <1>6. ValuesOK' /\ PromiseOK' /\ ConnectionOK'
    BY <1>1, <1>4 DEF TurnInv, ValuesOK, PromiseOK, ConnectionOK, codexVars, serverVars, sessionPast
  <1> QED BY <1>5, <1>6 DEF TurnInv

\* A started turn is registered with a connection that had none.
LEMMA StartedKeeps ==
    ASSUME TurnInv, NEW t \in Turns, Current(t), at[t] \in {"queued", "opening"},
           NEW l \in Live, l.done = None, StartTurn(t, l),
           UNCHANGED <<queue, steering, fromCodex, running, owed, outcome, hasty, stopped, ended>>,
           timer' \in BOOLEAN, swallow' \in BOOLEAN
    PROVE  TurnInv'
  <1>1. StartedOn(t, l)
    BY StartEffect DEF TurnInv
  <1>2. /\ at' = [at EXCEPT ![t] = "starting"] /\ toCodex' = Append(toCodex, Note("start", t))
    BY DEF StartTurn
  <1>3. QueueOK'
    BY <1>2, HeadMoves DEF TurnInv, Stages
  <1>4. at'[t] = "starting" /\ \A u \in Turns \ {t} : at'[u] = at[u]
    BY <1>2 DEF TurnInv, QueueOK
  <1>5. \A u \in Turns \ {t} : at[u] \in {"new", "queued", "done"}
    BY OneHead DEF TurnInv
  <1>6. ValuesOK'
    BY <1>1, <1>2 DEF TurnInv, ValuesOK, StartedOn, Note, Requests
  <1>7. PromiseOK'
    BY <1>1, <1>4, <1>5 DEF TurnInv, PromiseOK, StartedOn
  <1>8. ConnectionOK'
    <2>1. live' # None /\ live'.mute = live'.cancelled
      BY <1>1 DEF StartedOn, Live
    <2>2. \A u \in Turns : at'[u] # "opening"
      BY <1>4, <1>5
    <2> QED BY <2>1, <2>2 DEF ConnectionOK
  <1> QED BY <1>3, <1>6, <1>7, <1>8 DEF TurnInv

\* No promise is pending before its turn is started, so none is registered.
LEMMA NothingRegistered ==
    ASSUME TurnInv, NEW t \in Turns, Current(t), at[t] \in {"queued", "opening", "finishing"}
    PROVE  /\ \A u \in Turns : promise[u] # "pending"
           /\ live # None => live.done = None
  <1>1. \A u \in Turns : promise[u] # "pending"
    BY OneHead DEF TurnInv, PromiseOK
  <1>2. live # None => live.done \in Turns \cup {None}
    BY DEF TurnInv, ValuesOK, Live
  <1> QED BY <1>1, <1>2 DEF TurnInv, PromiseOK

\* An operation that only changes its own stage, to one without a promise.
LEMMA StageKeeps ==
    ASSUME TurnInv, NEW t \in Turns, Current(t), UNCHANGED <<queue, live, promise, serverVars>>,
           NEW x \in {"opening", "finishing"}, at' = [at EXCEPT ![t] = x],
           promise[t] # "pending", x = "opening" => live = None,
           ValuesOK'
    PROVE  TurnInv'
  <1>1. QueueOK'
    BY HeadMoves DEF TurnInv, Stages
  <1>2. at'[t] = x /\ \A u \in Turns \ {t} : at'[u] = at[u]
    BY DEF TurnInv, QueueOK
  <1> QED BY <1>1, <1>2 DEF TurnInv, PromiseOK, ConnectionOK, serverVars

\* The operation at the head starts: it opens a connection, goes on to turn/start,
\* or returns because a Stop came before it.
LEMMA BeginTurnKeeps ==
    ASSUME TurnInv, NEW t \in Turns, BeginTurn(t)
    PROVE  TurnInv'
  <1>1. /\ at[t] = "queued" /\ Current(t) /\ timer' = FALSE
        /\ UNCHANGED <<queue, steering, hasty, stopped, ended, faultBounds>>
    BY DEF BeginTurn, IsNext
  <1>2. promise[t] # "pending" /\ (live # None => live.done = None)
    BY <1>1, NothingRegistered
  <1>3. CASE /\ live = None /\ at' = [at EXCEPT ![t] = "opening"]
             /\ UNCHANGED <<codexVars, serverVars, outcome>>
    <2>1. ValuesOK'
      BY <1>1, <1>3 DEF TurnInv, ValuesOK, codexVars, serverVars
    <2> QED BY <1>1, <1>2, <1>3, <2>1, StageKeeps DEF codexVars
  <1>4. CASE /\ live # None /\ StartTurn(t, live) /\ UNCHANGED <<swallow, fromCodex, running, owed, outcome>>
    <2>1. live \in Live /\ swallow' \in BOOLEAN /\ timer' \in BOOLEAN
      BY <1>1, <1>4 DEF TurnInv, ValuesOK
    <2> QED BY <1>1, <1>2, <1>4, <2>1, StartedKeeps
  <1>5. CASE /\ live # None /\ swallow' = FALSE /\ at' = [at EXCEPT ![t] = "finishing"]
             /\ outcome' = [outcome EXCEPT ![t] = "swallowed"] /\ UNCHANGED <<live, promise, serverVars>>
    <2>1. ValuesOK'
      BY <1>1, <1>5 DEF TurnInv, ValuesOK, serverVars
    <2> QED BY <1>1, <1>2, <1>5, <2>1, StageKeeps
  <1> QED BY <1>1, <1>3, <1>4, <1>5 DEF BeginTurn

\* The connection is opened: turn/start goes out, unless the user stopped the turn.
LEMMA OpenedKeeps ==
    ASSUME TurnInv, NEW t \in Turns, Opened(t)
    PROVE  TurnInv'
  <1>1. /\ at[t] = "opening" /\ swallow' = FALSE
        /\ UNCHANGED <<queue, timer, steering, fromCodex, running, owed, hasty, stopped, ended, faultBounds>>
    BY DEF Opened
  <1>2. Current(t)
    BY <1>1 DEF TurnInv, QueueOK
  <1>3. \A u \in Turns : promise[u] # "pending"
    BY <1>1, <1>2, NothingRegistered
  <1>4. NewLive \in Live /\ NewLive.done = None /\ NewLive # None /\ NewLive.mute = NewLive.cancelled
    <2>1. NewLive \in Live
      BY DEF NewLive, Live
    <2> QED BY <2>1, LiveAssumption DEF NewLive
  <1>5. CASE StartTurn(t, NewLive) /\ UNCHANGED outcome
    <2>1. timer' \in BOOLEAN /\ swallow' \in BOOLEAN
      BY <1>1 DEF TurnInv, ValuesOK
    <2> QED BY <1>1, <1>2, <1>4, <1>5, <2>1, StartedKeeps
  <1>6. CASE /\ live' = NewLive /\ at' = [at EXCEPT ![t] = "finishing"]
             /\ outcome' = [outcome EXCEPT ![t] = "swallowed"] /\ UNCHANGED <<promise, toCodex>>
    <2>1. ValuesOK'
      BY <1>1, <1>4, <1>6 DEF TurnInv, ValuesOK
    <2>2. QueueOK'
      BY <1>1, <1>2, <1>6, HeadMoves DEF TurnInv, Stages
    <2>3. at'[t] = "finishing" /\ \A u \in Turns \ {t} : at'[u] = at[u] /\ at[u] \in {"new", "queued", "done"}
      BY <1>2, <1>6, OneHead DEF TurnInv, QueueOK
    <2>4. PromiseOK' /\ ConnectionOK'
      BY <1>3, <1>4, <1>6, <2>3 DEF PromiseOK, ConnectionOK
    <2> QED BY <2>1, <2>2, <2>4 DEF TurnInv
  <1> QED BY <1>5, <1>6 DEF Opened

\* The connection cannot be opened: no promise was made.
LEMMA OpenFailsKeeps ==
    ASSUME TurnInv, NEW t \in Turns, OpenFails(t)
    PROVE  TurnInv'
  <1>1. /\ at[t] = "opening" /\ at' = [at EXCEPT ![t] = "finishing"]
        /\ UNCHANGED <<queue, live, promise, serverVars>>
    BY DEF OpenFails
  <1>2. Current(t) /\ promise[t] # "pending"
    BY <1>1 DEF TurnInv, QueueOK, PromiseOK
  <1>3. ValuesOK'
    BY DEF OpenFails, TurnInv, ValuesOK, serverVars
  <1> QED BY <1>1, <1>2, <1>3, StageKeeps

\* runTurn goes on from its settled promise.
LEMMA SettleKeeps ==
    ASSUME TurnInv, NEW t \in Turns, Settle(t)
    PROVE  TurnInv'
  <1>1. /\ at[t] = "waiting" /\ promise[t] # "pending" /\ at' = [at EXCEPT ![t] = "finishing"]
        /\ UNCHANGED <<queue, live, promise, serverVars>>
    BY DEF Settle, codexVars
  <1>2. Current(t)
    BY <1>1 DEF TurnInv, QueueOK
  <1>3. ValuesOK'
    BY DEF Settle, TurnInv, ValuesOK, serverVars, codexVars
  <1> QED BY <1>1, <1>2, <1>3, StageKeeps

\* The head leaves, without a promise of its own.
LEMMA LeavingKeeps ==
    ASSUME TurnInv, NEW t \in Turns, Current(t), at[t] \in {"queued", "finishing"},
           queue' = Tail(queue), at' = [at EXCEPT ![t] = "done"],
           UNCHANGED <<live, promise, serverVars>>, ValuesOK'
    PROVE  TurnInv'
  <1>1. QueueOK'
    BY QueueLeft DEF TurnInv
  <1>2. at'[t] = "done" /\ \A u \in Turns \ {t} : at'[u] = at[u]
    BY DEF TurnInv, QueueOK
  <1> QED BY <1>1, <1>2 DEF TurnInv, PromiseOK, ConnectionOK, serverVars

\* The head leaves the queue, not authorized.
LEMMA AuthorizeFailsKeeps ==
    ASSUME TurnInv, NEW t \in Turns, AuthorizeFails(t)
    PROVE  TurnInv'
  <1>1. ValuesOK'
    BY DEF AuthorizeFails, TurnInv, ValuesOK, codexVars, serverVars
  <1> QED BY <1>1, LeavingKeeps DEF AuthorizeFails, codexVars

\* The head leaves the queue, its operation over: Left is the tail.
LEMMA FinishTurnKeeps ==
    ASSUME TurnInv, NEW t \in Turns, FinishTurn(t)
    PROVE  TurnInv'
  <1>1. /\ at[t] = "finishing" /\ at' = [at EXCEPT ![t] = "done"] /\ queue' = Left(t)
        /\ UNCHANGED <<live, promise, serverVars>>
    BY DEF FinishTurn, codexVars
  <1>2. Current(t)
    BY <1>1 DEF TurnInv, QueueOK
  <1>3. queue' = Tail(queue)
    BY <1>1, <1>2, HeadLeaves DEF TurnInv
  <1>4. ValuesOK'
    BY DEF FinishTurn, ArmedAfterTurn, TurnInv, ValuesOK, codexVars, serverVars, sessionPast
  <1> QED BY <1>1, <1>2, <1>3, <1>4, LeavingKeeps

\* The queue and the stages stay.
LEMMA QueueStays ==
    ASSUME QueueOK, UNCHANGED <<queue, at>>
    PROVE  QueueOK'
  BY DEF QueueOK, InQueue, Current

\* A message into the turn touches the timer or the mark alone.
LEMMA SteerKeeps ==
    ASSUME TurnInv, NEW t \in Turns, Steer(t)
    PROVE  TurnInv'
  <1>1. ValuesOK'
    BY DEF Steer, TurnInv, ValuesOK, codexVars, serverVars, sessionPast
  <1>2. QueueOK'
    BY QueueStays DEF Steer, TurnInv
  <1> QED BY <1>1, <1>2 DEF Steer, TurnInv, PromiseOK, ConnectionOK, codexVars, serverVars

\* The turn registered with the connection ends: no promise is pending then.
LEMMA FinishKeeps ==
    ASSUME TurnInv, NEW l \in Live, live # None, l.done = live.done, l.mute = l.cancelled, Finish(l)
    PROVE  /\ live' # None /\ live'.done = None /\ live'.mute = live'.cancelled
           /\ \A u \in Turns : promise'[u] # "pending"
  <1>1. ValuesOK /\ PromiseOK
    BY DEF TurnInv
  <1>2. /\ live' # None /\ live'.done = None /\ live'.mute = live'.cancelled
        /\ \A u \in Turns : promise'[u] = IF l.done = u THEN "resolved" ELSE promise[u]
    BY <1>1, FinishEffect
  <1> QED BY <1>1, <1>2 DEF PromiseOK

\* Stop: the registered turn ends here and now, or its interrupt goes out.
LEMMA StopKeeps ==
    ASSUME TurnInv, NEW t \in Turns, Stop(t)
    PROVE  TurnInv'
  <1>1. /\ stopped' = stopped \cup {t}
        /\ UNCHANGED <<queue, at, steering, fromCodex, running, owed, hasty, outcome, ended, faultBounds>>
    BY DEF Stop
  <1>2. QueueOK'
    BY <1>1, QueueStays DEF TurnInv
  <1>3. CASE /\ live = None /\ swallow' = TRUE /\ timer' = TRUE /\ UNCHANGED <<live, promise, toCodex>>
    <2>1. ValuesOK'
      BY <1>1, <1>3 DEF TurnInv, ValuesOK
    <2> QED BY <1>1, <1>2, <1>3, <2>1 DEF TurnInv, PromiseOK, ConnectionOK
  <1>4. CASE /\ live # None /\ Finish([live EXCEPT !.cancelled = TRUE, !.mute = TRUE])
             /\ timer' = TRUE /\ UNCHANGED <<swallow, toCodex>>
    <2> PICK l : l = [live EXCEPT !.cancelled = TRUE, !.mute = TRUE]
      OBVIOUS
    <2>1. l \in Live /\ l.done = live.done /\ l.mute /\ l.cancelled /\ l.mute = l.cancelled
      BY <1>4, Cancelled DEF TurnInv, ValuesOK
    <2>2. Finish(l)
      BY <1>4
    <2>3. /\ live' \in Live /\ promise' \in [Turns -> {"none", "pending", "resolved", "rejected"}]
      BY <2>1, <2>2, FinishEffect DEF TurnInv
    <2>4. ValuesOK'
      BY <1>1, <1>4, <2>3 DEF TurnInv, ValuesOK
    <2>5. /\ live' # None /\ live'.done = None /\ live'.mute = live'.cancelled
          /\ \A u \in Turns : promise'[u] # "pending"
      BY <1>4, <2>1, <2>2, FinishKeeps
    <2> QED BY <1>1, <1>2, <1>4, <2>4, <2>5 DEF TurnInv, PromiseOK, ConnectionOK
  <1>5. CASE /\ live # None /\ live.active # None
             /\ live' = [live EXCEPT !.cancelled = TRUE, !.mute = TRUE]
             /\ toCodex' = Append(toCodex, Note("interrupt", live.active))
             /\ timer' = FALSE /\ UNCHANGED <<swallow, promise>>
    <2> PICK l : l = [live EXCEPT !.cancelled = TRUE, !.mute = TRUE]
      OBVIOUS
    <2>1. /\ live' = l /\ l \in Live /\ l.done = live.done /\ l.mute = l.cancelled
          /\ live.active \in Turns
      BY <1>5, Cancelled DEF TurnInv, ValuesOK, Live
    <2>2. live' # None
      BY <2>1, LiveAssumption
    <2>3. ValuesOK'
      <3>1. Note("interrupt", live.active) \in Requests
        BY <2>1 DEF Note, Requests
      <3>2. toCodex' \in Seq(Requests)
        BY <1>5, <3>1 DEF TurnInv, ValuesOK
      <3> QED BY <1>1, <1>5, <2>1, <3>2 DEF TurnInv, ValuesOK
    <2> QED BY <1>1, <1>2, <1>5, <2>1, <2>2, <2>3 DEF TurnInv, PromiseOK, ConnectionOK
  <1> QED BY <1>3, <1>4, <1>5 DEF Stop

\* The connection goes, and with it everything under way on it.
LEMMA ClosedKeeps ==
    ASSUME TurnInv, NEW v \in {"resolved", "rejected"}, Closed(v),
           UNCHANGED <<queue, steering, hasty, stopped, ended>>, timer' \in BOOLEAN, swallow' \in BOOLEAN
    PROVE  TurnInv'
  <1>1. /\ live' = None /\ toCodex' = <<>> /\ fromCodex' = <<>> /\ running' = None /\ owed' = {}
        /\ promise' = [t \in Turns |-> IF promise[t] = "pending" THEN v ELSE promise[t]]
        /\ at' = [t \in Turns |-> IF InFlight(t) THEN "finishing" ELSE at[t]]
        /\ outcome' = [t \in Turns |-> IF InFlight(t) THEN "failed" ELSE outcome[t]]
    BY DEF Closed
  <1>2. ValuesOK'
    <2>1. toCodex' \in Seq(Requests) /\ fromCodex' \in Seq(Answers)
      BY <1>1
    <2>2. promise' \in [Turns -> {"none", "pending", "resolved", "rejected"}]
      BY <1>1 DEF TurnInv, ValuesOK
    <2>3. outcome' \in [Turns -> {"none", "ended", "failed", "swallowed"}]
      BY <1>1 DEF TurnInv, ValuesOK
    <2> QED BY <1>1, <2>1, <2>2, <2>3 DEF TurnInv, ValuesOK
  <1>3. \A t \in Turns : at'[t] = IF at[t] = "starting" THEN "finishing" ELSE at[t]
    BY <1>1 DEF InFlight
  <1>4. QueueOK'
    <2>1. at' \in [Turns -> Stages]
      BY <1>1 DEF TurnInv, QueueOK, Stages
    <2>2. \A t \in Turns : (InQueue(t)' <=> InQueue(t)) /\ (Current(t)' <=> Current(t))
      BY DEF InQueue, Current
    <2>3. \A t \in Turns : (at'[t] \in {"new", "done"}) <=> (at[t] \in {"new", "done"})
      BY <1>3
    <2>4. \A t \in Turns : at'[t] \notin {"new", "queued", "done"} => at[t] \notin {"new", "queued", "done"}
      BY <1>3
    <2> QED BY <2>1, <2>2, <2>3, <2>4 DEF TurnInv, QueueOK
  <1>5. PromiseOK' /\ ConnectionOK'
    BY <1>1, <1>3 DEF PromiseOK, ConnectionOK
  <1> QED BY <1>2, <1>4, <1>5 DEF TurnInv

\* The idle timer closes the connection, and with it what is registered.
LEMMA ParkKeeps == ASSUME TurnInv, Park PROVE TurnInv'
  <1>1. timer' \in BOOLEAN /\ swallow' \in BOOLEAN /\ UNCHANGED <<queue, steering, hasty, stopped, ended>>
    BY DEF Park, StopAwaits
  <1>2. CASE UNCHANGED <<live, promise, at, outcome, serverVars>>
    <2>1. ValuesOK'
      BY <1>1, <1>2 DEF TurnInv, ValuesOK, serverVars
    <2>2. QueueOK'
      BY <1>1, <1>2, QueueStays DEF TurnInv
    <2> QED BY <1>2, <2>1, <2>2 DEF TurnInv, PromiseOK, ConnectionOK, serverVars
  <1>3. CASE Closed("resolved")
    BY <1>1, <1>3, ClosedKeeps
  <1> QED BY <1>2, <1>3 DEF Park

\* The process dies: the registered turn is rejected.
LEMMA ExitKeeps == ASSUME TurnInv, Exit PROVE TurnInv'
  <1>1. /\ timer' \in BOOLEAN /\ swallow' \in BOOLEAN /\ UNCHANGED <<queue, steering, hasty, stopped, ended>>
        /\ Closed("rejected")
    BY DEF Exit, StopAwaits, TurnInv, ValuesOK
  <1> QED BY <1>1, ClosedKeeps

\* turn/start fails, by an answer or for want of one: its promise is rejected.
LEMMA RefusedKeeps ==
    ASSUME TurnInv, NEW t \in Turns, InFlight(t),
           at' = [at EXCEPT ![t] = "finishing"], live' = [live EXCEPT !.done = None],
           promise' = [promise EXCEPT ![t] = "rejected"],
           UNCHANGED <<queue, toCodex, running, owed>>, ValuesOK'
    PROVE  TurnInv'
  <1>1. Current(t) /\ live # None /\ live \in Live
    BY DEF InFlight, TurnInv, QueueOK, ConnectionOK, ValuesOK
  <1>2. QueueOK'
    BY <1>1, HeadMoves DEF TurnInv, Stages
  <1>3. at'[t] = "finishing" /\ \A u \in Turns \ {t} : at'[u] = at[u] /\ at[u] \in {"new", "queued", "done"}
    BY <1>1, OneHead DEF TurnInv, QueueOK
  <1>4. live' \in Live /\ live'.done = None /\ live'.mute = live.mute /\ live'.cancelled = live.cancelled
    BY <1>1 DEF Live
  <1>5. live' # None
    BY <1>4, LiveAssumption
  <1>6. promise'[t] = "rejected" /\ \A u \in Turns \ {t} : promise'[u] = promise[u]
    BY DEF TurnInv, ValuesOK
  <1>7. PromiseOK' /\ ConnectionOK'
    BY <1>1, <1>3, <1>4, <1>5, <1>6 DEF TurnInv, PromiseOK, ConnectionOK
  <1> QED BY <1>2, <1>7 DEF TurnInv

\* A turn/start that times out takes its registration with it.
LEMMA StartTimesOutKeeps ==
    ASSUME TurnInv, NEW t \in Turns, StartTimesOut(t)
    PROVE  TurnInv'
  <1>1. /\ InFlight(t) /\ at' = [at EXCEPT ![t] = "finishing"] /\ live' = [live EXCEPT !.done = None]
        /\ promise' = [promise EXCEPT ![t] = "rejected"] /\ outcome' = [outcome EXCEPT ![t] = "failed"]
        /\ UNCHANGED <<queue, timer, steering, swallow, serverVars, hasty, stopped, ended>>
    BY DEF StartTimesOut
  <1>2. live \in Live
    BY <1>1 DEF InFlight, TurnInv, ConnectionOK, ValuesOK
  <1>3. ValuesOK'
    BY <1>1, <1>2 DEF TurnInv, ValuesOK, serverVars, Live
  <1> QED BY <1>1, <1>3, RefusedKeeps DEF serverVars

\* The app server speaks and listens only while there is a connection.
LEMMA ServerKeeps ==
    ASSUME TurnInv, live # None, UNCHANGED <<queue, at, live, promise>>, ValuesOK'
    PROVE  TurnInv'
  <1>1. QueueOK'
    BY QueueStays DEF TurnInv
  <1> QED BY <1>1 DEF TurnInv, PromiseOK, ConnectionOK

\* A note about a turn joins what the adapter will hear.
LEMMA Spoken ==
    ASSUME NEW q \in Seq(Answers), NEW t \in Turns,
           NEW m \in {"started", "completed", "startOk", "startNo", "interrupted"}
    PROVE  Append(q, Note(m, t)) \in Seq(Answers)
  <1>1. Note(m, t) \in Answers
    BY DEF Note, Answers
  <1> QED BY <1>1

\* The app server takes a request: notes join the way back, the app stands still.
LEMMA CodexTakesKeeps == ASSUME TurnInv, CodexTakes PROVE TurnInv'
  <1>1. /\ toCodex # <<>> /\ toCodex' = Tail(toCodex)
        /\ UNCHANGED <<registryVars, codexVars, hasty, stopped, outcome, faultBounds>>
    BY DEF CodexTakes
  <1>2. PICK r \in Requests : r = Head(toCodex)
    BY <1>1 DEF TurnInv, ValuesOK
  <1>3. toCodex' \in Seq(Requests) /\ r.t \in Turns /\ fromCodex \in Seq(Answers)
    BY <1>1, <1>2 DEF TurnInv, ValuesOK, Requests
  <1>4. fromCodex' \in Seq(Answers)
    <2>1. /\ Append(fromCodex, Note("started", r.t)) \in Seq(Answers)
          /\ Append(fromCodex, Note("startNo", r.t)) \in Seq(Answers)
          /\ Append(fromCodex, Note("interrupted", r.t)) \in Seq(Answers)
      BY <1>3, Spoken
    <2>2. fromCodex \o <<Note("completed", r.t), Note("interrupted", r.t)>> \in Seq(Answers)
      <3>1. Note("completed", r.t) \in Answers /\ Note("interrupted", r.t) \in Answers
        BY <1>3 DEF Note, Answers
      <3>2. <<Note("completed", r.t), Note("interrupted", r.t)>> \in Seq(Answers)
        BY <3>1
      <3> QED BY <1>3, <3>2, ConcatProperties
    <2> QED BY <1>2, <2>1, <2>2 DEF CodexTakes
  <1>5. running' \in Turns \cup {None} /\ owed' \subseteq Turns /\ ended' \subseteq Turns
    BY <1>2, <1>3 DEF CodexTakes, TurnInv, ValuesOK
  <1>6. ValuesOK'
    BY <1>1, <1>3, <1>4, <1>5 DEF TurnInv, ValuesOK, registryVars, codexVars
  <1>7. live # None
    BY <1>1 DEF TurnInv, ConnectionOK
  <1> QED BY <1>1, <1>6, <1>7, ServerKeeps DEF registryVars, codexVars

\* The app server answers a turn/start.
LEMMA CodexAnswersKeeps == ASSUME TurnInv, CodexAnswers PROVE TurnInv'
  <1>1. PICK t \in owed : owed' = owed \ {t} /\ fromCodex' = Append(fromCodex, Note("startOk", t))
    BY DEF CodexAnswers
  <1>2. UNCHANGED <<registryVars, codexVars, toCodex, running, sessionPast, faultBounds>>
    BY DEF CodexAnswers
  <1>3. t \in Turns /\ fromCodex' \in Seq(Answers) /\ live # None
    BY <1>1, Spoken DEF TurnInv, ValuesOK, ConnectionOK
  <1>4. ValuesOK'
    BY <1>1, <1>2, <1>3 DEF TurnInv, ValuesOK, registryVars, codexVars, sessionPast
  <1> QED BY <1>2, <1>3, <1>4, ServerKeeps DEF registryVars, codexVars

\* The app server ends the turn it runs.
LEMMA CodexEndsKeeps == ASSUME TurnInv, CodexEnds PROVE TurnInv'
  <1>1. /\ running # None /\ running' = None /\ ended' = ended \cup {running}
        /\ fromCodex' = Append(fromCodex, Note("completed", running))
        /\ UNCHANGED <<registryVars, codexVars, toCodex, owed, hasty, stopped, outcome, faultBounds>>
    BY DEF CodexEnds
  <1>2. running \in Turns /\ fromCodex' \in Seq(Answers) /\ live # None
    BY <1>1, Spoken DEF TurnInv, ValuesOK, ConnectionOK
  <1>3. ValuesOK'
    BY <1>1, <1>2 DEF TurnInv, ValuesOK, registryVars, codexVars
  <1> QED BY <1>1, <1>2, <1>3, ServerKeeps DEF registryVars, codexVars

\* The turn in flight has its answer: it waits from now on, and its end may have
\* come before the answer.
LEMMA AnsweredKeeps ==
    ASSUME TurnInv, NEW t \in Turns, InFlight(t), at' = [at EXCEPT ![t] = "waiting"],
           NEW l \in Live, l.done = live.done, l.mute = live.mute, l.cancelled = live.cancelled,
           (live' = l /\ UNCHANGED promise) \/ Finish(l),
           UNCHANGED <<queue, toCodex, running, owed>>, ValuesOK'
    PROVE  TurnInv'
  <1>1. Current(t) /\ live # None
    BY DEF InFlight, TurnInv, QueueOK, ConnectionOK
  <1>2. QueueOK'
    BY <1>1, HeadMoves DEF TurnInv, Stages
  <1>3. at'[t] = "waiting" /\ \A u \in Turns \ {t} : at'[u] = at[u] /\ at[u] \in {"new", "queued", "done"}
    BY <1>1, OneHead DEF TurnInv, QueueOK
  <1>4. CASE live' = l /\ UNCHANGED promise
    <2>1. live' # None
      BY <1>4, LiveAssumption
    <2> QED BY <1>1, <1>2, <1>3, <1>4, <2>1 DEF TurnInv, PromiseOK, ConnectionOK
  <1>5. CASE Finish(l)
    <2>1. l.mute = l.cancelled
      BY <1>1 DEF TurnInv, ConnectionOK
    <2>2. /\ live' # None /\ live'.done = None /\ live'.mute = live'.cancelled
          /\ \A u \in Turns : promise'[u] # "pending"
      BY <1>1, <1>5, <2>1, FinishKeeps
    <2> QED BY <1>2, <1>3, <2>2 DEF TurnInv, PromiseOK, ConnectionOK
  <1> QED BY <1>4, <1>5

\* What the adapter hears changes nothing but the connection and its promise.
LEMMA ConnectionKeeps ==
    ASSUME TurnInv, live # None, UNCHANGED <<queue, at, toCodex, running, owed>>,
           \/ UNCHANGED promise /\ live' \in Live /\ live'.done = live.done
              /\ live'.mute = live.mute /\ live'.cancelled = live.cancelled
           \/ Finish(live),
           ValuesOK'
    PROVE  TurnInv'
  <1>1. QueueOK'
    BY QueueStays DEF TurnInv
  <1>2. CASE UNCHANGED promise /\ live' \in Live /\ live'.done = live.done
             /\ live'.mute = live.mute /\ live'.cancelled = live.cancelled
    <2>1. live' # None
      BY <1>2, LiveAssumption
    <2> QED BY <1>1, <1>2, <2>1 DEF TurnInv, PromiseOK, ConnectionOK
  <1>3. CASE Finish(live)
    <2>1. live \in Live /\ live.mute = live.cancelled
      BY DEF TurnInv, ValuesOK, ConnectionOK
    <2>2. /\ live' # None /\ live'.done = None /\ live'.mute = live'.cancelled
          /\ \A u \in Turns : promise'[u] # "pending"
      BY <1>3, <2>1, FinishKeeps
    <2> QED BY <1>1, <2>2 DEF TurnInv, PromiseOK, ConnectionOK
  <1> QED BY <1>2, <1>3

\* A note reaches the adapter, one case per kind of note.
LEMMA HearKeeps == ASSUME TurnInv, Hear PROVE TurnInv'
  <1>1. /\ fromCodex # <<>> /\ fromCodex' = Tail(fromCodex)
        /\ UNCHANGED <<queue, steering, swallow, toCodex, running, owed, hasty, stopped, ended, faultBounds>>
    BY DEF Hear
  <1>2. PICK n \in Answers : n = Head(fromCodex)
    BY <1>1 DEF TurnInv, ValuesOK
  <1>3. /\ fromCodex' \in Seq(Answers) /\ n.t \in Turns /\ live # None /\ live \in Live
        /\ live.done \in Turns \cup {None} /\ live.active \in Turns \cup {None}
    BY <1>1, <1>2 DEF TurnInv, ValuesOK, Answers, ConnectionOK, Live
  <1>4. CASE /\ live' = IF Silent(live) THEN live ELSE [live EXCEPT !.active = n.t]
             /\ UNCHANGED <<promise, at, outcome, timer>>
    <2>1. live' \in Live /\ live'.done = live.done /\ live'.mute = live.mute /\ live'.cancelled = live.cancelled
      BY <1>3, <1>4 DEF Live
    <2>2. ValuesOK'
      BY <1>1, <1>3, <1>4, <2>1 DEF TurnInv, ValuesOK
    <2> QED BY <1>1, <1>3, <1>4, <2>1, <2>2, ConnectionKeeps
  <1>5. CASE UNCHANGED <<live, promise, at, outcome, timer>>
    <2>1. ValuesOK'
      BY <1>1, <1>3, <1>5 DEF TurnInv, ValuesOK
    <2> QED BY <1>1, <1>3, <1>5, <2>1, ConnectionKeeps
  <1>6. CASE Finish(live) /\ timer' \in BOOLEAN /\ UNCHANGED <<at, outcome>>
    <2>1. live' \in Live /\ promise' \in [Turns -> {"none", "pending", "resolved", "rejected"}]
      BY <1>3, <1>6, FinishEffect DEF TurnInv
    <2>2. ValuesOK'
      BY <1>1, <1>3, <1>6, <2>1 DEF TurnInv, ValuesOK
    <2> QED BY <1>1, <1>3, <1>6, <2>2, ConnectionKeeps
  <1>7. CASE /\ InFlight(n.t) /\ at' = [at EXCEPT ![n.t] = "waiting"]
             /\ LET named == IF live.done # None /\ live.active = None THEN [live EXCEPT !.active = n.t] ELSE live IN
                IF live.endPending /\ live.done # None THEN Finish(named) ELSE live' = named /\ UNCHANGED promise
             /\ UNCHANGED <<outcome, timer>>
    <2> PICK l : l = IF live.done # None /\ live.active = None THEN [live EXCEPT !.active = n.t] ELSE live
      OBVIOUS
    <2>1. l \in Live /\ l.done = live.done /\ l.mute = live.mute /\ l.cancelled = live.cancelled
      BY <1>3 DEF Live
    <2>2. Finish(l) \/ (live' = l /\ UNCHANGED promise)
      BY <1>7
    <2>3. live' \in Live /\ promise' \in [Turns -> {"none", "pending", "resolved", "rejected"}]
      BY <2>1, <2>2, FinishEffect DEF TurnInv, ValuesOK
    <2>4. ValuesOK'
      BY <1>1, <1>3, <1>7, <2>3 DEF TurnInv, ValuesOK
    <2> QED BY <1>1, <1>3, <1>7, <2>1, <2>2, <2>4, AnsweredKeeps
  <1>8. CASE /\ InFlight(n.t) /\ at' = [at EXCEPT ![n.t] = "finishing"]
             /\ outcome' = [outcome EXCEPT ![n.t] = "failed"]
             /\ live' = [live EXCEPT !.done = None] /\ promise' = [promise EXCEPT ![n.t] = "rejected"]
             /\ UNCHANGED timer
    <2>1. live' \in Live
      BY <1>3, <1>8 DEF Live
    <2>2. ValuesOK'
      BY <1>1, <1>3, <1>8, <2>1 DEF TurnInv, ValuesOK
    <2> QED BY <1>1, <1>3, <1>8, <2>2, RefusedKeeps
  <1>9. \/ /\ live' = IF Silent(live) THEN live ELSE [live EXCEPT !.active = n.t]
           /\ UNCHANGED <<promise, at, outcome, timer>>
        \/ UNCHANGED <<live, promise, at, outcome, timer>>
        \/ Finish(live) /\ timer' \in BOOLEAN /\ UNCHANGED <<at, outcome>>
        \/ /\ InFlight(n.t) /\ at' = [at EXCEPT ![n.t] = "waiting"]
           /\ LET named == IF live.done # None /\ live.active = None THEN [live EXCEPT !.active = n.t] ELSE live IN
              IF live.endPending /\ live.done # None THEN Finish(named) ELSE live' = named /\ UNCHANGED promise
           /\ UNCHANGED <<outcome, timer>>
        \/ /\ InFlight(n.t) /\ at' = [at EXCEPT ![n.t] = "finishing"]
           /\ outcome' = [outcome EXCEPT ![n.t] = "failed"]
           /\ live' = [live EXCEPT !.done = None] /\ promise' = [promise EXCEPT ![n.t] = "rejected"]
           /\ UNCHANGED timer
    BY <1>2 DEF Hear, TurnInv, ValuesOK
  <1> QED BY <1>4, <1>5, <1>6, <1>7, <1>8, <1>9

\* The queue, the promises and the connection name the same turn, in every state.
LEMMA TurnInvHolds == SessionSpec => []TurnInv
  <1>1. SessionInit => TurnInv
    BY InitTurnInv
  <1>2. TurnInv /\ [SessionNext]_sessionVars => TurnInv'
    <2> SUFFICES ASSUME TurnInv, [SessionNext]_sessionVars
                 PROVE  TurnInv'
      OBVIOUS
    <2>1. ASSUME NEW t \in Turns, Submit(t) \/ AuthorizeFails(t) \/ Steer(t) \/ Stop(t) \/ StartTimesOut(t)
          PROVE  TurnInv'
      BY <2>1, SubmitKeeps, AuthorizeFailsKeeps, SteerKeeps, StopKeeps, StartTimesOutKeeps
    <2>2. ASSUME NEW t \in Turns, TurnNext(t)
          PROVE  TurnInv'
      BY <2>2, BeginTurnKeeps, OpenedKeeps, OpenFailsKeeps, SettleKeeps, FinishTurnKeeps DEF TurnNext
    <2>3. CASE Park \/ Exit \/ CodexNext
      BY <2>3, ParkKeeps, ExitKeeps, CodexTakesKeeps, CodexAnswersKeeps, CodexEndsKeeps, HearKeeps DEF CodexNext
    <2>4. CASE UNCHANGED sessionVars
      <3>1. UNCHANGED <<queue, at>> /\ QueueOK
        BY <2>4 DEF sessionVars, registryVars, TurnInv
      <3>2. QueueOK'
        BY <3>1, QueueStays
      <3>3. ValuesOK' /\ PromiseOK' /\ ConnectionOK'
        BY <2>4 DEF sessionVars, registryVars, codexVars, serverVars, sessionPast, TurnInv, ValuesOK,
                    PromiseOK, ConnectionOK
      <3> QED BY <3>2, <3>3 DEF TurnInv
    <2> QED BY <2>1, <2>2, <2>3, <2>4 DEF SessionNext
  <1> QED BY <1>1, <1>2, PTL DEF SessionSpec

\* A turn that waits can still be ended: in every state its promise is the one the
\* connection has registered, whatever became of the turns before it, for every user
\* and through every Stop, death, timeout and park (codex.ts:693-701).
THEOREM NoTurnIsLost == SessionSpec => []NoLostTurn
  <1>1. TurnInv => NoLostTurn
    BY DEF TurnInv, PromiseOK, NoLostTurn
  <1> QED BY <1>1, TurnInvHolds, PTL
-----------------------------------------------------------------------------
(* A user who waits: one turn at a time, and Stop only where it can be heard *)

\* A turn whose request is out and whose send has not returned.
Underway(t) == at[t] \in {"starting", "waiting"}
Holds(q, m) == \E k \in DOMAIN q : q[k].m = m
AllOf(q, t) == \A k \in DOMAIN q : q[k].t = t
Said(m)     == Holds(fromCodex, m)
Sent(m)     == Holds(toCodex, m)
Active      == IF live = None THEN None ELSE live.active

\* What the provider says of a turn, each once and in this order, but for the
\* answer to turn/start, which may come anywhere after the start.
InOrder(q) ==
    /\ \A i, j \in DOMAIN q : q[i].m = q[j].m => i = j
    /\ \A i \in DOMAIN q : q[i].m = "started" => i = 1
    /\ \A i, j \in DOMAIN q : q[i].m = "completed" /\ q[j].m = "interrupted" => i < j

\* Nothing is on: no turn runs and nothing is on its way.
Silence == toCodex = <<>> /\ fromCodex = <<>> /\ owed = {} /\ running = None /\ Active = None

\* All that is on is about the turn under way.
OnlyAbout(t) ==
    /\ AllOf(toCodex, t) /\ AllOf(fromCodex, t)
    /\ owed \subseteq {t} /\ running \in {t, None} /\ Active \in {t, None}
    /\ Len(toCodex) <= 1 /\ InOrder(fromCodex) /\ ~Said("startNo")

\* turn/start is the first that happens.
Unstarted(t) ==
    Sent("start") => /\ running = None /\ owed = {} /\ fromCodex = <<>> /\ Active = None
                     /\ t \notin ended \cup stopped /\ at[t] = "starting"
\* A turn that has left a trace runs or has ended, and never both.
RunsOrEnded(t) ==
    /\ t \in ended => running = None
    /\ Sent("interrupt") \/ fromCodex # <<>> \/ owed # {} \/ Active # None => running # None \/ t \in ended
    /\ Said("completed") \/ Said("interrupted") => t \in ended
\* An interrupt under way is that of a stopped turn, which shows nothing more.
Interrupted(t) ==
    /\ Sent("interrupt") \/ Said("interrupted") => live.mute /\ t \in stopped
    /\ ~(Sent("interrupt") /\ Said("interrupted"))
    /\ promise[t] = "pending" /\ t \in stopped => live.mute
\* turn/start is answered once, and a turn that waits has its answer.
AnsweredOnce(t) ==
    /\ at[t] = "waiting" => owed = {}
    /\ at[t] = "waiting" \/ owed # {} => ~Said("startOk")
\* Once its promise is settled, only the answer to turn/start may be missing.
Over(t) ==
    /\ promise[t] # "none"
    /\ promise[t] # "pending" =>
         /\ toCodex = <<>> /\ running = None /\ Active = None
         /\ ~Said("started") /\ ~Said("completed") /\ ~Said("interrupted")
Traffic(t) ==
    OnlyAbout(t) /\ Unstarted(t) /\ RunsOrEnded(t) /\ Interrupted(t) /\ AnsweredOnce(t) /\ Over(t)

Wire ==
    /\ (\A t \in Turns : ~Underway(t)) => Silence
    /\ \A t \in Turns : Underway(t) => Traffic(t)
    /\ live # None => ~live.endPending

\* The registry's side: nobody waits behind a turn, and the mark of a Stop is
\* that of the turn which is about to be sent.
Marks ==
    /\ Len(queue) <= 1 /\ ~steering
    /\ swallow <=> \E t \in Turns : at[t] \in {"queued", "opening"} /\ t \in stopped
    /\ swallow => live = None
    /\ \A t \in Turns : at[t] = "opening" /\ t \notin stopped => ~timer
    /\ \A t \in Turns : at[t] \in {"new", "queued", "opening"} => t \notin ended
    /\ \A t \in Turns : at[t] = "new" => t \notin stopped

Verdicts ==
    \A t \in Turns : outcome[t] \in {"ended", "swallowed"} \/ promise[t] = "resolved" => t \in ended \cup stopped
Timed ==
    /\ timer => \A t \in Turns : promise[t] # "pending"
    /\ queue = <<>> /\ live # None => timer

Manners == Marks /\ Wire /\ Verdicts /\ Timed
PoliteInv == ~hasty => Manners
-----------------------------------------------------------------------------
(* Sequences of notes *)

\* An empty queue holds nothing.
LEMMA HoldsNothing ==
    ASSUME NEW m
    PROVE  ~Holds(<<>>, m)
  BY DEF Holds

\* A note joins a queue: what it holds then.
LEMMA HoldsMore ==
    ASSUME NEW S, NEW q \in Seq(S), NEW e \in S
    PROVE  /\ \A m : Holds(Append(q, e), m) <=> Holds(q, m) \/ m = e.m
           /\ \A t : AllOf(Append(q, e), t) <=> AllOf(q, t) /\ e.t = t
           /\ Append(q, e) # <<>>
  <1>1. /\ Len(q) \in Nat /\ DOMAIN q = 1..Len(q) /\ DOMAIN Append(q, e) = 1..Len(q) + 1
        /\ Append(q, e)[Len(q) + 1] = e
        /\ \A k \in 1..Len(q) : Append(q, e)[k] = q[k]
    OBVIOUS
  <1>2. \A k : k \in DOMAIN Append(q, e) <=> k \in DOMAIN q \/ k = Len(q) + 1
    BY <1>1
  <1> QED BY <1>1, <1>2 DEF Holds, AllOf

\* A note that is new and comes in order keeps the order.
LEMMA JoinsInOrder ==
    ASSUME NEW q \in Seq(Answers), InOrder(q), NEW e \in Answers,
           ~Holds(q, e.m), e.m = "started" => q = <<>>, e.m = "completed" => ~Holds(q, "interrupted")
    PROVE  InOrder(Append(q, e))
  <1>1. /\ Len(q) \in Nat /\ DOMAIN q = 1..Len(q) /\ DOMAIN Append(q, e) = 1..Len(q) + 1
        /\ Append(q, e)[Len(q) + 1] = e
        /\ \A k \in 1..Len(q) : Append(q, e)[k] = q[k]
    OBVIOUS
  <1>2. PICK p : p = Append(q, e)
    OBVIOUS
  <1>3. \A k \in DOMAIN p :
           \/ k \in DOMAIN q /\ p[k] = q[k] /\ p[k].m # e.m
           \/ k = Len(q) + 1 /\ p[k] = e
    BY <1>1, <1>2 DEF Holds
  <1>4. \A i, j \in DOMAIN p : p[i].m = p[j].m => i = j
    BY <1>3 DEF InOrder
  <1>5. \A i \in DOMAIN p : p[i].m = "started" => i = 1
    BY <1>1, <1>3 DEF InOrder
  <1>6. \A i, j \in DOMAIN p : p[i].m = "completed" /\ p[j].m = "interrupted" => i < j
    BY <1>1, <1>3 DEF InOrder, Holds
  <1> QED BY <1>2, <1>4, <1>5, <1>6 DEF InOrder

\* The first note is heard: what the queue still holds.
LEMMA HoldsRest ==
    ASSUME NEW q \in Seq(Answers), q # <<>>, InOrder(q)
    PROVE  /\ InOrder(Tail(q))
           /\ \A m : Holds(Tail(q), m) => Holds(q, m) /\ m # Head(q).m
           /\ \A m : Holds(q, m) /\ m # Head(q).m => Holds(Tail(q), m)
           /\ ~Holds(Tail(q), "started") /\ Holds(q, Head(q).m)
           /\ Head(q).m = "interrupted" => ~Holds(Tail(q), "completed")
           /\ \A t : AllOf(q, t) => AllOf(Tail(q), t) /\ Head(q).t = t
  <1>1. /\ Len(q) \in Nat \ {0} /\ DOMAIN q = 1..Len(q) /\ Head(q) = q[1]
        /\ DOMAIN Tail(q) = 1..Len(q) - 1
        /\ \A k \in 1..Len(q) - 1 : Tail(q)[k] = q[k + 1]
    OBVIOUS
  <1>2. PICK p : p = Tail(q)
    OBVIOUS
  <1>3. \A k \in DOMAIN p : k + 1 \in DOMAIN q /\ p[k] = q[k + 1] /\ k + 1 # 1
    BY <1>1, <1>2
  <1>4. 1 \in DOMAIN q
    BY <1>1
  <1>5. InOrder(p)
    <2>1. \A i, j \in DOMAIN p : p[i].m = p[j].m => i = j
      <3>1. \A i, j \in DOMAIN p : p[i].m = p[j].m => i + 1 = j + 1
        BY <1>3 DEF InOrder
      <3> QED BY <1>1, <1>2, <3>1
    <2>2. \A i \in DOMAIN p : p[i].m # "started"
      BY <1>3 DEF InOrder
    <2>3. \A i, j \in DOMAIN p : p[i].m = "completed" /\ p[j].m = "interrupted" => i < j
      <3>1. \A i, j \in DOMAIN p : p[i].m = "completed" /\ p[j].m = "interrupted" => i + 1 < j + 1
        BY <1>3 DEF InOrder
      <3> QED BY <1>1, <1>2, <3>1
    <2> QED BY <2>1, <2>2, <2>3 DEF InOrder
  <1>6. \A m : Holds(p, m) => Holds(q, m) /\ m # q[1].m
    BY <1>3, <1>4 DEF Holds, InOrder
  <1>7. \A m : Holds(q, m) /\ m # q[1].m => Holds(p, m)
    <2> SUFFICES ASSUME NEW m, NEW k \in DOMAIN q, q[k].m = m, m # q[1].m
                 PROVE  Holds(p, m)
      BY DEF Holds
    <2>1. k # 1 /\ k - 1 \in DOMAIN p /\ p[k - 1] = q[k]
      BY <1>1, <1>2
    <2> QED BY <2>1 DEF Holds
  <1>8. ~Holds(p, "started") /\ Holds(q, q[1].m)
    BY <1>3, <1>4 DEF Holds, InOrder
  <1>9. q[1].m = "interrupted" => ~Holds(p, "completed")
    <2>1. \A k \in DOMAIN p : ~(k + 1 < 1)
      BY <1>1, <1>2
    <2> QED BY <1>3, <1>4, <2>1 DEF Holds, InOrder
  <1>10. \A t : AllOf(q, t) => AllOf(p, t) /\ q[1].t = t
    BY <1>3, <1>4 DEF AllOf
  <1> QED BY <1>1, <1>2, <1>5, <1>6, <1>7, <1>8, <1>9, <1>10

\* The only request on its way.
LEMMA FirstRequest ==
    ASSUME NEW e \in Requests
    PROVE  /\ \A m : Holds(Append(<<>>, e), m) <=> m = e.m
           /\ AllOf(Append(<<>>, e), e.t) /\ Len(Append(<<>>, e)) = 1
  <1>1. PICK q \in Seq(Requests) : q = <<>>
    BY EmptySeq
  <1>2. ~(\E m : Holds(q, m)) /\ AllOf(q, e.t)
    BY <1>1 DEF Holds, AllOf
  <1>3. Len(Append(q, e)) = 1
    BY <1>1
  <1> QED BY <1>1, <1>2, <1>3, HoldsMore

\* At most one request is on its way.
LEMMA OneRequest ==
    ASSUME NEW q \in Seq(Requests), Len(q) <= 1, q # <<>>
    PROVE  /\ Tail(q) = <<>> /\ Holds(q, Head(q).m) /\ \A t : AllOf(q, t) => Head(q).t = t
  <1>1. Len(q) = 1
    BY EmptySeq
  <1>2. Head(q) = q[1] /\ DOMAIN q = 1..1
    BY <1>1
  <1>3. Tail(q) \in Seq(Requests) /\ Len(Tail(q)) = 0
    BY <1>1, HeadTailProperties
  <1>4. Tail(q) = <<>>
    BY <1>3, EmptySeq
  <1>5. 1 \in DOMAIN q
    BY <1>2
  <1> QED BY <1>2, <1>4, <1>5 DEF Holds, AllOf
-----------------------------------------------------------------------------
(* What stays quiet *)

\* Only one turn is under way, the head of the queue.
LEMMA OneUnderway ==
    ASSUME TurnInv, NEW t \in Turns, Underway(t)
    PROVE  Current(t) /\ \A u \in Turns \ {t} : ~Underway(u) /\ at[u] \in {"new", "queued", "done"}
  <1>1. Current(t)
    BY DEF TurnInv, QueueOK, Underway
  <1> QED BY <1>1, OneHead DEF TurnInv, Underway

\* Nothing is under way while the head waits, opens or finishes.
LEMMA NobodyUnderway ==
    ASSUME TurnInv, NEW t \in Turns, Current(t), at[t] \in {"queued", "opening", "finishing"}
    PROVE  \A u \in Turns : ~Underway(u)
  BY OneHead DEF TurnInv, Underway

\* With a turn under way, it is enough to look at what is on about that one.
LEMMA WireIs ==
    ASSUME TurnInv', NEW t \in Turns, Underway(t)', Traffic(t)', live' # None => ~live'.endPending
    PROVE  Wire'
  <1>1. \A u \in Turns : Underway(u)' => u = t
    BY DEF TurnInv, QueueOK, Underway, Current
  <1> QED BY <1>1 DEF Wire

\* When nothing is on, a turn under way has only its settled promise left to read.
LEMMA WireEmpty ==
    ASSUME Silence', live' # None => ~live'.endPending,
           \A t \in Turns : Underway(t)' => promise'[t] \in {"resolved", "rejected"}
    PROVE  Wire'
  <1>1. /\ toCodex' = <<>> /\ fromCodex' = <<>> /\ owed' = {} /\ running' = None /\ Active' = None
    BY DEF Silence
  <1>2. \A m : ~Said(m)' /\ ~Sent(m)'
    BY <1>1, HoldsNothing DEF Said, Sent
  <1>3. ASSUME NEW t \in Turns, Underway(t)' PROVE Traffic(t)'
    <2>1. OnlyAbout(t)'
      BY <1>1, <1>2 DEF OnlyAbout, AllOf, InOrder
    <2>2. Unstarted(t)' /\ RunsOrEnded(t)' /\ Interrupted(t)' /\ AnsweredOnce(t)'
      BY <1>1, <1>2, <1>3 DEF Unstarted, RunsOrEnded, Interrupted, AnsweredOnce
    <2>3. Over(t)'
      BY <1>1, <1>2, <1>3 DEF Over
    <2> QED BY <2>1, <2>2, <2>3 DEF Traffic
  <1> QED BY <1>3 DEF Wire

\* A step that touches neither the connection nor the turn under way.
LEMMA WireStays ==
    ASSUME TurnInv, TurnInv', Wire, UNCHANGED <<live, serverVars, promise, ended>>,
           \A t \in Turns : Underway(t)' <=> Underway(t),
           \A t \in Turns : Underway(t) => at'[t] = at[t] /\ (t \in stopped' <=> t \in stopped)
    PROVE  Wire'
  <1>1. UNCHANGED <<live, toCodex, fromCodex, running, owed, promise, ended>>
    BY DEF serverVars
  <1>2. Active' = Active /\ \A m : (Said(m)' <=> Said(m)) /\ (Sent(m)' <=> Sent(m))
    BY <1>1 DEF Active, Said, Sent
  <1>3. CASE \A t \in Turns : ~Underway(t)
    BY <1>1, <1>2, <1>3 DEF Wire, Silence
  <1>4. ASSUME NEW t \in Turns, Underway(t) PROVE Wire'
    <2>1. Traffic(t) /\ (live # None => ~live.endPending) /\ Underway(t)'
      BY <1>4 DEF Wire
    <2>2. at'[t] = at[t] /\ (t \in stopped' <=> t \in stopped)
      BY <1>4
    <2>3. Traffic(t)'
      BY <1>1, <1>2, <2>1, <2>2
      DEF Traffic, OnlyAbout, Unstarted, RunsOrEnded, Interrupted, AnsweredOnce, Over
    <2> QED BY <1>1, <2>1, <2>3, WireIs
  <1> QED BY <1>3, <1>4

\* A turn whose promise is settled, and whose turn/start is answered, leaves
\* nothing behind.
LEMMA SettledIsSilent ==
    ASSUME TurnInv, Wire, NEW t \in Turns, at[t] = "waiting", promise[t] # "pending"
    PROVE  Silence
  <1>1. Traffic(t)
    BY DEF Wire, Underway
  <1>2. \A m \in {"started", "completed", "startOk", "startNo", "interrupted"} : ~Said(m)
    BY <1>1 DEF Traffic, OnlyAbout, AnsweredOnce, Over
  <1>3. fromCodex = <<>>
    <2> SUFFICES ASSUME fromCodex # <<>> PROVE FALSE
      OBVIOUS
    <2>1. 1 \in DOMAIN fromCodex /\ fromCodex[1] \in Answers
      BY DEF TurnInv, ValuesOK
    <2>2. Said(fromCodex[1].m)
      BY <2>1 DEF Said, Holds
    <2> QED BY <1>2, <2>1, <2>2 DEF Answers
  <1> QED BY <1>1, <1>3 DEF Traffic, AnsweredOnce, Over, Silence
-----------------------------------------------------------------------------
(* The patient user's invariant, action by action *)

\* Whoever has an operation is the head, and has the queue for itself.
LEMMA Alone ==
    ASSUME TurnInv, Marks, NEW t \in Turns, at[t] \notin {"new", "done"}
    PROVE  /\ Current(t) /\ queue # <<>> /\ Len(queue) = 1
           /\ \A u \in Turns \ {t} : at[u] \in {"new", "done"}
  <1>1. queue \in Seq(Turns) /\ Len(queue) \in Nat /\ Len(queue) <= 1 /\ InQueue(t)
    BY DEF TurnInv, QueueOK, Marks
  <1>2. PICK k \in 1..Len(queue) : queue[k] = t
    BY <1>1 DEF InQueue
  <1>3. Len(queue) = 1 /\ queue[1] = t /\ queue # <<>> /\ Head(queue) = t
    <2>1. Len(queue) = 1 /\ k = 1
      <3>1. PICK n \in Nat : n = Len(queue) /\ n <= 1 /\ k \in 1..n
        BY <1>1
      <3>2. k \in Int /\ 1 <= k /\ k <= n
        BY <3>1
      <3> QED BY <3>1, <3>2
    <2>2. queue # <<>>
      BY <2>1
    <2>3. Head(queue) = queue[1]
      BY <1>1, <2>2
    <2> QED BY <1>2, <2>1, <2>2, <2>3
  <1>4. \A u \in Turns : InQueue(u) => u = t
    BY <1>3 DEF InQueue
  <1> QED BY <1>3, <1>4 DEF Current, TurnInv, QueueOK

\* A started turn, on a connection with nothing left of those before it.
LEMMA StartedWire ==
    ASSUME TurnInv, TurnInv', NEW t \in Turns, Current(t), at[t] \in {"queued", "opening"},
           NEW l \in Live, ~l.endPending, l.active = None, StartTurn(t, l),
           toCodex = <<>>, fromCodex = <<>>, owed = {}, running = None, t \notin ended \cup stopped,
           UNCHANGED <<fromCodex, running, owed, ended, stopped>>
    PROVE  /\ Wire' /\ promise'[t] = "pending"
           /\ \A u \in Turns \ {t} : promise'[u] = promise[u]
  <1>1. StartedOn(t, l) /\ at'[t] = "starting" /\ toCodex' = Append(<<>>, Note("start", t))
    BY StartEffect DEF TurnInv, QueueOK, StartTurn
  <1>2. /\ live' # None /\ ~live'.endPending /\ live'.active = None /\ promise'[t] = "pending"
        /\ \A u \in Turns \ {t} : promise'[u] = promise[u]
    BY <1>1 DEF StartedOn
  <1>3. Active' = None
    BY <1>2 DEF Active
  <1>4. Note("start", t) \in Requests /\ Note("start", t).m = "start" /\ Note("start", t).t = t
    BY DEF Note, Requests
  <1>5. \A m : (Sent(m)' <=> m = "start") /\ ~Said(m)'
    BY <1>1, <1>4, FirstRequest, HoldsNothing DEF Sent, Said
  <1>6. AllOf(toCodex', t) /\ AllOf(fromCodex', t) /\ Len(toCodex') <= 1 /\ InOrder(fromCodex')
    <2>1. AllOf(fromCodex', t) /\ InOrder(fromCodex')
      BY DEF AllOf, InOrder
    <2>2. AllOf(toCodex', t) /\ Len(toCodex') = 1
      BY <1>1, <1>4, FirstRequest
    <2> QED BY <2>1, <2>2
  <1>7. Traffic(t)'
    BY <1>1, <1>2, <1>3, <1>5, <1>6
    DEF Traffic, OnlyAbout, Unstarted, RunsOrEnded, Interrupted, AnsweredOnce, Over
  <1>8. Underway(t)'
    BY <1>1 DEF Underway
  <1> QED BY <1>2, <1>7, <1>8, WireIs

\* A prompt is queued: the queue was empty, and the turn before it is over.
LEMMA SubmitPolite ==
    ASSUME TurnInv, TurnInv', Manners, ~hasty, NEW t \in Turns, Submit(t)
    PROVE  Manners'
  <1>1. /\ at[t] = "new" /\ queue = <<>> /\ queue' = Append(queue, t) /\ at' = [at EXCEPT ![t] = "queued"]
        /\ UNCHANGED <<timer, steering, live, promise, swallow, serverVars, stopped, outcome, ended>>
    BY DEF Submit, codexVars, sessionPast
  <1>2. at'[t] = "queued" /\ \A u \in Turns \ {t} : at'[u] = at[u]
    BY <1>1 DEF TurnInv, QueueOK
  <1>3. queue' # <<>> /\ Len(queue') = 1
    BY <1>1
  <1>4. \A u \in Turns : at[u] \in {"new", "done"}
    BY <1>1 DEF TurnInv, QueueOK, InQueue
  <1>5. Marks'
    BY <1>1, <1>2, <1>3, <1>4 DEF Manners, Marks
  <1>6. Wire'
    BY <1>1, <1>2, <1>4, WireStays DEF Manners, Underway
  <1> QED BY <1>1, <1>3, <1>5, <1>6 DEF Manners, Verdicts, Timed

\* The operation starts; with a connection, turn/start is all that is on.
LEMMA BeginTurnPolite ==
    ASSUME TurnInv, TurnInv', Manners, ~hasty, NEW t \in Turns, BeginTurn(t)
    PROVE  Manners'
  <1>1. /\ at[t] = "queued" /\ Current(t) /\ timer' = FALSE
        /\ UNCHANGED <<queue, steering, hasty, stopped, ended, faultBounds>>
    BY DEF BeginTurn, IsNext
  <1>2. queue # <<>> /\ \A u \in Turns \ {t} : at[u] \in {"new", "done"}
    BY <1>1, Alone DEF Manners
  <1>3. t \notin ended /\ (t \in stopped => swallow) /\ (swallow => live = None)
    BY <1>1 DEF Manners, Marks
  <1>4. CASE /\ live = None /\ at' = [at EXCEPT ![t] = "opening"]
             /\ UNCHANGED <<codexVars, serverVars, outcome>>
    <2>1. at'[t] = "opening" /\ \A u \in Turns \ {t} : at'[u] = at[u]
      BY <1>4 DEF TurnInv, QueueOK
    <2>2. Marks'
      BY <1>1, <1>2, <1>4, <2>1 DEF Manners, Marks, codexVars
    <2>3. Wire'
      BY <1>1, <1>2, <1>4, <2>1, WireStays DEF Manners, Underway, codexVars
    <2> QED BY <1>1, <1>2, <1>4, <2>2, <2>3 DEF Manners, Verdicts, Timed, codexVars
  <1>5. CASE /\ live # None /\ ~swallow /\ StartTurn(t, live)
             /\ UNCHANGED <<swallow, fromCodex, running, owed, outcome>>
    <2>1. Silence /\ live \in Live /\ ~live.endPending
      BY <1>1, <1>5, NobodyUnderway DEF Manners, Wire, TurnInv, ValuesOK
    <2>2. /\ Wire' /\ promise'[t] = "pending"
          /\ \A u \in Turns \ {t} : promise'[u] = promise[u]
      BY <1>1, <1>3, <1>5, <2>1, StartedWire DEF Silence, Active
    <2>3. at'[t] = "starting" /\ \A u \in Turns \ {t} : at'[u] = at[u]
      BY <1>5 DEF StartTurn, TurnInv, QueueOK
    <2>4. Marks'
      BY <1>1, <1>2, <1>5, <2>3 DEF Manners, Marks
    <2>5. Verdicts'
      BY <1>1, <1>3, <1>5, <2>2 DEF Manners, Verdicts
    <2> QED BY <1>1, <1>2, <2>2, <2>4, <2>5 DEF Manners, Timed
  <1> QED BY <1>3, <1>4, <1>5 DEF BeginTurn

\* The connection is open: turn/start is all that is on it.
LEMMA OpenedPolite ==
    ASSUME TurnInv, TurnInv', Manners, ~hasty, NEW t \in Turns, Opened(t)
    PROVE  Manners'
  <1>1. /\ at[t] = "opening" /\ swallow' = FALSE
        /\ UNCHANGED <<queue, timer, steering, fromCodex, running, owed, hasty, stopped, ended, faultBounds>>
    BY DEF Opened
  <1>2. Current(t) /\ queue # <<>> /\ \A u \in Turns \ {t} : at[u] \in {"new", "done"}
    BY <1>1, Alone DEF Manners
  <1>3. /\ t \notin ended /\ (swallow <=> t \in stopped) /\ (t \notin stopped => ~timer)
    BY <1>1, <1>2 DEF Manners, Marks
  <1>4. /\ live = None /\ toCodex = <<>> /\ fromCodex = <<>> /\ owed = {} /\ running = None
        /\ \A u \in Turns : promise[u] # "pending"
    BY <1>1, <1>2, NothingRegistered DEF TurnInv, ConnectionOK
  <1>5. NewLive \in Live /\ NewLive # None /\ ~NewLive.endPending /\ NewLive.active = None
    <2>1. NewLive \in Live
      BY DEF NewLive, Live
    <2> QED BY <2>1, LiveAssumption DEF NewLive
  <1>6. CASE /\ swallow /\ live' = NewLive /\ at' = [at EXCEPT ![t] = "finishing"]
             /\ outcome' = [outcome EXCEPT ![t] = "swallowed"] /\ UNCHANGED <<promise, toCodex>>
    <2>1. at'[t] = "finishing" /\ \A u \in Turns \ {t} : at'[u] = at[u]
      BY <1>6 DEF TurnInv, QueueOK
    <2>2. Marks'
      BY <1>1, <1>2, <2>1 DEF Manners, Marks
    <2>3. Silence'
      BY <1>1, <1>4, <1>5, <1>6 DEF Silence, Active
    <2>4. Wire'
      BY <1>2, <1>5, <1>6, <2>1, <2>3, WireEmpty DEF Underway
    <2>5. Verdicts'
      BY <1>1, <1>3, <1>6 DEF Manners, Verdicts, TurnInv, ValuesOK
    <2> QED BY <1>1, <1>2, <1>4, <1>6, <2>2, <2>4, <2>5 DEF Manners, Timed
  <1>7. CASE ~swallow /\ StartTurn(t, NewLive) /\ UNCHANGED outcome
    <2>1. /\ Wire' /\ promise'[t] = "pending"
          /\ \A u \in Turns \ {t} : promise'[u] = promise[u]
      BY <1>1, <1>2, <1>3, <1>4, <1>5, <1>7, StartedWire
    <2>2. at'[t] = "starting" /\ \A u \in Turns \ {t} : at'[u] = at[u]
      BY <1>7 DEF StartTurn, TurnInv, QueueOK
    <2>3. Marks'
      BY <1>1, <1>2, <2>2 DEF Manners, Marks
    <2>4. Verdicts'
      BY <1>1, <1>7, <2>1 DEF Manners, Verdicts
    <2> QED BY <1>1, <1>2, <1>3, <1>7, <2>1, <2>3, <2>4 DEF Manners, Timed
  <1> QED BY <1>6, <1>7 DEF Opened, Swallowed

\* The connection cannot be opened: nothing was on, nothing is.
LEMMA OpenFailsPolite ==
    ASSUME TurnInv, TurnInv', Manners, ~hasty, NEW t \in Turns, OpenFails(t)
    PROVE  Manners'
  <1>1. /\ at[t] = "opening" /\ swallow' = FALSE /\ at' = [at EXCEPT ![t] = "finishing"]
        /\ outcome' = [outcome EXCEPT ![t] = "failed"]
        /\ UNCHANGED <<queue, timer, steering, live, promise, serverVars, stopped, ended>>
    BY DEF OpenFails
  <1>2. queue # <<>> /\ \A u \in Turns \ {t} : at[u] \in {"new", "done"}
    BY <1>1, Alone DEF Manners
  <1>3. at'[t] = "finishing" /\ \A u \in Turns \ {t} : at'[u] = at[u]
    BY <1>1 DEF TurnInv, QueueOK
  <1>4. Marks'
    BY <1>1, <1>2, <1>3 DEF Manners, Marks
  <1>5. Wire'
    BY <1>1, <1>2, <1>3, WireStays DEF Manners, Underway
  <1>6. Verdicts'
    BY <1>1 DEF Manners, Verdicts, TurnInv, ValuesOK
  <1> QED BY <1>1, <1>2, <1>4, <1>5, <1>6 DEF Manners, Timed

\* runTurn goes on from its settled promise: by then nothing is on.
LEMMA SettlePolite ==
    ASSUME TurnInv, TurnInv', Manners, ~hasty, NEW t \in Turns, Settle(t)
    PROVE  Manners'
  <1>1. /\ at[t] = "waiting" /\ promise[t] # "pending" /\ at' = [at EXCEPT ![t] = "finishing"]
        /\ outcome' = [outcome EXCEPT ![t] = IF promise[t] = "resolved" THEN "ended" ELSE "failed"]
        /\ UNCHANGED <<queue, timer, steering, live, promise, swallow, serverVars, stopped, ended>>
    BY DEF Settle, codexVars
  <1>2. queue # <<>> /\ \A u \in Turns \ {t} : at[u] \in {"new", "done"}
    BY <1>1, Alone DEF Manners
  <1>3. at'[t] = "finishing" /\ \A u \in Turns \ {t} : at'[u] = at[u]
    BY <1>1 DEF TurnInv, QueueOK
  <1>4. Marks'
    BY <1>1, <1>2, <1>3 DEF Manners, Marks
  <1>5. Silence
    BY <1>1, SettledIsSilent DEF Manners
  <1>6. Silence' /\ (live' # None => ~live'.endPending)
    BY <1>1, <1>5 DEF Silence, Active, serverVars, Manners, Wire
  <1>7. Wire'
    BY <1>2, <1>3, <1>6, WireEmpty DEF Underway
  <1>8. Verdicts'
    BY <1>1 DEF Manners, Verdicts, TurnInv, ValuesOK
  <1> QED BY <1>1, <1>2, <1>4, <1>7, <1>8 DEF Manners, Timed

\* The turn leaves the queue; a live connection is left with its timer armed.
LEMMA FinishTurnPolite ==
    ASSUME TurnInv, TurnInv', Manners, ~hasty, NEW t \in Turns, FinishTurn(t)
    PROVE  Manners'
  <1>1. /\ at[t] = "finishing" /\ at' = [at EXCEPT ![t] = "done"] /\ queue' = Left(t)
        /\ timer' = ArmedAfterTurn /\ steering' = FALSE
        /\ UNCHANGED <<live, promise, swallow, serverVars, stopped, outcome, ended>>
    BY DEF FinishTurn, codexVars, sessionPast
  <1>2. /\ Current(t) /\ Len(queue) = 1 /\ queue # <<>> /\ queue \in Seq(Turns)
        /\ \A u \in Turns \ {t} : at[u] \in {"new", "done"}
    BY <1>1, Alone DEF Manners, TurnInv, QueueOK
  <1>3. at'[t] = "done" /\ \A u \in Turns \ {t} : at'[u] = at[u]
    BY <1>1 DEF TurnInv, QueueOK
  <1>4. Len(queue') = 0
    BY <1>1, <1>2, HeadLeaves, HeadTailProperties DEF TurnInv
  <1>5. timer' = TRUE /\ \A u \in Turns : promise[u] # "pending"
    BY <1>1, <1>2, NothingRegistered DEF ArmedAfterTurn, Manners, Marks
  <1>6. Marks'
    BY <1>1, <1>2, <1>3, <1>4 DEF Manners, Marks
  <1>7. Wire'
    BY <1>1, <1>2, <1>3, WireStays DEF Manners, Underway
  <1> QED BY <1>1, <1>5, <1>6, <1>7 DEF Manners, Verdicts, Timed

\* A message into the turn: the timer is off while a turn is under way.
LEMMA SteerPolite ==
    ASSUME TurnInv, TurnInv', Manners, ~hasty, NEW t \in Turns, Steer(t)
    PROVE  Manners'
  <1>1. /\ Current(t) /\ timer' = FALSE
        /\ UNCHANGED <<queue, at, steering, live, promise, swallow, serverVars, stopped, outcome, ended>>
    BY DEF Steer, codexVars, sessionPast
  <1>2. Wire'
    BY <1>1, WireStays DEF Manners, Underway
  <1>3. Marks'
    BY <1>1 DEF Manners, Marks
  <1> QED BY <1>1, <1>2, <1>3 DEF Manners, Verdicts, Timed, Current

\* The interrupt of the turn that runs.
LEMMA StopWire ==
    ASSUME TurnInv, TurnInv', Manners, NEW t \in Turns, t \notin stopped, stopped' = stopped \cup {t},
           live # None, live.active = t,
           live' = [live EXCEPT !.cancelled = TRUE, !.mute = TRUE],
           toCodex' = Append(toCodex, Note("interrupt", t)),
           UNCHANGED <<at, promise, fromCodex, running, owed, ended>>
    PROVE  Wire' /\ Underway(t)
  <1>1. Active = t /\ t # None /\ live \in Live
    BY SessionAssumption DEF Active, TurnInv, ValuesOK
  <1>2. Underway(t)
    <2>1. PICK u \in Turns : Underway(u)
      BY <1>1 DEF Manners, Wire, Silence
    <2>2. Active \in {u, None}
      BY <2>1 DEF Manners, Wire, Traffic, OnlyAbout
    <2> QED BY <1>1, <2>1, <2>2
  <1>3. Traffic(t) /\ ~live.endPending
    BY <1>2 DEF Manners, Wire
  <1>4. /\ promise[t] = "pending" /\ ~Sent("start") /\ ~Sent("interrupt") /\ ~Said("interrupted")
    BY <1>1, <1>3 DEF Traffic, Over, Unstarted, Interrupted
  <1>5. toCodex = <<>>
    <2>1. ASSUME toCodex # <<>> PROVE FALSE
      <3>1. Head(toCodex) \in Requests /\ Sent(Head(toCodex).m)
        BY <1>3, <2>1, OneRequest DEF Traffic, OnlyAbout, TurnInv, ValuesOK, Sent
      <3> QED BY <1>4, <3>1 DEF Requests
    <2> QED BY <2>1
  <1>6. Note("interrupt", t) \in Requests /\ Note("interrupt", t).m = "interrupt" /\ Note("interrupt", t).t = t
    BY DEF Note, Requests
  <1>7. /\ \A m : Sent(m)' <=> m = "interrupt"
        /\ AllOf(toCodex', t) /\ Len(toCodex') = 1
    <2>1. toCodex' = Append(<<>>, Note("interrupt", t))
      BY <1>5
    <2> QED BY <1>6, <2>1, FirstRequest DEF Sent
  <1>8. \A m : Said(m)' <=> Said(m)
    BY DEF Said
  <1>9. PICK l \in Live : live' = l /\ l.mute /\ l.active = live.active /\ l.endPending = live.endPending
    BY <1>1, Cancelled
  <1>10. live' # None /\ Active' = Active
    BY <1>1, <1>9, LiveAssumption DEF Active
  <1>11. Traffic(t)'
    <2>1. OnlyAbout(t)'
      BY <1>3, <1>7, <1>8, <1>10 DEF Traffic, OnlyAbout
    <2>2. Unstarted(t)'
      BY <1>7 DEF Unstarted
    <2>3. RunsOrEnded(t)'
      BY <1>1, <1>3, <1>8, <1>10 DEF Traffic, RunsOrEnded
    <2>4. Interrupted(t)'
      BY <1>4, <1>8, <1>9 DEF Interrupted
    <2>5. AnsweredOnce(t)' /\ Over(t)'
      BY <1>3, <1>4, <1>8 DEF Traffic, AnsweredOnce, Over
    <2> QED BY <2>1, <2>2, <2>3, <2>4, <2>5 DEF Traffic
  <1>12. Underway(t)'
    BY <1>2 DEF Underway
  <1>13. ~live'.endPending
    BY <1>3, <1>9
  <1> QED BY <1>2, <1>11, <1>12, <1>13, WireIs

\* Stop: the mark of a turn that opens, or the interrupt of one that runs.
LEMMA StopPolite ==
    ASSUME TurnInv, TurnInv', Manners, ~hasty, NEW t \in Turns, Stop(t)
    PROVE  Manners'
  <1>1. /\ at[t] \notin {"new", "done"} /\ t \notin stopped /\ stopped' = stopped \cup {t}
        /\ UNCHANGED <<queue, at, steering, fromCodex, running, owed, hasty, outcome, ended, faultBounds>>
    BY DEF Stop, UiBusy
  <1>2. queue # <<>> /\ \A u \in Turns \ {t} : at[u] \in {"new", "done"}
    BY <1>1, Alone DEF Manners
  <1>3. CASE /\ live = None /\ at[t] \in {"queued", "opening"}
             /\ swallow' = TRUE /\ timer' = TRUE /\ UNCHANGED <<live, promise, toCodex>>
    <2>1. Marks'
      BY <1>1, <1>2, <1>3 DEF Manners, Marks
    <2>2. Wire'
      BY <1>1, <1>2, <1>3, WireStays DEF Manners, Underway, serverVars
    <2>3. \A u \in Turns : promise[u] # "pending"
      BY <1>3 DEF TurnInv, PromiseOK
    <2> QED BY <1>1, <1>2, <1>3, <2>1, <2>2, <2>3 DEF Manners, Verdicts, Timed
  <1>4. CASE /\ live # None /\ live.active # None /\ live.active = t
             /\ live' = [live EXCEPT !.cancelled = TRUE, !.mute = TRUE]
             /\ toCodex' = Append(toCodex, Note("interrupt", live.active))
             /\ timer' = FALSE /\ UNCHANGED <<swallow, promise>>
    <2>1. Wire' /\ Underway(t)
      BY <1>1, <1>4, StopWire
    <2>2. Marks'
      BY <1>1, <1>2, <1>4, <2>1 DEF Manners, Marks, Underway
    <2> QED BY <1>1, <1>2, <1>4, <2>1, <2>2 DEF Manners, Verdicts, Timed
  <1> QED BY <1>3, <1>4 DEF Stop

\* The connection goes: a patient user has at most the turn under way on it.
LEMMA ClosedPolite ==
    ASSUME TurnInv, TurnInv', Manners, NEW v \in {"resolved", "rejected"}, Closed(v),
           v = "resolved" => timer,
           \A t \in Turns : at[t] \in {"queued", "opening"} /\ t \in stopped => swallow',
           swallow' => swallow /\ live = None,
           \A t \in Turns : at[t] # "opening",
           UNCHANGED <<queue, steering, stopped, ended>>
    PROVE  Manners'
  <1>1. /\ live' = None /\ toCodex' = <<>> /\ fromCodex' = <<>> /\ running' = None /\ owed' = {}
        /\ promise' = [t \in Turns |-> IF promise[t] = "pending" THEN v ELSE promise[t]]
        /\ at' = [t \in Turns |-> IF InFlight(t) THEN "finishing" ELSE at[t]]
        /\ outcome' = [t \in Turns |-> IF InFlight(t) THEN "failed" ELSE outcome[t]]
    BY DEF Closed
  <1>2. \A t \in Turns : at'[t] = IF at[t] = "starting" THEN "finishing" ELSE at[t]
    BY <1>1 DEF InFlight
  <1>3. Marks'
    BY <1>1, <1>2 DEF Manners, Marks
  <1>4. \A t \in Turns : promise'[t] # "pending"
    BY <1>1
  <1>5. Wire'
    <2>1. Silence'
      BY <1>1 DEF Silence, Active
    <2>2. ASSUME NEW t \in Turns, Underway(t)' PROVE promise'[t] \in {"resolved", "rejected"}
      <3>1. Underway(t)
        BY <1>2, <2>2 DEF Underway
      <3>2. promise[t] # "none" /\ promise[t] \in {"none", "pending", "resolved", "rejected"}
        BY <3>1 DEF Manners, Wire, Traffic, Over, TurnInv, ValuesOK
      <3> QED BY <1>1, <3>2
    <2> QED BY <1>1, <2>1, <2>2, WireEmpty
  <1>6. Verdicts'
    <2>1. \A t \in Turns : outcome'[t] \in {"ended", "swallowed"} => outcome[t] \in {"ended", "swallowed"}
      BY <1>1
    <2>2. \A t \in Turns : promise'[t] = "resolved" => promise[t] = "resolved"
      BY <1>1 DEF Manners, Timed
    <2> QED BY <2>1, <2>2 DEF Manners, Verdicts
  <1> QED BY <1>1, <1>3, <1>4, <1>5, <1>6 DEF Manners, Timed

\* The idle timer closes a connection on which no turn is pending.
LEMMA ParkPolite == ASSUME TurnInv, TurnInv', Manners, Park PROVE Manners'
  <1>1. /\ timer /\ \A t \in Turns : ~Brief(t)
        /\ timer' = StopAwaits /\ swallow' = FALSE
        /\ UNCHANGED <<queue, steering, stopped, ended>>
    BY DEF Park
  <1>2. \A t \in Turns : at[t] \notin {"queued", "opening"}
    BY <1>1, Alone DEF Brief, Manners
  <1>3. CASE live = None /\ UNCHANGED <<live, promise, at, outcome, serverVars>>
    <2>1. Marks'
      BY <1>1, <1>2, <1>3 DEF Manners, Marks
    <2>2. Wire'
      BY <1>1, <1>3, WireStays DEF Manners, Underway
    <2> QED BY <1>1, <1>3, <2>1, <2>2 DEF Manners, Verdicts, Timed
  <1>4. CASE Closed("resolved")
    BY <1>1, <1>2, <1>4, ClosedPolite
  <1> QED BY <1>3, <1>4 DEF Park

\* The process dies: nothing is on any more, and the turn is settled.
LEMMA ExitPolite == ASSUME TurnInv, TurnInv', Manners, Exit PROVE Manners'
  <1>1. /\ live # None /\ Closed("rejected") /\ UNCHANGED <<queue, steering, swallow, stopped, ended>>
    BY DEF Exit
  <1>2. \A t \in Turns : at[t] # "opening"
    BY <1>1 DEF TurnInv, ConnectionOK
  <1>3. \A t \in Turns : at[t] \in {"queued", "opening"} /\ t \in stopped => swallow
    BY DEF Manners, Marks
  <1>4. ~swallow
    BY <1>1 DEF Manners, Marks
  <1> QED BY <1>1, <1>2, <1>3, <1>4, ClosedPolite

\* What the app server does leaves the registry and the adapter as they are.
LEMMA ServerPolite ==
    ASSUME TurnInv', Manners, NEW t \in Turns, Underway(t), ended \subseteq ended', ended' \subseteq ended \cup {t},
           UNCHANGED <<queue, at, timer, steering, live, promise, swallow, stopped, outcome>>,
           Traffic(t)'
    PROVE  Manners'
  <1>1. Underway(t)' /\ (live' # None => ~live'.endPending)
    BY DEF Underway, Manners, Wire
  <1>2. Wire'
    BY <1>1, WireIs
  <1>3. Marks'
    BY DEF Manners, Marks, Underway
  <1> QED BY <1>2, <1>3 DEF Manners, Verdicts, Timed

\* Whatever is on is on for the turn under way.
LEMMA SomebodyUnderway ==
    ASSUME TurnInv, Manners, ~Silence
    PROVE  \E t \in Turns : Underway(t) /\ Traffic(t)
  BY DEF Manners, Wire

\* The app server says one thing more.
LEMMA SaidMore ==
    ASSUME TurnInv, NEW t \in Turns, OnlyAbout(t),
           NEW m \in {"started", "completed", "startOk", "startNo", "interrupted"}, m # "startNo",
           ~Said(m), m = "started" => fromCodex = <<>>, m = "completed" => ~Said("interrupted"),
           fromCodex' = Append(fromCodex, Note(m, t))
    PROVE  /\ AllOf(fromCodex', t) /\ InOrder(fromCodex') /\ fromCodex' # <<>> /\ ~Said("startNo")'
           /\ \A k : Said(k)' <=> Said(k) \/ k = m
  <1>1. Note(m, t) \in Answers /\ Note(m, t).m = m /\ Note(m, t).t = t
    BY DEF Note, Answers
  <1>2. /\ \A k : Said(k)' <=> Said(k) \/ k = m
        /\ AllOf(fromCodex', t) /\ fromCodex' # <<>>
    BY <1>1, HoldsMore DEF TurnInv, ValuesOK, OnlyAbout, Said
  <1>3. InOrder(fromCodex')
    BY <1>1, JoinsInOrder DEF TurnInv, ValuesOK, OnlyAbout, Said
  <1> QED BY <1>2, <1>3 DEF OnlyAbout

\* The app server takes turn/start when nothing runs, or the interrupt of its turn.
LEMMA CodexTakesPolite == ASSUME TurnInv, TurnInv', Manners, CodexTakes PROVE Manners'
  <1>1. /\ toCodex # <<>> /\ toCodex' = Tail(toCodex)
        /\ UNCHANGED <<queue, at, timer, steering, live, promise, swallow, stopped, outcome>>
    BY DEF CodexTakes, registryVars, codexVars
  <1>2. PICK t \in Turns : Underway(t) /\ Traffic(t)
    BY <1>1, SomebodyUnderway DEF Silence
  <1>3. OnlyAbout(t) /\ toCodex \in Seq(Requests) /\ Len(toCodex) <= 1
    BY <1>2 DEF Traffic, OnlyAbout, TurnInv, ValuesOK
  <1>4. PICK r \in Requests : r = Head(toCodex)
    BY <1>1, <1>3
  <1>5. r.t = t /\ Sent(r.m) /\ toCodex' = <<>>
    BY <1>1, <1>3, <1>4, OneRequest DEF OnlyAbout, Sent
  <1>6. /\ AllOf(toCodex', t) /\ Len(toCodex') <= 1 /\ Active' = Active /\ Active \in {t, None}
        /\ \A m : ~Sent(m)'
    <2>1. AllOf(toCodex', t) /\ \A m : ~Sent(m)'
      BY <1>5 DEF AllOf, Sent, Holds
    <2>2. Len(toCodex') <= 1
      BY <1>5
    <2> QED BY <1>1, <1>3, <2>1, <2>2 DEF Active, OnlyAbout
  <1>7. t # None
    BY SessionAssumption
  <1>8. promise[t] = "pending"
    BY <1>1, <1>2 DEF Traffic, Over
  <1>9. CASE /\ r.m = "start" /\ running = None
             /\ running' = r.t /\ owed' = owed \cup {r.t}
             /\ fromCodex' = Append(fromCodex, Note("started", r.t)) /\ UNCHANGED ended
    <2>1. /\ running = None /\ owed = {} /\ fromCodex = <<>> /\ Active = None
          /\ t \notin ended \cup stopped /\ at[t] = "starting"
      BY <1>2, <1>5, <1>9 DEF Traffic, Unstarted
    <2>2. \A m : ~Said(m)
      BY <2>1, HoldsNothing DEF Said
    <2>3. /\ AllOf(fromCodex', t) /\ InOrder(fromCodex') /\ fromCodex' # <<>> /\ ~Said("startNo")'
          /\ \A k : Said(k)' <=> k = "started"
      BY <1>3, <1>5, <1>9, <2>1, <2>2, SaidMore
    <2>4. running' = t /\ owed' = {t} /\ Active' = None
      BY <1>5, <1>6, <1>9, <2>1
    <2>5. OnlyAbout(t)'
      BY <1>6, <2>3, <2>4 DEF OnlyAbout
    <2>6. Unstarted(t)' /\ RunsOrEnded(t)'
      BY <1>6, <1>7, <1>9, <2>1, <2>3, <2>4 DEF Unstarted, RunsOrEnded
    <2>7. Interrupted(t)' /\ AnsweredOnce(t)' /\ Over(t)'
      BY <1>1, <1>6, <1>8, <2>1, <2>3 DEF Interrupted, AnsweredOnce, Over
    <2> QED BY <1>1, <1>2, <1>9, <2>5, <2>6, <2>7, ServerPolite DEF Traffic
  <1>10. CASE r.m = "start" /\ running # None
    BY <1>2, <1>5, <1>10 DEF Traffic, Unstarted
  <1>11. CASE /\ r.m = "interrupt" /\ running = r.t
              /\ running' = None /\ ended' = ended \cup {r.t}
              /\ fromCodex' = fromCodex \o <<Note("completed", r.t), Note("interrupted", r.t)>>
              /\ UNCHANGED owed
    <2>1. /\ live.mute /\ t \in stopped /\ ~Said("interrupted") /\ ~Said("completed") /\ t \notin ended
      BY <1>2, <1>5, <1>7, <1>11 DEF Traffic, Interrupted, RunsOrEnded
    <2>2. PICK q : q = Append(fromCodex, Note("completed", t))
      OBVIOUS
    <2>3. /\ Note("completed", t) \in Answers /\ Note("completed", t).m = "completed" /\ Note("completed", t).t = t
          /\ Note("interrupted", t) \in Answers /\ Note("interrupted", t).m = "interrupted"
          /\ Note("interrupted", t).t = t /\ fromCodex \in Seq(Answers)
      BY DEF Note, Answers, TurnInv, ValuesOK
    <2>4. q \in Seq(Answers) /\ fromCodex' = Append(q, Note("interrupted", t))
      BY <1>5, <1>11, <2>2, <2>3
    <2>5. /\ \A m : Holds(q, m) <=> Said(m) \/ m = "completed"
          /\ AllOf(q, t) /\ InOrder(q)
      BY <1>3, <2>1, <2>2, <2>3, HoldsMore, JoinsInOrder DEF OnlyAbout, Said
    <2>6. /\ \A m : Said(m)' <=> Said(m) \/ m = "completed" \/ m = "interrupted"
          /\ AllOf(fromCodex', t) /\ InOrder(fromCodex') /\ fromCodex' # <<>>
      BY <2>1, <2>3, <2>4, <2>5, HoldsMore, JoinsInOrder DEF Said
    <2>7. OnlyAbout(t)'
      BY <1>3, <1>6, <1>11, <2>6 DEF OnlyAbout
    <2>8. Traffic(t)'
      BY <1>1, <1>2, <1>6, <1>8, <1>11, <1>5, <2>1, <2>6, <2>7
      DEF Traffic, Unstarted, RunsOrEnded, Interrupted, AnsweredOnce, Over
    <2> QED BY <1>1, <1>2, <1>5, <1>11, <2>8, ServerPolite
  <1>12. CASE /\ r.m = "interrupt" /\ running # r.t
              /\ fromCodex' = Append(fromCodex, Note("interrupted", r.t)) /\ UNCHANGED <<running, owed, ended>>
    <2>1. /\ live.mute /\ t \in stopped /\ ~Said("interrupted")
      BY <1>2, <1>5, <1>12 DEF Traffic, Interrupted
    <2>2. running = None /\ t \in ended
      BY <1>2, <1>3, <1>5, <1>12 DEF OnlyAbout, Traffic, RunsOrEnded
    <2>3. /\ AllOf(fromCodex', t) /\ InOrder(fromCodex') /\ fromCodex' # <<>> /\ ~Said("startNo")'
          /\ \A k : Said(k)' <=> Said(k) \/ k = "interrupted"
      BY <1>3, <1>5, <1>12, <2>1, SaidMore
    <2>4. OnlyAbout(t)'
      BY <1>3, <1>6, <1>12, <2>3 DEF OnlyAbout
    <2>5. Traffic(t)'
      BY <1>1, <1>2, <1>6, <1>8, <1>12, <2>1, <2>2, <2>3, <2>4
      DEF Traffic, Unstarted, RunsOrEnded, Interrupted, AnsweredOnce, Over
    <2> QED BY <1>1, <1>2, <1>12, <2>5, ServerPolite
  <1> QED BY <1>4, <1>9, <1>10, <1>11, <1>12 DEF CodexTakes

\* The answer to turn/start goes on its way, once.
LEMMA CodexAnswersPolite == ASSUME TurnInv, TurnInv', Manners, CodexAnswers PROVE Manners'
  <1>1. PICK u \in owed : owed' = owed \ {u} /\ fromCodex' = Append(fromCodex, Note("startOk", u))
    BY DEF CodexAnswers
  <1>2. UNCHANGED <<queue, at, timer, steering, live, promise, swallow, stopped, outcome, toCodex, running, ended>>
    BY DEF CodexAnswers, registryVars, codexVars, sessionPast
  <1>3. PICK t \in Turns : Underway(t) /\ Traffic(t)
    BY <1>1, SomebodyUnderway DEF Silence
  <1>4. OnlyAbout(t) /\ u = t /\ owed' = {} /\ owed # {}
    BY <1>1, <1>3 DEF Traffic, OnlyAbout
  <1>5. ~Said("startOk") /\ ~Sent("start")
    BY <1>3, <1>4 DEF Traffic, AnsweredOnce, Unstarted
  <1>6. /\ AllOf(fromCodex', t) /\ InOrder(fromCodex') /\ fromCodex' # <<>> /\ ~Said("startNo")'
        /\ \A k : Said(k)' <=> Said(k) \/ k = "startOk"
    BY <1>1, <1>4, <1>5, SaidMore
  <1>7. Active' = Active /\ \A m : Sent(m)' <=> Sent(m)
    BY <1>2 DEF Active, Sent
  <1>8. OnlyAbout(t)'
    BY <1>2, <1>4, <1>6, <1>7 DEF OnlyAbout
  <1>9. at[t] # "waiting"
    BY <1>3, <1>4 DEF Traffic, AnsweredOnce
  <1>10. Unstarted(t)' /\ RunsOrEnded(t)'
    BY <1>2, <1>3, <1>4, <1>5, <1>6, <1>7 DEF Traffic, Unstarted, RunsOrEnded
  <1>11. Interrupted(t)' /\ AnsweredOnce(t)' /\ Over(t)'
    BY <1>2, <1>3, <1>4, <1>6, <1>7, <1>9 DEF Traffic, Interrupted, AnsweredOnce, Over
  <1> QED BY <1>2, <1>3, <1>8, <1>10, <1>11, ServerPolite DEF Traffic

\* The running turn ends and is reported, once.
LEMMA CodexEndsPolite == ASSUME TurnInv, TurnInv', Manners, CodexEnds PROVE Manners'
  <1>1. /\ running # None /\ running' = None /\ ended' = ended \cup {running}
        /\ fromCodex' = Append(fromCodex, Note("completed", running))
        /\ UNCHANGED <<queue, at, timer, steering, live, promise, swallow, stopped, outcome, toCodex, owed>>
    BY DEF CodexEnds, registryVars, codexVars
  <1>2. PICK t \in Turns : Underway(t) /\ Traffic(t)
    BY <1>1, SomebodyUnderway DEF Silence
  <1>3. OnlyAbout(t) /\ running = t
    BY <1>1, <1>2 DEF Traffic, OnlyAbout
  <1>4. t \notin ended /\ ~Said("completed") /\ ~Said("interrupted") /\ ~Sent("start")
    BY <1>1, <1>2 DEF Traffic, RunsOrEnded, Unstarted
  <1>5. /\ AllOf(fromCodex', t) /\ InOrder(fromCodex') /\ fromCodex' # <<>> /\ ~Said("startNo")'
        /\ \A k : Said(k)' <=> Said(k) \/ k = "completed"
    BY <1>1, <1>3, <1>4, SaidMore
  <1>6. Active' = Active /\ \A m : Sent(m)' <=> Sent(m)
    BY <1>1 DEF Active, Sent
  <1>7. OnlyAbout(t)'
    BY <1>1, <1>3, <1>5, <1>6 DEF OnlyAbout
  <1>8. promise[t] = "pending"
    BY <1>1, <1>2 DEF Traffic, Over
  <1>9. Unstarted(t)' /\ RunsOrEnded(t)'
    BY <1>1, <1>3, <1>4, <1>5, <1>6 DEF Unstarted, RunsOrEnded
  <1>10. Interrupted(t)' /\ AnsweredOnce(t)' /\ Over(t)'
    BY <1>1, <1>2, <1>5, <1>6, <1>8 DEF Traffic, Interrupted, AnsweredOnce, Over
  <1> QED BY <1>1, <1>2, <1>3, <1>7, <1>9, <1>10, ServerPolite DEF Traffic

\* Nothing is on its way to the app server that is neither.
LEMMA NothingSent ==
    ASSUME TurnInv, ~Sent("start"), ~Sent("interrupt")
    PROVE  toCodex = <<>>
  <1> SUFFICES ASSUME toCodex # <<>> PROVE FALSE
    OBVIOUS
  <1>1. 1 \in DOMAIN toCodex /\ toCodex[1] \in Requests
    BY DEF TurnInv, ValuesOK
  <1> QED BY <1>1 DEF Sent, Holds, Requests

\* The turn under way is told of its end: the adapter's promise is resolved,
\* and nothing of the turn is left but, perhaps, the answer to turn/start.
LEMMA EndHeard ==
    ASSUME TurnInv, TurnInv', Manners, NEW t \in Turns, Underway(t), Traffic(t),
           promise[t] = "pending", live # None, Finish(live),
           toCodex = <<>>, running = None, t \in ended,
           AllOf(fromCodex', t), InOrder(fromCodex'), ~Said("startNo")', ~Said("started")',
           ~Said("completed")', ~Said("interrupted")', Said("startOk")' => Said("startOk"),
           UNCHANGED <<at, toCodex, running, owed, ended, stopped, outcome>>
    PROVE  Wire' /\ Verdicts' /\ \A u \in Turns : promise'[u] # "pending"
  <1>1. live.done = t /\ live \in Live
    BY DEF TurnInv, PromiseOK, ValuesOK
  <1>2. /\ live' # None /\ live'.active = None /\ live'.endPending = (live.done = None)
        /\ \A u \in Turns : promise'[u] = IF live.done = u THEN "resolved" ELSE promise[u]
    BY <1>1, FinishEffect DEF TurnInv
  <1>3. ~live'.endPending /\ Active' = None /\ promise'[t] = "resolved"
    BY <1>1, <1>2, SessionAssumption DEF Active
  <1>4. \A m : ~Sent(m)'
    BY HoldsNothing DEF Sent
  <1>5. OnlyAbout(t)'
    BY <1>3 DEF OnlyAbout, Traffic
  <1>6. Unstarted(t)' /\ RunsOrEnded(t)' /\ Interrupted(t)' /\ Over(t)'
    BY <1>3, <1>4 DEF Unstarted, RunsOrEnded, Interrupted, Over
  <1>7. AnsweredOnce(t)'
    BY DEF Traffic, AnsweredOnce
  <1>8. Underway(t)'
    BY DEF Underway
  <1>9. Wire'
    BY <1>3, <1>5, <1>6, <1>7, <1>8, WireIs DEF Traffic
  <1>10. Verdicts'
    BY <1>1, <1>2 DEF Manners, Verdicts
  <1>11. \A u \in Turns : promise'[u] # "pending"
    BY <1>1, <1>2 DEF TurnInv, PromiseOK
  <1> QED BY <1>9, <1>10, <1>11

\* A note of the turn under way is heard: it names it, answers it or ends it.
LEMMA HearPolite == ASSUME TurnInv, TurnInv', Manners, Hear PROVE Manners'
  <1>1. /\ fromCodex # <<>> /\ fromCodex' = Tail(fromCodex)
        /\ UNCHANGED <<queue, steering, swallow, toCodex, running, owed, hasty, stopped, ended, faultBounds>>
    BY DEF Hear
  <1>2. PICK t \in Turns : Underway(t) /\ Traffic(t)
    BY <1>1, SomebodyUnderway DEF Silence
  <1>3. PICK n \in Answers : n = Head(fromCodex)
    BY <1>1 DEF TurnInv, ValuesOK
  <1>4. /\ n.t = t /\ Said(n.m)
        /\ AllOf(fromCodex', t) /\ InOrder(fromCodex') /\ ~Said("started")'
        /\ \A k : Said(k)' => Said(k) /\ k # n.m
        /\ n.m = "interrupted" => ~Said("completed")'
    <2>1. fromCodex \in Seq(Answers) /\ InOrder(fromCodex) /\ AllOf(fromCodex, t)
      BY <1>2 DEF Traffic, OnlyAbout, TurnInv, ValuesOK
    <2> QED BY <1>1, <1>3, <2>1, HoldsRest DEF Said
  <1>5. /\ live # None /\ live \in Live /\ live.mute = live.cancelled /\ ~live.endPending /\ ~swallow
        /\ \A u \in Turns : at[u] # "opening"
    BY <1>1 DEF TurnInv, ConnectionOK, ValuesOK, Manners, Wire, Marks
  <1>6. queue # <<>> /\ \A u \in Turns \ {t} : at[u] \in {"new", "done"}
    BY <1>2, Alone DEF Manners, Underway
  <1>7. /\ ~Sent("start") /\ (\A m : Sent(m)' <=> Sent(m)) /\ ~Said("startNo") /\ ~Said("startNo")'
        /\ running # None \/ t \in ended
    BY <1>1, <1>2, <1>4 DEF Traffic, Unstarted, OnlyAbout, RunsOrEnded, Sent
  <1>8. CASE /\ n.m \in {"started", "completed"} /\ UNCHANGED <<promise, at, outcome, timer>>
             /\ live' \in Live /\ live'.active \in {live.active, t}
             /\ live'.mute = live.mute /\ live'.endPending = live.endPending
    <2>1. promise[t] = "pending"
      BY <1>2, <1>4, <1>8 DEF Traffic, Over
    <2>2. live' # None /\ Active' \in {t, None} /\ ~live'.endPending
      BY <1>2, <1>5, <1>8, LiveAssumption DEF Active, Traffic, OnlyAbout
    <2>3. OnlyAbout(t)'
      BY <1>1, <1>2, <1>4, <1>7, <2>2 DEF Traffic, OnlyAbout
    <2>4. Unstarted(t)' /\ RunsOrEnded(t)'
      BY <1>1, <1>2, <1>4, <1>7 DEF Traffic, Unstarted, RunsOrEnded
    <2>5. Interrupted(t)' /\ AnsweredOnce(t)' /\ Over(t)'
      BY <1>1, <1>2, <1>4, <1>7, <1>8, <2>1 DEF Traffic, Interrupted, AnsweredOnce, Over
    <2>6. Wire'
      BY <1>2, <1>8, <2>2, <2>3, <2>4, <2>5, WireIs DEF Traffic, Underway
    <2>7. Marks'
      BY <1>1, <1>5, <1>8 DEF Manners, Marks
    <2> QED BY <1>1, <1>6, <1>8, <2>6, <2>7 DEF Manners, Verdicts, Timed
  <1>9. CASE n.m = "completed" /\ ~Silent(live) /\ Finish(live) /\ UNCHANGED <<at, outcome, timer>>
    <2>1. /\ promise[t] = "pending" /\ t \in ended /\ running = None
          /\ ~Sent("interrupt") /\ ~Said("interrupted")
      BY <1>2, <1>4, <1>9 DEF Traffic, Over, RunsOrEnded, Interrupted, Silent
    <2>2. toCodex = <<>>
      BY <1>7, <2>1, NothingSent
    <2>3. ~Said("completed")' /\ ~Said("interrupted")'
      BY <1>4, <1>9, <2>1
    <2>4. Wire' /\ Verdicts' /\ \A u \in Turns : promise'[u] # "pending"
      BY <1>1, <1>2, <1>4, <1>5, <1>7, <1>9, <2>1, <2>2, <2>3, EndHeard
    <2>5. Marks'
      BY <1>1, <1>5, <1>9 DEF Manners, Marks
    <2> QED BY <1>1, <1>6, <2>4, <2>5 DEF Manners, Timed
  <1>10. CASE n.m = "interrupted" /\ Finish(live) /\ timer' = TRUE /\ UNCHANGED <<at, outcome>>
    <2>1. /\ promise[t] = "pending" /\ t \in ended /\ running = None /\ ~Sent("interrupt")
      BY <1>2, <1>4, <1>10 DEF Traffic, Over, RunsOrEnded, Interrupted
    <2>2. toCodex = <<>>
      BY <1>7, <2>1, NothingSent
    <2>3. ~Said("completed")' /\ ~Said("interrupted")'
      BY <1>4, <1>10
    <2>4. Wire' /\ Verdicts' /\ \A u \in Turns : promise'[u] # "pending"
      BY <1>1, <1>2, <1>4, <1>5, <1>7, <1>10, <2>1, <2>2, <2>3, EndHeard
    <2>5. Marks'
      BY <1>1, <1>5, <1>10 DEF Manners, Marks
    <2> QED BY <1>1, <1>6, <2>4, <2>5 DEF Manners, Timed
  <1>11. CASE /\ n.m = "startOk" /\ InFlight(t) /\ at' = [at EXCEPT ![t] = "waiting"]
              /\ live' = IF live.done # None /\ live.active = None THEN [live EXCEPT !.active = t] ELSE live
              /\ UNCHANGED <<promise, outcome, timer>>
    <2>1. at'[t] = "waiting" /\ \A u \in Turns \ {t} : at'[u] = at[u]
      BY <1>11 DEF TurnInv, QueueOK
    <2>2. /\ live' \in Live /\ live'.mute = live.mute /\ live'.endPending = live.endPending
          /\ live'.active \in {live.active, t} /\ (promise[t] # "pending" => live' = live)
      <3>1. promise[t] # "pending" => live.done = None
        BY <1>2, <1>5, <1>6 DEF TurnInv, PromiseOK, Underway, ValuesOK, Live
      <3> QED BY <1>5, <1>11, <3>1 DEF Live
    <2>3. live' # None /\ Active' \in {t, None} /\ ~live'.endPending /\ (promise[t] # "pending" => Active' = Active)
      BY <1>2, <1>5, <2>2, LiveAssumption DEF Active, Traffic, OnlyAbout
    <2>4. owed = {} /\ ~Said("startOk")'
      BY <1>2, <1>4, <1>11 DEF Traffic, AnsweredOnce
    <2>5. OnlyAbout(t)'
      BY <1>1, <1>2, <1>4, <1>7, <2>3 DEF Traffic, OnlyAbout
    <2>6. Unstarted(t)' /\ RunsOrEnded(t)'
      BY <1>1, <1>2, <1>4, <1>7 DEF Traffic, Unstarted, RunsOrEnded
    <2>7. Interrupted(t)' /\ AnsweredOnce(t)'
      BY <1>1, <1>2, <1>4, <1>7, <1>11, <2>2, <2>4 DEF Traffic, Interrupted, AnsweredOnce
    <2>8. Over(t)'
      BY <1>1, <1>2, <1>4, <1>11, <2>3 DEF Traffic, Over
    <2>9. Wire'
      BY <2>1, <2>3, <2>5, <2>6, <2>7, <2>8, WireIs DEF Traffic, Underway
    <2>10. Marks'
      BY <1>1, <1>5, <1>11, <2>1 DEF Manners, Marks
    <2> QED BY <1>1, <1>6, <1>11, <2>9, <2>10 DEF Manners, Verdicts, Timed
  <1>12. n.m # "startNo" /\ (n.m = "startOk" => InFlight(t))
    BY <1>2, <1>4, <1>7 DEF Traffic, AnsweredOnce, Underway, InFlight
  <1>13. CASE n.m = "started"
    <2>1. /\ live' = IF Silent(live) THEN live ELSE [live EXCEPT !.active = n.t]
          /\ UNCHANGED <<promise, at, outcome, timer>>
      BY <1>3, <1>13 DEF Hear
    <2>2. /\ live' \in Live /\ live'.active \in {live.active, t}
          /\ live'.mute = live.mute /\ live'.endPending = live.endPending
      BY <1>4, <1>5, <2>1 DEF Live
    <2> QED BY <1>8, <1>13, <2>1, <2>2
  <1>14. CASE n.m = "completed"
    <2>1. /\ IF Silent(live) THEN UNCHANGED <<live, promise>> ELSE Finish(live)
          /\ UNCHANGED <<at, outcome, timer>>
      BY <1>3, <1>14 DEF Hear
    <2> QED BY <1>5, <1>8, <1>9, <1>14, <2>1
  <1>15. CASE n.m = "interrupted"
    <2>1. Finish(live) /\ timer' = TRUE /\ UNCHANGED <<at, outcome>>
      BY <1>3, <1>15 DEF Hear
    <2> QED BY <1>10, <1>15, <2>1
  <1>16. CASE n.m = "startOk"
    <2> PICK l : l = IF live.done # None /\ live.active = None THEN [live EXCEPT !.active = t] ELSE live
      OBVIOUS
    <2>1. /\ at' = [at EXCEPT ![t] = "waiting"] /\ UNCHANGED <<outcome, timer>>
          /\ IF live.endPending /\ live.done # None THEN Finish(l) ELSE live' = l /\ UNCHANGED promise
      BY <1>3, <1>4, <1>12, <1>16 DEF Hear
    <2>2. live' = l /\ UNCHANGED promise
      BY <1>5, <2>1
    <2> QED BY <1>11, <1>12, <1>16, <2>1, <2>2
  <1> QED BY <1>12, <1>13, <1>14, <1>15, <1>16 DEF Answers

\* For a user who waits, all that is on is about the turn under way, in every state.
LEMMA PoliteHolds == SessionSpec => []PoliteInv
  <1>1. SessionInit => PoliteInv
    <2> SUFFICES ASSUME SessionInit PROVE Manners
      BY DEF PoliteInv
    <2>1. Marks
      BY DEF SessionInit, Marks
    <2>2. Wire
      BY DEF SessionInit, Wire, Silence, Underway, Active
    <2> QED BY <2>1, <2>2 DEF SessionInit, Manners, Verdicts, Timed
  <1>2. TurnInv /\ TurnInv' /\ PoliteInv /\ [SessionNext]_sessionVars => PoliteInv'
    <2> SUFFICES ASSUME TurnInv, TurnInv', PoliteInv, [SessionNext]_sessionVars
                 PROVE  PoliteInv'
      OBVIOUS
    <2>1. UNCHANGED hasty
      <3>1. \A t \in Turns : Submit(t) \/ TurnNext(t) \/ AuthorizeFails(t) \/ Steer(t) => UNCHANGED hasty
        BY DEF Submit, TurnNext, BeginTurn, Opened, OpenFails, Settle, FinishTurn, AuthorizeFails, Steer,
               sessionPast
      <3>2. \A t \in Turns : Stop(t) \/ StartTimesOut(t) => UNCHANGED hasty
        BY DEF Stop, StartTimesOut
      <3>3. Park \/ Exit \/ CodexNext => UNCHANGED hasty
        BY DEF Park, Exit, CodexNext, CodexTakes, CodexAnswers, CodexEnds, Hear, sessionPast
      <3> QED BY <3>1, <3>2, <3>3 DEF SessionNext, sessionVars, sessionPast
    <2> SUFFICES ASSUME ~hasty PROVE Manners'
      BY <2>1 DEF PoliteInv
    <2>2. Manners
      BY DEF PoliteInv
    <2>3. ASSUME NEW t \in Turns, Submit(t) \/ TurnNext(t) \/ Steer(t) \/ Stop(t)
          PROVE  Manners'
      BY <2>2, <2>3, SubmitPolite, BeginTurnPolite, OpenedPolite, OpenFailsPolite, SettlePolite,
         FinishTurnPolite, SteerPolite, StopPolite DEF TurnNext
    <2>4. \A t \in Turns : ~AuthorizeFails(t) /\ ~StartTimesOut(t)
      BY DEF AuthorizeFails, StartTimesOut
    <2>5. CASE Park \/ Exit \/ CodexNext
      BY <2>2, <2>5, ParkPolite, ExitPolite, CodexTakesPolite, CodexAnswersPolite, CodexEndsPolite, HearPolite
      DEF CodexNext
    <2>6. CASE UNCHANGED sessionVars
      <3>1. /\ UNCHANGED <<queue, at, timer, steering, live, promise, swallow, serverVars>>
            /\ UNCHANGED <<stopped, outcome, ended>>
        BY <2>6 DEF sessionVars, registryVars, codexVars, sessionPast
      <3>2. Wire'
        BY <2>2, <3>1, WireStays DEF Manners, Underway
      <3>3. Marks'
        BY <2>2, <3>1 DEF Manners, Marks
      <3> QED BY <2>2, <3>1, <3>2, <3>3 DEF Manners, Verdicts, Timed
    <2> QED BY <2>3, <2>4, <2>5, <2>6 DEF SessionNext
  <1> QED BY <1>1, <1>2, TurnInvHolds, PTL DEF SessionSpec

\* The queue, the idle timer and the connection agree about which turn is on: the
\* types of the variables hold and, for a user who waits, the idle timer never runs
\* beside a turn in progress and always runs when the connection is left idle, and a
\* send returns as ended only when its own turn ended or was stopped
\* (registry.ts:110-237, codex.ts:673-732, 791-794).
THEOREM SessionIsConsistent == SessionSpec => []SessionConsistent
  <1>1. TurnInv => SessionTypeOK
    BY DEF TurnInv, ValuesOK, QueueOK, InQueue, Stages, SessionTypeOK
  <1>2. PoliteInv => IdleIsTimed /\ TurnEndsWithItself
    BY DEF PoliteInv, Manners, Timed, Verdicts, IdleIsTimed, TurnEndsWithItself
  <1>3. TurnInv /\ PoliteInv => SessionConsistent
    BY <1>1, <1>2 DEF SessionConsistent
  <1> QED BY <1>3, TurnInvHolds, PoliteHolds, PTL

\* A stopped turn is over: for a user who waits, it shows nothing from then on, and
\* once its send has returned the provider neither runs it nor is about to
\* (codex.ts:150-151, 343-365).
THEOREM StopsStop == SessionSpec => []StopStops
  <1>1. TurnInv /\ PoliteInv => StopStops
    <2> SUFFICES ASSUME TurnInv, Manners, NEW t \in stopped
                 PROVE  /\ at[t] = "done" => ~Lingers(t)
                        /\ at[t] \in {"starting", "waiting"} /\ promise[t] = "pending" => live.mute
      BY DEF PoliteInv, StopStops
    <2>1. t \in Turns /\ t # None
      BY SessionAssumption DEF TurnInv, ValuesOK
    <2>2. ASSUME at[t] = "done", Lingers(t) PROVE FALSE
      <3>1. ~Silence
        BY <2>1, <2>2 DEF Lingers, Silence
      <3>2. PICK u \in Turns : Underway(u) /\ Traffic(u)
        BY <3>1, SomebodyUnderway
      <3>3. u # t
        BY <2>2, <3>2 DEF Underway
      <3>4. running # t
        BY <2>1, <3>2, <3>3 DEF Traffic, OnlyAbout
      <3>5. \A k \in 1..Len(toCodex) : toCodex[k] # Note("start", t)
        BY <3>2, <3>3 DEF Traffic, OnlyAbout, AllOf, Note, TurnInv, ValuesOK
      <3> QED BY <2>2, <3>4, <3>5 DEF Lingers
    <2>3. at[t] \in {"starting", "waiting"} /\ promise[t] = "pending" => live.mute
      BY <2>1 DEF Manners, Wire, Underway, Traffic, Interrupted
    <2> QED BY <2>2, <2>3
  <1> QED BY <1>1, TurnInvHolds, PoliteHolds, PTL
=============================================================================

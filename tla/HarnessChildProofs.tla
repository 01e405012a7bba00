------------------------- MODULE HarnessChildProofs -------------------------
(***************************************************************************)
(* No process of a provider is left running behind the registry's back, a   *)
(* spawn that was overtaken never becomes a child, and a window is told of  *)
(* the exit of the process it watches and of no other.                      *)
(*                                                                          *)
(* What the registry needs (HostInv) and what a window needs (WindowInv)    *)
(* are two inductive invariants, the second resting on the first's types.   *)
(* An action of one side leaves what the other's invariant reads alone, or  *)
(* changes only that of a call which it does not look at: QuietForHost and  *)
(* QuietForWindows say so once for all of them.                             *)
(***************************************************************************)
EXTENDS HarnessChild, FiniteSetTheorems, TLAPS

\* What the type invariant says beyond the bound of the parked exits, and of
\* the history variables the properties read.
Typed ==
    /\ children \in [ChildIds -> Spawns \cup {None}] /\ epochs \in [ChildIds -> Nat] /\ killAllGen \in Nat
    /\ spawn \in [Spawns -> Call \cup {None}]
    /\ process \in [Spawns -> {"none", "alive", "signalled", "dead", "reaped"}]
    /\ kills \in [ChildIds -> Nat]
    /\ watch \in [Windows -> [ChildIds -> Spawns \cup {None}]]
    /\ livePid \in [Windows -> [ChildIds -> Spawns \cup {None}]]
    /\ parked \in [Windows -> [ChildIds -> SUBSET Spawns]]
    /\ exits \in [Windows -> SUBSET Spawns]
    /\ overtaken \subseteq Spawns /\ announced \subseteq Spawns /\ told \subseteq Spawns \X Spawns

\* The exits parked for a spawn are finitely many, and no more than the bound.
ParkedFits ==
    \A w \in Windows, i \in ChildIds :
      IsFiniteSet(parked[w][i]) /\ Cardinality(parked[w][i]) <= MaxParked

\* The child of an id is a spawn of that id which was installed.
ChildIsInstalled ==
    \A i \in ChildIds : children[i] # None => At(children[i], {"installed"}) /\ Id(children[i]) = i

\* A process that was not told to end waits to be installed, or is a child.
AliveIsKnown ==
    \A x \in Spawns :
      process[x] = "alive" => At(x, {"forked"}) \/ (At(x, {"installed"}) /\ children[Id(x)] = x)

\* The stamp of a spawn is never ahead of the counters it is compared with.
StampsBehind ==
    \A x \in Spawns :
      At(x, {"begun", "forked"}) => spawn[x].epoch <= epochs[Id(x)] /\ spawn[x].gen <= killAllGen

\* A spawn that was overtaken has begun and carries a stamp that is behind.
OvertakenIsStale ==
    \A x \in overtaken :
      /\ At(x, {"begun", "forked", "cancelled", "failed"})
      /\ At(x, {"begun", "forked"}) => spawn[x].epoch < epochs[Id(x)] \/ spawn[x].gen < killAllGen

HostInv == ChildIsInstalled /\ AliveIsKnown /\ StampsBehind /\ OvertakenIsStale

\* Only what was a child is announced.
AnnouncedWasChild ==
    /\ \A x \in announced : At(x, {"installed"})
    /\ \A w \in Windows : exits[w] \subseteq announced

\* While a spawn has not answered, its window watches it or nobody.
AwaitedIsWatched ==
    \A x \in Spawns :
      spawn[x] # None /\ ~spawn[x].answered => watch[spawn[x].win][Id(x)] \in {x, None}

\* The process a window believes to be current is the one it watches, or a late
\* one, if it watches nobody.
LiveIsWatched ==
    \A w \in Windows, i \in ChildIds :
      livePid[w][i] # None => watch[w][i] \in {livePid[w][i], None}

WindowInv == ParkedFits /\ AnnouncedWasChild /\ AwaitedIsWatched /\ LiveIsWatched /\ ExitIsOwn

\* What is inductive.
ChildInv == Typed /\ HostInv /\ WindowInv

-----------------------------------------------------------------------------
(* Types *)

\* Changing the stage of a call, or its answer, gives a call.
LEMMA CallMoves ==
    ASSUME NEW c \in Call, NEW at \in {"called", "begun", "forked", "installed", "cancelled", "failed"}
    PROVE  LET q == [c EXCEPT !.at = at] IN
           /\ q \in Call /\ q.at = at
           /\ q.id = c.id /\ q.win = c.win /\ q.epoch = c.epoch /\ q.gen = c.gen /\ q.answered = c.answered
  BY DEF Call

LEMMA CallAnswered ==
    ASSUME NEW c \in Call
    PROVE  LET q == [c EXCEPT !.answered = TRUE] IN
           /\ q \in Call /\ q.answered
           /\ q.id = c.id /\ q.win = c.win /\ q.epoch = c.epoch /\ q.gen = c.gen /\ q.at = c.at
  BY DEF Call

\* A spawn in progress is a call.
LEMMA SpawnIsCall ==
    ASSUME Typed, NEW x \in Spawns, spawn[x] # None
    PROVE  /\ spawn[x] \in Call /\ Id(x) \in ChildIds /\ spawn[x].win \in Windows
           /\ spawn[x].epoch \in Nat /\ spawn[x].gen \in Nat
  BY DEF Typed, Call, Id

\* Signalling processes leaves every process one.
LEMMA SignalTyped ==
    ASSUME Typed, NEW some
    PROVE  /\ Signal(some) \in [Spawns -> {"none", "alive", "signalled", "dead", "reaped"}]
           /\ \A x \in Spawns : Signal(some)[x] = "alive" <=> process[x] = "alive" /\ x \notin some
  BY DEF Typed, Signal

\* A call that moves on is the only one that changes, and keeps whose it is.
LEMMA MovedCall ==
    ASSUME Typed, NEW x \in Spawns, spawn[x] # None,
           NEW at \in {"called", "begun", "forked", "installed", "cancelled", "failed"},
           spawn' = [spawn EXCEPT ![x].at = at]
    PROVE  /\ spawn' \in [Spawns -> Call \cup {None}]
           /\ \A y \in Spawns : y # x => spawn'[y] = spawn[y]
           /\ spawn'[x] # None /\ spawn'[x].at = at
           /\ spawn'[x].id = spawn[x].id /\ spawn'[x].win = spawn[x].win
           /\ spawn'[x].epoch = spawn[x].epoch /\ spawn'[x].gen = spawn[x].gen
           /\ spawn'[x].answered = spawn[x].answered
  <1> DEFINE q == [spawn[x] EXCEPT !.at = at]
  <1>1. spawn' = [spawn EXCEPT ![x] = q]
    OBVIOUS
  <1>2. /\ q \in Call /\ q.at = at
        /\ q.id = spawn[x].id /\ q.win = spawn[x].win /\ q.epoch = spawn[x].epoch /\ q.gen = spawn[x].gen
        /\ q.answered = spawn[x].answered
    BY SpawnIsCall, CallMoves
  <1> HIDE DEF q
  <1> QED BY <1>1, <1>2, CallAssumption DEF Typed

\* So does a call whose caller has its answer.
LEMMA AnsweredCall ==
    ASSUME Typed, NEW x \in Spawns, spawn[x] # None, spawn' = [spawn EXCEPT ![x].answered = TRUE]
    PROVE  /\ spawn' \in [Spawns -> Call \cup {None}]
           /\ \A y \in Spawns : y # x => spawn'[y] = spawn[y]
           /\ spawn'[x] # None /\ spawn'[x].answered
           /\ spawn'[x].id = spawn[x].id /\ spawn'[x].win = spawn[x].win
           /\ spawn'[x].epoch = spawn[x].epoch /\ spawn'[x].gen = spawn[x].gen /\ spawn'[x].at = spawn[x].at
  <1> DEFINE q == [spawn[x] EXCEPT !.answered = TRUE]
  <1>1. spawn' = [spawn EXCEPT ![x] = q]
    OBVIOUS
  <1>2. /\ q \in Call /\ q.answered
        /\ q.id = spawn[x].id /\ q.win = spawn[x].win /\ q.epoch = spawn[x].epoch /\ q.gen = spawn[x].gen
        /\ q.at = spawn[x].at
    BY SpawnIsCall, CallAnswered
  <1> HIDE DEF q
  <1> QED BY <1>1, <1>2, CallAssumption DEF Typed

-----------------------------------------------------------------------------
(* What one side does not look at *)

\* The registry does not look at who has been answered, nor at a new call.
CallsAsHostSees ==
    \A x \in Spawns :
      /\ spawn[x] # None => /\ spawn'[x] # None
                            /\ spawn'[x].id = spawn[x].id /\ spawn'[x].at = spawn[x].at
                            /\ spawn'[x].epoch = spawn[x].epoch /\ spawn'[x].gen = spawn[x].gen
      /\ spawn[x] = None /\ spawn'[x] # None => spawn'[x].at = "called"

LEMMA QuietForHost ==
    ASSUME Typed, HostInv, CallsAsHostSees, UNCHANGED <<hostVars, process, overtaken>>
    PROVE  HostInv'
  <1> USE DEF hostVars
  <1>1. ASSUME NEW x \in Spawns, NEW places \in SUBSET {"begun", "forked", "installed", "cancelled", "failed"}
        PROVE  /\ At(x, places)' <=> At(x, places)
               /\ At(x, places) => Id(x)' = Id(x) /\ spawn'[x].epoch = spawn[x].epoch /\ spawn'[x].gen = spawn[x].gen
    BY DEF CallsAsHostSees, At, Id
  <1>2. ChildIsInstalled'
    BY <1>1 DEF HostInv, ChildIsInstalled, Typed
  <1>3. AliveIsKnown'
    BY <1>1 DEF HostInv, AliveIsKnown
  <1>4. StampsBehind'
    BY <1>1 DEF HostInv, StampsBehind
  <1>5. OvertakenIsStale'
    BY <1>1 DEF HostInv, OvertakenIsStale, Typed
  <1> QED BY <1>2, <1>3, <1>4, <1>5 DEF HostInv

\* A window does not look at how far a call has come, short of its answer.
CallsAsWindowsSee ==
    \A x \in Spawns :
      /\ spawn'[x] = None <=> spawn[x] = None
      /\ spawn[x] # None => /\ spawn'[x].id = spawn[x].id /\ spawn'[x].win = spawn[x].win
                            /\ spawn'[x].answered = spawn[x].answered
                            /\ spawn[x].at = "installed" => spawn'[x].at = "installed"

LEMMA QuietForWindows ==
    ASSUME Typed, WindowInv, CallsAsWindowsSee, UNCHANGED <<windowVars, exits, announced, told>>
    PROVE  WindowInv'
  <1> USE DEF windowVars
  <1>1. ParkedFits' /\ LiveIsWatched' /\ ExitIsOwn'
    BY DEF WindowInv, ParkedFits, LiveIsWatched, ExitIsOwn
  <1>2. AnnouncedWasChild'
    BY DEF WindowInv, AnnouncedWasChild, CallsAsWindowsSee, At, Typed
  <1>3. AwaitedIsWatched'
    BY DEF WindowInv, AwaitedIsWatched, CallsAsWindowsSee, Id
  <1> QED BY <1>1, <1>2, <1>3 DEF WindowInv

-----------------------------------------------------------------------------
(* The registry *)

\* A new stamp overtakes what is pending under the id, and ends its child.
LEMMA BeginKeeps ==
    ASSUME Typed, HostInv, NEW x \in Spawns, Begin(x)
    PROVE  Typed' /\ HostInv' /\ CallsAsWindowsSee
  <1> DEFINE i == Id(x)
             q == [spawn[x] EXCEPT !.at = "begun", !.epoch = epochs[i] + 1, !.gen = killAllGen]
  <1>1. /\ spawn[x] # None /\ spawn[x].at = "called" /\ i \in ChildIds
        /\ spawn' = [spawn EXCEPT ![x] = q] /\ epochs' = [epochs EXCEPT ![i] = @ + 1]
        /\ children' = [children EXCEPT ![i] = None] /\ process' = Signal(Installed(i))
        /\ overtaken' = overtaken \cup Pending(i) /\ killAllGen' = killAllGen
    BY SpawnIsCall DEF Begin, At, Replaced
  <1>2. epochs[i] \in Nat /\ epochs[i] + 1 \in Nat /\ killAllGen \in Nat
    BY <1>1 DEF Typed
  <1>3. /\ q \in Call /\ q.at = "begun" /\ q.epoch = epochs[i] + 1 /\ q.gen = killAllGen
        /\ q.id = spawn[x].id /\ q.win = spawn[x].win /\ q.answered = spawn[x].answered
    <2>1. spawn[x] \in Call
      BY <1>1, SpawnIsCall
    <2> HIDE DEF i
    <2> QED BY <1>2, <2>1 DEF Call
  <1> HIDE DEF q
  <1>4. /\ spawn' \in [Spawns -> Call \cup {None}] /\ spawn'[x] = q /\ q # None
        /\ \A y \in Spawns : y # x => spawn'[y] = spawn[y]
    BY <1>1, <1>3, CallAssumption DEF Typed
  <1>5. /\ \A j \in ChildIds : j # i => epochs'[j] = epochs[j] /\ children'[j] = children[j]
        /\ epochs'[i] = epochs[i] + 1 /\ children'[i] = None
    BY <1>1 DEF Typed
  <1>6. \A y \in Spawns : process'[y] = "alive" <=> process[y] = "alive" /\ children[i] # y
    BY <1>1, SignalTyped DEF Installed
  <1>7. Typed'
    BY <1>1, <1>2, <1>4, SignalTyped DEF Typed, Begin, windowVars, Pending
  <1>8. CallsAsWindowsSee
    BY <1>1, <1>3, <1>4 DEF CallsAsWindowsSee
  <1>9. ChildIsInstalled'
    BY <1>1, <1>4, <1>5 DEF HostInv, ChildIsInstalled, At, Id, Typed
  <1>10. AliveIsKnown'
    BY <1>1, <1>4, <1>5, <1>6, SpawnIsCall DEF HostInv, AliveIsKnown, At, Id
  <1>11. StampsBehind'
    <2>1. ASSUME NEW y \in Spawns, y # x, At(y, {"begun", "forked"})
          PROVE  spawn[y].epoch <= epochs'[Id(y)] /\ spawn[y].gen <= killAllGen
      BY <1>2, <1>5, <2>1, SpawnIsCall DEF HostInv, StampsBehind, At, Typed
    <2> QED BY <1>1, <1>2, <1>3, <1>4, <1>5, <2>1 DEF StampsBehind, At, Id
  <1>12. OvertakenIsStale'
    <2>1. ASSUME NEW y \in overtaken'
          PROVE  /\ y # x /\ y \in Spawns /\ At(y, {"begun", "forked", "cancelled", "failed"})
                 /\ At(y, {"begun", "forked"}) => spawn[y].epoch < epochs'[Id(y)] \/ spawn[y].gen < killAllGen
      <3>1. CASE y \in overtaken
        BY <1>1, <1>2, <1>5, <3>1, SpawnIsCall DEF HostInv, OvertakenIsStale, At, Typed
      <3>2. CASE y \in Pending(i)
        BY <1>1, <1>2, <1>5, <3>2, SpawnIsCall DEF HostInv, StampsBehind, Pending, At, Typed
      <3> QED BY <1>1, <2>1, <3>1, <3>2
    <2> QED BY <1>1, <1>4, <2>1 DEF OvertakenIsStale, At, Id
  <1> QED BY <1>7, <1>8, <1>9, <1>10, <1>11, <1>12 DEF HostInv

\* A spawn that fails, or forks, changes no other and no counter.
LEMMA FailOrForkKeeps ==
    ASSUME Typed, HostInv, NEW x \in Spawns, SpawnFails(x) \/ Fork(x)
    PROVE  Typed' /\ HostInv' /\ CallsAsWindowsSee
  <1>1. PICK at \in {"failed", "forked"} :
          /\ spawn[x] # None /\ spawn[x].at \in {"called", "begun"} /\ spawn' = [spawn EXCEPT ![x].at = at]
          /\ at = "failed" => process' = process
          /\ at = "forked" => spawn[x].at = "begun" /\ process' = [process EXCEPT ![x] = "alive"]
    BY DEF SpawnFails, Fork, At
  <1>2. /\ spawn' \in [Spawns -> Call \cup {None}]
        /\ \A y \in Spawns : y # x => spawn'[y] = spawn[y]
        /\ spawn'[x] # None /\ spawn'[x].at = at
        /\ spawn'[x].id = spawn[x].id /\ spawn'[x].win = spawn[x].win
        /\ spawn'[x].epoch = spawn[x].epoch /\ spawn'[x].gen = spawn[x].gen
        /\ spawn'[x].answered = spawn[x].answered
    BY <1>1, MovedCall
  <1>3. UNCHANGED <<children, epochs, killAllGen, kills, windowVars, exits, overtaken, announced, told>>
    BY DEF SpawnFails, Fork, hostVars, childPast
  <1>4. Typed'
    BY <1>1, <1>2, <1>3 DEF Typed, windowVars
  <1>5. CallsAsWindowsSee
    BY <1>1, <1>2 DEF CallsAsWindowsSee
  <1>6. ChildIsInstalled'
    BY <1>1, <1>2, <1>3 DEF HostInv, ChildIsInstalled, At, Id, Typed
  <1>7. AliveIsKnown'
    <2>1. \A y \in Spawns : y # x => process'[y] = process[y]
      BY <1>1 DEF Typed
    <2>2. process[x] # "alive"
      BY <1>1 DEF HostInv, AliveIsKnown, At
    <2> QED BY <1>1, <1>2, <1>3, <2>1, <2>2 DEF HostInv, AliveIsKnown, At, Id
  <1>8. StampsBehind' /\ OvertakenIsStale'
    BY <1>1, <1>2, <1>3 DEF HostInv, StampsBehind, OvertakenIsStale, At, Id, Typed
  <1> QED BY <1>4, <1>5, <1>6, <1>7, <1>8 DEF HostInv

\* Only a spawn with a current stamp is installed; the child it finds is ended.
LEMMA InstallKeeps ==
    ASSUME Typed, HostInv, NEW x \in Spawns, Install(x)
    PROVE  Typed' /\ HostInv' /\ CallsAsWindowsSee
  <1>1. /\ spawn[x] # None /\ spawn[x].at = "forked" /\ Id(x) \in ChildIds
        /\ UNCHANGED <<epochs, killAllGen, kills, windowVars, exits, overtaken, announced, told>>
    BY SpawnIsCall DEF Install, At, childPast
  <1>2. PICK at \in {"installed", "cancelled"} :
          /\ spawn' = [spawn EXCEPT ![x].at = at]
          /\ at = "installed" => /\ StampCurrent(x) /\ children' = [children EXCEPT ![Id(x)] = x]
                                 /\ process' = Signal(Installed(Id(x)))
          /\ at = "cancelled" => children' = children /\ process' = Signal({x})
    BY DEF Install
  <1>3. /\ spawn' \in [Spawns -> Call \cup {None}]
        /\ \A y \in Spawns : y # x => spawn'[y] = spawn[y]
        /\ spawn'[x] # None /\ spawn'[x].at = at
        /\ spawn'[x].id = spawn[x].id /\ spawn'[x].win = spawn[x].win
        /\ spawn'[x].epoch = spawn[x].epoch /\ spawn'[x].gen = spawn[x].gen
        /\ spawn'[x].answered = spawn[x].answered
    BY <1>1, <1>2, MovedCall
  <1>4. children' \in [ChildIds -> Spawns \cup {None}]
    BY <1>1, <1>2 DEF Typed
  <1>5. process' \in [Spawns -> {"none", "alive", "signalled", "dead", "reaped"}]
    BY <1>2, SignalTyped
  <1>6. Typed'
    BY <1>1, <1>3, <1>4, <1>5 DEF Typed, windowVars
  <1>7. CallsAsWindowsSee
    BY <1>1, <1>3 DEF CallsAsWindowsSee
  <1>8. \A i \in ChildIds : children[i] # x
    BY <1>1, ChildAssumption DEF HostInv, ChildIsInstalled, At
  <1>9. x \in overtaken => at = "cancelled"
    BY <1>1, <1>2, SpawnIsCall DEF HostInv, OvertakenIsStale, StampCurrent, At, Typed
  <1>10. ChildIsInstalled'
    BY <1>1, <1>2, <1>3, <1>8 DEF HostInv, ChildIsInstalled, At, Id, Typed
  <1>11. AliveIsKnown'
    <2>1. CASE at = "installed"
      <3>1. \A y \in Spawns : process'[y] = "alive" <=> process[y] = "alive" /\ children[Id(x)] # y
        BY <1>2, <2>1, SignalTyped DEF Installed
      <3> QED BY <1>1, <1>2, <1>3, <2>1, <3>1, SpawnIsCall DEF HostInv, AliveIsKnown, At, Id, Typed
    <2>2. CASE at = "cancelled"
      <3>1. \A y \in Spawns : process'[y] = "alive" <=> process[y] = "alive" /\ y # x
        BY <1>2, <2>2, SignalTyped
      <3> QED BY <1>1, <1>2, <1>3, <2>2, <3>1 DEF HostInv, AliveIsKnown, At, Id
    <2> QED BY <2>1, <2>2
  <1>12. StampsBehind' /\ OvertakenIsStale'
    BY <1>1, <1>3, <1>9 DEF HostInv, StampsBehind, OvertakenIsStale, At, Id, Typed
  <1> QED BY <1>6, <1>7, <1>10, <1>11, <1>12 DEF HostInv

\* What every kind of kill does: the ids it is for lose their child, which is
\* told to end, and what is pending under them is left with a stale stamp.
LEMMA RevokedKeeps ==
    ASSUME Typed, HostInv, NEW gone \in SUBSET ChildIds, UNCHANGED spawn,
           \A i \in ChildIds : children'[i] = IF i \in gone THEN None ELSE children[i],
           epochs' \in [ChildIds -> Nat], killAllGen' \in Nat,
           killAllGen <= killAllGen', \A i \in ChildIds : epochs[i] <= epochs'[i],
           \A i \in gone : epochs[i] < epochs'[i] \/ killAllGen < killAllGen',
           \A y \in Spawns : process'[y] = "alive" => process[y] = "alive" /\ \A i \in gone : children[i] # y,
           \A x \in overtaken' : x \in overtaken \/ \E i \in gone : x \in Pending(i)
    PROVE  HostInv'
  <1>1. ChildIsInstalled'
    BY DEF HostInv, ChildIsInstalled, At, Id
  <1>2. AliveIsKnown'
    BY SpawnIsCall DEF HostInv, AliveIsKnown, At, Id
  <1>3. ASSUME NEW x \in Spawns, At(x, {"begun", "forked"})
        PROVE  /\ Id(x) \in ChildIds /\ spawn[x].epoch \in Nat /\ spawn[x].gen \in Nat
               /\ spawn[x].epoch <= epochs[Id(x)] /\ spawn[x].gen <= killAllGen
               /\ epochs[Id(x)] \in Nat /\ epochs'[Id(x)] \in Nat /\ killAllGen \in Nat
    BY <1>3, SpawnIsCall DEF HostInv, StampsBehind, At, Typed
  <1>4. StampsBehind'
    BY <1>3 DEF StampsBehind, At, Id
  <1>5. OvertakenIsStale'
    <2>1. ASSUME NEW x \in overtaken
          PROVE  /\ x \in Spawns /\ At(x, {"begun", "forked", "cancelled", "failed"})
                 /\ At(x, {"begun", "forked"}) => spawn[x].epoch < epochs'[Id(x)] \/ spawn[x].gen < killAllGen'
      <3>1. x \in Spawns
        BY <2>1 DEF Typed
      <3>2. /\ At(x, {"begun", "forked", "cancelled", "failed"})
            /\ At(x, {"begun", "forked"}) => spawn[x].epoch < epochs[Id(x)] \/ spawn[x].gen < killAllGen
        BY <2>1 DEF HostInv, OvertakenIsStale
      <3> QED BY <1>3, <3>1, <3>2
    <2>2. ASSUME NEW i \in gone, NEW x \in Pending(i)
          PROVE  /\ x \in Spawns /\ At(x, {"begun", "forked"})
                 /\ spawn[x].epoch < epochs'[Id(x)] \/ spawn[x].gen < killAllGen'
      BY <1>3, <2>2 DEF Pending
    <2> QED BY <2>1, <2>2 DEF OvertakenIsStale, At, Id
  <1> QED BY <1>1, <1>2, <1>4, <1>5 DEF HostInv

LEMMA HandleKillKeeps ==
    ASSUME Typed, HostInv, NEW i \in ChildIds, HandleKill(i)
    PROVE  Typed' /\ HostInv' /\ CallsAsWindowsSee
  <1>1. /\ kills[i] > 0 /\ kills' = [kills EXCEPT ![i] = @ - 1] /\ epochs' = [epochs EXCEPT ![i] = @ + 1]
        /\ children' = [children EXCEPT ![i] = None] /\ process' = Signal(Installed(i))
        /\ overtaken' = overtaken \cup Pending(i)
        /\ UNCHANGED <<killAllGen, spawn, windowVars, exits, announced, told>>
    BY DEF HandleKill, KillWaits
  <1>2. Typed'
    BY <1>1, SignalTyped DEF Typed, windowVars, Pending
  <1>3. \A y \in Spawns : process'[y] = "alive" => process[y] = "alive" /\ children[i] # y
    BY <1>1, SignalTyped DEF Installed
  <1>4. HostInv'
    <2> DEFINE gone == {i}
    <2>1. gone \in SUBSET ChildIds /\ \A j \in ChildIds : children'[j] = IF j \in gone THEN None ELSE children[j]
      BY <1>1 DEF Typed
    <2>2. /\ \A j \in ChildIds : epochs[j] <= epochs'[j]
          /\ \A j \in gone : epochs[j] < epochs'[j] \/ killAllGen < killAllGen'
          /\ killAllGen <= killAllGen'
      BY <1>1 DEF Typed
    <2>3. \A y \in Spawns : process'[y] = "alive" => process[y] = "alive" /\ \A j \in gone : children[j] # y
      BY <1>3
    <2>4. \A x \in overtaken' : x \in overtaken \/ \E j \in gone : x \in Pending(j)
      BY <1>1
    <2>5. epochs' \in [ChildIds -> Nat] /\ killAllGen' \in Nat /\ UNCHANGED spawn
      BY <1>1, <1>2 DEF Typed
    <2> HIDE DEF gone
    <2> QED BY <2>1, <2>2, <2>3, <2>4, <2>5, RevokedKeeps
  <1> QED BY <1>1, <1>2, <1>4 DEF CallsAsWindowsSee

LEMMA QuitKeeps ==
    ASSUME Typed, HostInv, Quit
    PROVE  Typed' /\ HostInv' /\ CallsAsWindowsSee
  <1>1. /\ killAllGen' = killAllGen + 1 /\ children' = [i \in ChildIds |-> None]
        /\ overtaken' = overtaken \cup UNION {Pending(i) : i \in ChildIds}
        /\ UNCHANGED <<epochs, spawn, kills, windowVars, exits, announced, told>>
    BY DEF Quit
  <1>2. /\ process' \in [Spawns -> {"none", "alive", "signalled", "dead", "reaped"}]
        /\ \A y \in Spawns : process'[y] = "alive" => process[y] = "alive" /\ \A i \in ChildIds : children[i] # y
    BY DEF Quit, Typed
  <1>3. Typed'
    BY <1>1, <1>2 DEF Typed, windowVars, Pending
  <1>4. HostInv'
    <2> DEFINE gone == ChildIds
    <2>1. gone \in SUBSET ChildIds /\ \A i \in ChildIds : children'[i] = IF i \in gone THEN None ELSE children[i]
      BY <1>1
    <2>2. /\ \A i \in ChildIds : epochs[i] <= epochs'[i]
          /\ \A i \in gone : epochs[i] < epochs'[i] \/ killAllGen < killAllGen'
          /\ killAllGen <= killAllGen'
      BY <1>1 DEF Typed
    <2>3. \A x \in overtaken' : x \in overtaken \/ \E i \in gone : x \in Pending(i)
      BY <1>1
    <2>4. epochs' \in [ChildIds -> Nat] /\ killAllGen' \in Nat /\ UNCHANGED spawn
      BY <1>1, <1>3 DEF Typed
    <2>5. \A y \in Spawns : process'[y] = "alive" => process[y] = "alive" /\ \A i \in gone : children[i] # y
      BY <1>2
    <2> HIDE DEF gone
    <2> QED BY <2>1, <2>2, <2>3, <2>4, <2>5, RevokedKeeps
  <1> QED BY <1>1, <1>3, <1>4 DEF CallsAsWindowsSee

LEMMA RemoveAccountKeeps ==
    ASSUME Typed, HostInv, RemoveAccount
    PROVE  Typed' /\ HostInv' /\ CallsAsWindowsSee
  <1> DEFINE gone == {i \in ChildIds : children[i] \in OnAccount}
  <1>1. /\ children' = [i \in ChildIds |-> IF i \in gone THEN None ELSE children[i]]
        /\ epochs' = [i \in ChildIds |-> IF i \in gone THEN epochs[i] + 1 ELSE epochs[i]]
        /\ process' = Signal({children[i] : i \in gone})
        /\ overtaken' = overtaken \cup UNION {Pending(i) : i \in gone}
        /\ UNCHANGED <<killAllGen, spawn, kills, windowVars, exits, announced, told>>
    BY DEF RemoveAccount
  <1>2. gone \subseteq ChildIds
    OBVIOUS
  <1> HIDE DEF gone
  <1>3. children' \in [ChildIds -> Spawns \cup {None}] /\ epochs' \in [ChildIds -> Nat]
    BY <1>1 DEF Typed
  <1>4. Typed'
    BY <1>1, <1>3, SignalTyped DEF Typed, windowVars, Pending
  <1>5. \A y \in Spawns : process'[y] = "alive" => process[y] = "alive" /\ \A i \in gone : children[i] # y
    BY <1>1, SignalTyped
  <1>6. HostInv'
    <2>1. /\ \A i \in ChildIds : epochs[i] <= epochs'[i]
          /\ \A i \in gone : epochs[i] < epochs'[i] \/ killAllGen < killAllGen'
          /\ killAllGen' \in Nat /\ killAllGen <= killAllGen'
      BY <1>1, <1>2 DEF Typed
    <2>2. \A i \in ChildIds : children'[i] = IF i \in gone THEN None ELSE children[i]
      BY <1>1
    <2>3. \A x \in overtaken' : x \in overtaken \/ \E i \in gone : x \in Pending(i)
      BY <1>1
    <2> QED BY <1>1, <1>2, <1>3, <1>5, <2>1, <2>2, <2>3, RevokedKeeps
  <1> QED BY <1>1, <1>4, <1>6 DEF CallsAsWindowsSee

LEMMA DiesKeeps ==
    ASSUME Typed, HostInv, NEW x \in Spawns, Dies(x)
    PROVE  Typed' /\ HostInv' /\ CallsAsWindowsSee
  <1>1. /\ process' = [process EXCEPT ![x] = "dead"]
        /\ UNCHANGED <<hostVars, spawn, kills, windowVars, exits, overtaken, announced, told>>
    BY DEF Dies, childPast
  <1>2. Typed' /\ \A y \in Spawns : process'[y] = "alive" => process[y] = "alive"
    BY <1>1 DEF Typed, hostVars, windowVars
  <1>3. HostInv'
    BY <1>1, <1>2 DEF HostInv, ChildIsInstalled, AliveIsKnown, StampsBehind, OvertakenIsStale, At, Id, hostVars
  <1> QED BY <1>1, <1>2, <1>3 DEF CallsAsWindowsSee

\* The registry drops a child whose process is dead; it is not alive, so
\* nothing runs on.
LEMMA ReapKeepsHost ==
    ASSUME Typed, HostInv, NEW x \in Spawns, Reap(x)
    PROVE  Typed' /\ HostInv'
  <1>1. /\ process[x] = "dead" /\ process' = [process EXCEPT ![x] = "reaped"] /\ spawn[x] # None
        /\ (children' = [children EXCEPT ![Id(x)] = None] /\ children[Id(x)] = x) \/ children' = children
        /\ exits' = [w \in Windows |-> exits[w] \cup {x}] \/ exits' = exits
        /\ announced' = announced \cup {x} \/ announced' = announced
        /\ UNCHANGED <<epochs, killAllGen, spawn, kills, windowVars, overtaken, told>>
    BY DEF Reap, IsInstalled, At
  <1>2. Id(x) \in ChildIds
    BY <1>1, SpawnIsCall
  <1>3. exits' \in [Windows -> SUBSET Spawns]
    BY <1>1 DEF Typed
  <1>4. Typed'
    BY <1>1, <1>2, <1>3 DEF Typed, windowVars
  <1>5. \A y \in Spawns : process'[y] = "alive" => process[y] = "alive" /\ y # x
    BY <1>1 DEF Typed
  <1>6. ChildIsInstalled' /\ AliveIsKnown'
    <2>1. \A i \in ChildIds : children'[i] = children[i] \/ (children'[i] = None /\ children[i] = x)
      BY <1>1, <1>2 DEF Typed
    <2>2. ChildIsInstalled'
      BY <1>1, <2>1 DEF HostInv, ChildIsInstalled, At, Id
    <2>3. AliveIsKnown'
      BY <1>1, <1>5, <2>1, SpawnIsCall DEF HostInv, AliveIsKnown, At, Id
    <2> QED BY <2>2, <2>3
  <1>7. StampsBehind' /\ OvertakenIsStale'
    BY <1>1 DEF HostInv, StampsBehind, OvertakenIsStale, At, Id
  <1> QED BY <1>4, <1>6, <1>7 DEF HostInv

-----------------------------------------------------------------------------
(* The windows *)

\* An update of what a window keeps under an id.
LEMMA EntrySet ==
    ASSUME NEW S, NEW f \in [Windows -> [ChildIds -> S]], NEW w \in Windows, NEW i \in ChildIds, NEW v \in S
    PROVE  /\ [f EXCEPT ![w][i] = v] \in [Windows -> [ChildIds -> S]]
           /\ [f EXCEPT ![w][i] = v][w][i] = v
           /\ \A u \in Windows, j \in ChildIds : u # w \/ j # i => [f EXCEPT ![w][i] = v][u][j] = f[u][j]
  OBVIOUS

\* Emptying what is parked under an id leaves the other ids theirs.
LEMMA ParkedCleared ==
    ASSUME ChildInv, NEW w \in Windows, NEW i \in ChildIds, parked' = [parked EXCEPT ![w][i] = {}]
    PROVE  parked' \in [Windows -> [ChildIds -> SUBSET Spawns]] /\ ParkedFits'
  <1>1. /\ parked' \in [Windows -> [ChildIds -> SUBSET Spawns]] /\ parked'[w][i] = {}
        /\ \A u \in Windows, j \in ChildIds : u # w \/ j # i => parked'[u][j] = parked[u][j]
    BY EntrySet DEF ChildInv, Typed
  <1>2. IsFiniteSet({}) /\ Cardinality({}) = 0 /\ 0 <= MaxParked
    BY FS_EmptySet, ChildAssumption
  <1> QED BY <1>1, <1>2 DEF ChildInv, WindowInv, ParkedFits

\* What a window does with its three entries for an id when it watches a new
\* spawn, or nobody: no process is current, and no exit is parked.
Clears(w, i, x) ==
    /\ watch' = [watch EXCEPT ![w][i] = x] /\ livePid' = [livePid EXCEPT ![w][i] = None]
    /\ parked' = [parked EXCEPT ![w][i] = {}]

Cleared(w, i, x) ==
    /\ watch' \in [Windows -> [ChildIds -> Spawns \cup {None}]]
    /\ livePid' \in [Windows -> [ChildIds -> Spawns \cup {None}]]
    /\ parked' \in [Windows -> [ChildIds -> SUBSET Spawns]]
    /\ watch'[w][i] = x /\ livePid'[w][i] = None
    /\ \A u \in Windows, j \in ChildIds :
         u # w \/ j # i => watch'[u][j] = watch[u][j] /\ livePid'[u][j] = livePid[u][j]
    /\ ParkedFits' /\ LiveIsWatched'

LEMMA EntriesCleared ==
    ASSUME ChildInv, NEW w \in Windows, NEW i \in ChildIds, NEW x \in Spawns \cup {None}, Clears(w, i, x)
    PROVE  Cleared(w, i, x)
  <1> USE DEF ChildInv, WindowInv
  <1>1. /\ watch' \in [Windows -> [ChildIds -> Spawns \cup {None}]] /\ watch'[w][i] = x
        /\ \A u \in Windows, j \in ChildIds : u # w \/ j # i => watch'[u][j] = watch[u][j]
    BY EntrySet DEF Typed, Clears
  <1>2. /\ livePid' \in [Windows -> [ChildIds -> Spawns \cup {None}]] /\ livePid'[w][i] = None
        /\ \A u \in Windows, j \in ChildIds : u # w \/ j # i => livePid'[u][j] = livePid[u][j]
    BY EntrySet DEF Typed, Clears
  <1>3. parked' \in [Windows -> [ChildIds -> SUBSET Spawns]] /\ ParkedFits'
    BY ParkedCleared DEF Clears
  <1>4. LiveIsWatched'
    BY <1>1, <1>2 DEF LiveIsWatched
  <1> QED BY <1>1, <1>2, <1>3, <1>4 DEF Cleared

\* A window opens an id once everything it spawned there has answered.
LEMMA OpenKeeps ==
    ASSUME ChildInv, NEW w \in Windows, NEW i \in ChildIds, NEW x \in Spawns, Open(w, i, x)
    PROVE  ChildInv'
  <1> DEFINE q == [id |-> i, win |-> w, epoch |-> 0, gen |-> 0, answered |-> FALSE, at |-> "called"]
  <1>1. /\ spawn[x] = None /\ spawn' = [spawn EXCEPT ![x] = q]
        /\ \A y \in Spawns : spawn[y] # None /\ spawn[y].win = w /\ Id(y) = i => spawn[y].answered
        /\ UNCHANGED <<hostVars, process, kills, exits, overtaken, announced, told>>
    BY DEF Open, childPast
  <1>2. /\ q \in Call /\ q.id = i /\ q.win = w /\ q.at = "called"
    BY DEF Call
  <1> HIDE DEF q
  <1>3. /\ spawn' \in [Spawns -> Call \cup {None}] /\ spawn'[x] = q /\ q # None
        /\ \A y \in Spawns : y # x => spawn'[y] = spawn[y]
    BY <1>1, <1>2, CallAssumption DEF ChildInv, Typed
  <1>4. /\ watch' \in [Windows -> [ChildIds -> Spawns \cup {None}]]
        /\ livePid' \in [Windows -> [ChildIds -> Spawns \cup {None}]]
        /\ parked' \in [Windows -> [ChildIds -> SUBSET Spawns]]
        /\ watch'[w][i] = x
        /\ \A u \in Windows, j \in ChildIds : u # w \/ j # i => watch'[u][j] = watch[u][j]
        /\ ParkedFits' /\ LiveIsWatched'
    <2>1. Clears(w, i, x)
      BY DEF Open, Clears
    <2>2. Cleared(w, i, x)
      BY <2>1, EntriesCleared
    <2> QED BY <2>2 DEF Cleared
  <1>5. Typed'
    BY <1>1, <1>3, <1>4 DEF ChildInv, Typed, hostVars
  <1>6. HostInv'
    BY <1>1, <1>2, <1>3, QuietForHost DEF ChildInv, CallsAsHostSees
  <1>7. AnnouncedWasChild'
    BY <1>1, <1>3 DEF ChildInv, WindowInv, AnnouncedWasChild, At, Typed
  <1>8. AwaitedIsWatched'
    <2>1. ASSUME NEW y \in Spawns, spawn'[y] # None, ~spawn'[y].answered
          PROVE  watch'[spawn'[y].win][Id(y)'] \in {y, None}
      <3>1. CASE y = x
        BY <1>2, <1>3, <1>4, <3>1 DEF Id
      <3>2. CASE y # x
        <4>1. spawn'[y] = spawn[y] /\ (spawn[y].win # w \/ Id(y) # i) /\ spawn[y].win \in Windows /\ Id(y) \in ChildIds
          BY <1>1, <1>3, <2>1, <3>2, SpawnIsCall DEF ChildInv
        <4> QED BY <1>4, <2>1, <4>1 DEF ChildInv, WindowInv, AwaitedIsWatched, Id
      <3> QED BY <3>1, <3>2
    <2> QED BY <2>1 DEF AwaitedIsWatched
  <1>9. ExitIsOwn'
    BY <1>1 DEF ChildInv, WindowInv, ExitIsOwn
  <1> QED BY <1>4, <1>5, <1>6, <1>7, <1>8, <1>9 DEF ChildInv, WindowInv

\* A spawn answers the window that called it, which watches it or nobody: an
\* exit parked there under its name is told to its own handler.
LEMMA SpawnAnswersKeeps ==
    ASSUME ChildInv, NEW x \in Spawns, SpawnAnswers(x)
    PROVE  ChildInv'
  <1> DEFINE w == spawn[x].win
             i == Id(x)
  <1>1. /\ spawn[x] # None /\ spawn[x].at = "installed" /\ ~spawn[x].answered
        /\ spawn' = [spawn EXCEPT ![x].answered = TRUE] /\ Answered(w, i, x)
        /\ parked' = [parked EXCEPT ![w][i] = {}]
        /\ UNCHANGED <<hostVars, process, kills, watch, exits, overtaken, announced>>
    BY DEF SpawnAnswers, At
  <1>2. w \in Windows /\ i \in ChildIds /\ watch[w][i] \in {x, None}
    BY <1>1, SpawnIsCall DEF ChildInv, WindowInv, AwaitedIsWatched
  <1>3. /\ spawn' \in [Spawns -> Call \cup {None}]
        /\ \A y \in Spawns : y # x => spawn'[y] = spawn[y]
        /\ spawn'[x] # None /\ spawn'[x].answered
        /\ spawn'[x].id = spawn[x].id /\ spawn'[x].win = spawn[x].win
        /\ spawn'[x].epoch = spawn[x].epoch /\ spawn'[x].gen = spawn[x].gen /\ spawn'[x].at = spawn[x].at
    BY <1>1, AnsweredCall DEF ChildInv
  <1>4. \E v \in {x, None} : livePid' = [livePid EXCEPT ![w][i] = v]
    BY <1>1 DEF Answered
  <1>5. told' = told \/ told' = told \cup {<<x, x>>}
    BY <1>1, <1>2 DEF Answered
  <1> HIDE DEF w, i
  <1>6. /\ livePid' \in [Windows -> [ChildIds -> Spawns \cup {None}]] /\ livePid'[w][i] \in {x, None}
        /\ \A u \in Windows, j \in ChildIds : u # w \/ j # i => livePid'[u][j] = livePid[u][j]
    BY <1>2, <1>4, EntrySet DEF ChildInv, Typed
  <1>7. parked' \in [Windows -> [ChildIds -> SUBSET Spawns]] /\ ParkedFits'
    BY <1>1, <1>2, ParkedCleared
  <1>8. Typed'
    BY <1>1, <1>3, <1>5, <1>6, <1>7 DEF ChildInv, Typed, hostVars
  <1>9. HostInv'
    BY <1>1, <1>3, QuietForHost DEF ChildInv, CallsAsHostSees
  <1>10. AnnouncedWasChild'
    BY <1>1, <1>3 DEF ChildInv, WindowInv, AnnouncedWasChild, At, Typed
  <1>11. AwaitedIsWatched'
    BY <1>1, <1>3 DEF ChildInv, WindowInv, AwaitedIsWatched, Id
  <1>12. LiveIsWatched'
    BY <1>1, <1>2, <1>6, ChildAssumption DEF ChildInv, WindowInv, LiveIsWatched
  <1>13. ExitIsOwn'
    BY <1>5 DEF ChildInv, WindowInv, ExitIsOwn
  <1> QED BY <1>7, <1>8, <1>9, <1>10, <1>11, <1>12, <1>13 DEF ChildInv, WindowInv

\* An adapter lets an id go: it has nothing to be told any more.
LEMMA LetGoClears ==
    ASSUME ChildInv, NEW w \in Windows, NEW i \in ChildIds, LetGo(w, i)
    PROVE  Cleared(w, i, None) /\ kills' \in [ChildIds -> Nat]
  <1>1. Clears(w, i, None)
    BY DEF LetGo, Clears
  <1>2. kills' \in [ChildIds -> Nat]
    BY DEF LetGo, ChildInv, Typed
  <1> QED BY <1>1, <1>2, EntriesCleared

LEMMA SpawnRejectsKeeps ==
    ASSUME ChildInv, NEW x \in Spawns, SpawnRejects(x)
    PROVE  ChildInv'
  <1> DEFINE w == spawn[x].win
             i == Id(x)
  <1>1. /\ spawn[x] # None /\ spawn' = [spawn EXCEPT ![x].answered = TRUE] /\ LetGo(w, i)
        /\ UNCHANGED <<hostVars, process, exits, overtaken, announced, told>>
    BY DEF SpawnRejects, At, childPast
  <1>2. w \in Windows /\ i \in ChildIds
    BY <1>1, SpawnIsCall DEF ChildInv
  <1> HIDE DEF w, i
  <1>3. /\ spawn' \in [Spawns -> Call \cup {None}]
        /\ \A y \in Spawns : y # x => spawn'[y] = spawn[y]
        /\ spawn'[x] # None /\ spawn'[x].answered
        /\ spawn'[x].id = spawn[x].id /\ spawn'[x].win = spawn[x].win
        /\ spawn'[x].epoch = spawn[x].epoch /\ spawn'[x].gen = spawn[x].gen /\ spawn'[x].at = spawn[x].at
    BY <1>1, AnsweredCall DEF ChildInv
  <1>4. Cleared(w, i, None) /\ kills' \in [ChildIds -> Nat]
    BY <1>1, <1>2, LetGoClears
  <1>5. Typed'
    BY <1>1, <1>3, <1>4 DEF ChildInv, Typed, hostVars, Cleared
  <1>6. HostInv'
    BY <1>1, <1>3, QuietForHost DEF ChildInv, CallsAsHostSees
  <1>7. AnnouncedWasChild'
    BY <1>1, <1>3 DEF ChildInv, WindowInv, AnnouncedWasChild, At, Typed
  <1>8. AwaitedIsWatched'
    <2>1. \A u \in Windows, j \in ChildIds : watch'[u][j] \in {watch[u][j], None}
      BY <1>4 DEF Cleared
    <2>2. ASSUME NEW y \in Spawns, spawn'[y] # None, ~spawn'[y].answered
          PROVE  watch'[spawn'[y].win][Id(y)'] \in {y, None}
      <3>1. spawn'[y] = spawn[y]
        BY <1>3, <2>2
      <3>2. spawn[y].win \in Windows /\ Id(y) \in ChildIds /\ watch[spawn[y].win][Id(y)] \in {y, None}
        BY <2>2, <3>1, SpawnIsCall DEF ChildInv, WindowInv, AwaitedIsWatched
      <3> QED BY <2>1, <3>1, <3>2 DEF Id
    <2> QED BY <2>2 DEF AwaitedIsWatched
  <1>9. ExitIsOwn'
    BY <1>1 DEF ChildInv, WindowInv, ExitIsOwn
  <1> QED BY <1>4, <1>5, <1>6, <1>7, <1>8, <1>9 DEF ChildInv, WindowInv, Cleared

LEMMA StopKeeps ==
    ASSUME ChildInv, NEW w \in Windows, NEW i \in ChildIds, Stop(w, i)
    PROVE  ChildInv'
  <1>1. LetGo(w, i) /\ UNCHANGED <<hostVars, spawn, process, exits, overtaken, announced, told>>
    BY DEF Stop, childPast
  <1>2. Cleared(w, i, None) /\ kills' \in [ChildIds -> Nat]
    BY <1>1, LetGoClears
  <1>3. Typed'
    BY <1>1, <1>2 DEF ChildInv, Typed, hostVars, Cleared
  <1>4. HostInv'
    BY <1>1, QuietForHost DEF ChildInv, CallsAsHostSees
  <1>5. AnnouncedWasChild' /\ ExitIsOwn'
    BY <1>1 DEF ChildInv, WindowInv, AnnouncedWasChild, ExitIsOwn, At
  <1>6. AwaitedIsWatched'
    BY <1>1, <1>2, SpawnIsCall DEF ChildInv, WindowInv, AwaitedIsWatched, Id, Cleared
  <1> QED BY <1>2, <1>3, <1>4, <1>5, <1>6 DEF ChildInv, WindowInv, Cleared

\* One more element makes a finite set larger by one at most.
LEMMA GrowsByOne ==
    ASSUME NEW S, IsFiniteSet(S), NEW x
    PROVE  IsFiniteSet(S \cup {x}) /\ Cardinality(S \cup {x}) <= Cardinality(S) + 1
  <1>1. Cardinality(S) \in Nat
    BY FS_CardinalityType
  <1>2. IsFiniteSet(S \cup {x})
    BY FS_AddElement
  <1>3. Cardinality(S \cup {x}) = IF x \in S THEN Cardinality(S) ELSE Cardinality(S) + 1
    BY FS_AddElement
  <1> QED BY <1>1, <1>2, <1>3

\* Parking an exit keeps within the bound.
LEMMA ParkFits ==
    ASSUME ChildInv, NEW w \in Windows, NEW i \in ChildIds, NEW x \in Spawns
    PROVE  /\ Park(w, i, x) \in SUBSET Spawns /\ IsFiniteSet(Park(w, i, x))
           /\ Cardinality(Park(w, i, x)) <= MaxParked
  <1> DEFINE S == parked[w][i]
  <1>1. S \subseteq Spawns /\ IsFiniteSet(S) /\ Cardinality(S) <= MaxParked /\ Cardinality(S) \in Nat
    BY FS_CardinalityType DEF ChildInv, Typed, WindowInv, ParkedFits
  <1>2. CASE Cardinality(S) < MaxParked
    <2>1. IsFiniteSet(S \cup {x}) /\ Cardinality(S \cup {x}) <= Cardinality(S) + 1
      BY <1>1, GrowsByOne
    <2>2. Cardinality(S) + 1 <= MaxParked /\ Cardinality(S \cup {x}) \in Nat
      BY <1>1, <1>2, <2>1, FS_CardinalityType, ChildAssumption
    <2>3. Park(w, i, x) = S \cup {x}
      BY <1>2 DEF Park
    <2> QED BY <1>1, <2>1, <2>2, <2>3, ChildAssumption
  <1>3. CASE ~(Cardinality(S) < MaxParked)
    <2> DEFINE y == CHOOSE z \in S : TRUE
               R == S \ {y}
    <2>1. S # {} /\ Cardinality(S) = MaxParked
      BY <1>1, <1>3, FS_EmptySet, ChildAssumption
    <2>2. y \in S
      BY <2>1
    <2>3. Park(w, i, x) = R \cup {x}
      BY <1>3 DEF Park
    <2> HIDE DEF y
    <2>4. IsFiniteSet(R) /\ Cardinality(R) = Cardinality(S) - 1
      BY <1>1, <2>2, FS_RemoveElement
    <2> HIDE DEF R
    <2>5. IsFiniteSet(R \cup {x}) /\ Cardinality(R \cup {x}) <= Cardinality(R) + 1
      BY <2>4, GrowsByOne
    <2>6. R \subseteq Spawns
      BY <1>1 DEF R
    <2>7. Cardinality(R \cup {x}) <= MaxParked
      BY <1>1, <2>1, <2>4, <2>5, FS_CardinalityType, ChildAssumption
    <2> QED BY <2>3, <2>5, <2>6, <2>7
  <1> QED BY <1>2, <1>3

\* An exit that arrives is told, parked or dropped.
LEMMA DeliverExitKeeps ==
    ASSUME ChildInv, NEW w \in Windows, NEW x \in Spawns, DeliverExit(w, x)
    PROVE  ChildInv'
  <1> DEFINE i == Id(x)
  <1>1. /\ x \in exits[w] /\ exits' = [exits EXCEPT ![w] = @ \ {x}]
        /\ UNCHANGED <<hostVars, spawn, process, kills, watch, overtaken, announced>>
    BY DEF DeliverExit
  <1>2. spawn[x] # None /\ i \in ChildIds
    BY <1>1, SpawnIsCall DEF ChildInv, WindowInv, AnnouncedWasChild, At
  <1>3. \/ UNCHANGED <<livePid, parked, told>>
        \/ /\ watch[w][i] # None /\ livePid[w][i] = x
           /\ livePid' = [livePid EXCEPT ![w][i] = None]
           /\ told' = told \cup {<<watch[w][i], x>>} /\ parked' = parked
        \/ parked' = [parked EXCEPT ![w][i] = Park(w, i, x)] /\ UNCHANGED <<livePid, told>>
    BY DEF DeliverExit, IsCurrentExit
  <1> HIDE DEF i
  <1>4. exits' \in [Windows -> SUBSET Spawns] /\ \A u \in Windows : exits'[u] \subseteq announced
    BY <1>1 DEF ChildInv, Typed, WindowInv, AnnouncedWasChild
  <1>5. /\ livePid' \in [Windows -> [ChildIds -> Spawns \cup {None}]]
        /\ \A u \in Windows, j \in ChildIds : livePid'[u][j] \in {livePid[u][j], None}
    <2>1. CASE livePid' = [livePid EXCEPT ![w][i] = None]
      BY <1>2, <2>1, EntrySet DEF ChildInv, Typed
    <2> QED BY <1>3, <2>1 DEF ChildInv, Typed
  <1>6. parked' \in [Windows -> [ChildIds -> SUBSET Spawns]] /\ ParkedFits'
    <2>1. CASE parked' = [parked EXCEPT ![w][i] = Park(w, i, x)]
      <3> DEFINE P == Park(w, i, x)
      <3>1. P \in SUBSET Spawns /\ IsFiniteSet(P) /\ Cardinality(P) <= MaxParked
        BY <1>2, ParkFits
      <3> HIDE DEF P
      <3>2. /\ parked' \in [Windows -> [ChildIds -> SUBSET Spawns]] /\ parked'[w][i] = P
            /\ \A u \in Windows, j \in ChildIds : u # w \/ j # i => parked'[u][j] = parked[u][j]
        BY <1>2, <2>1, <3>1, EntrySet DEF ChildInv, Typed, P
      <3> QED BY <3>1, <3>2 DEF ChildInv, WindowInv, ParkedFits
    <2> QED BY <1>3, <2>1 DEF ChildInv, Typed, WindowInv, ParkedFits
  <1>7. told' \subseteq told \cup {<<x, x>>}
    <2>1. ASSUME watch[w][i] # None, livePid[w][i] = x PROVE watch[w][i] = x
      BY <1>2, <2>1, ChildAssumption DEF ChildInv, WindowInv, LiveIsWatched
    <2> QED BY <1>3, <2>1
  <1>8. Typed'
    BY <1>1, <1>4, <1>5, <1>6, <1>7 DEF ChildInv, Typed, hostVars
  <1>9. HostInv'
    BY <1>1, QuietForHost DEF ChildInv, CallsAsHostSees
  <1>10. AnnouncedWasChild'
    BY <1>1, <1>4 DEF ChildInv, WindowInv, AnnouncedWasChild, At
  <1>11. AwaitedIsWatched'
    BY <1>1 DEF ChildInv, WindowInv, AwaitedIsWatched, Id
  <1>12. LiveIsWatched'
    BY <1>1, <1>5 DEF ChildInv, WindowInv, LiveIsWatched
  <1>13. ExitIsOwn'
    BY <1>7 DEF ChildInv, WindowInv, ExitIsOwn
  <1> QED BY <1>6, <1>8, <1>9, <1>10, <1>11, <1>12, <1>13 DEF ChildInv, WindowInv

\* The exit that is announced is that of a child.
LEMMA ReapKeeps ==
    ASSUME ChildInv, NEW x \in Spawns, Reap(x)
    PROVE  ChildInv'
  <1>1. Typed' /\ HostInv'
    BY ReapKeepsHost DEF ChildInv
  <1>2. UNCHANGED <<spawn, watch, livePid, parked, told>>
    BY DEF Reap, windowVars
  <1>3. ParkedFits' /\ AwaitedIsWatched' /\ LiveIsWatched' /\ ExitIsOwn'
    BY <1>2 DEF ChildInv, WindowInv, ParkedFits, AwaitedIsWatched, LiveIsWatched, ExitIsOwn, Id
  <1>4. AnnouncedWasChild'
    <2>1. CASE /\ At(x, {"installed"}) /\ exits' = [w \in Windows |-> exits[w] \cup {x}]
               /\ announced' = announced \cup {x}
      BY <1>2, <2>1 DEF ChildInv, WindowInv, AnnouncedWasChild, At
    <2>2. CASE UNCHANGED <<exits, announced>>
      BY <1>2, <2>2 DEF ChildInv, WindowInv, AnnouncedWasChild, At
    <2> QED BY <2>1, <2>2 DEF Reap
  <1> QED BY <1>1, <1>3, <1>4 DEF ChildInv, WindowInv

-----------------------------------------------------------------------------
(* The theorems *)

LEMMA InitChildInv == ChildInit => ChildInv
  <1> SUFFICES ASSUME ChildInit PROVE ChildInv
    OBVIOUS
  <1> USE DEF ChildInit
  <1>1. Typed
    BY DEF Typed
  <1>2. HostInv
    BY DEF HostInv, ChildIsInstalled, AliveIsKnown, StampsBehind, OvertakenIsStale, At
  <1>3. ParkedFits
    <2>1. IsFiniteSet({}) /\ Cardinality({}) = 0 /\ 0 <= MaxParked
      BY FS_EmptySet, ChildAssumption
    <2> QED BY <2>1 DEF ParkedFits
  <1>4. AnnouncedWasChild /\ AwaitedIsWatched /\ LiveIsWatched /\ ExitIsOwn
    BY DEF AnnouncedWasChild, AwaitedIsWatched, LiveIsWatched, ExitIsOwn
  <1> QED BY <1>1, <1>2, <1>3, <1>4 DEF ChildInv, WindowInv

LEMMA NextKeepsChildInv == ChildInv /\ [ChildNext]_childVars => ChildInv'
  <1> SUFFICES ASSUME ChildInv, [ChildNext]_childVars PROVE ChildInv'
    OBVIOUS
  <1>1. Typed /\ HostInv /\ WindowInv
    BY DEF ChildInv
  <1>2. ASSUME Typed', HostInv', CallsAsWindowsSee, UNCHANGED <<windowVars, exits, announced, told>>
        PROVE  ChildInv'
    BY <1>1, <1>2, QuietForWindows DEF ChildInv
  <1>3. ASSUME NEW x \in Spawns, Begin(x) \/ SpawnFails(x) \/ Fork(x) \/ Install(x) \/ Dies(x)
        PROVE  ChildInv'
    <2>1. Typed' /\ HostInv' /\ CallsAsWindowsSee
      BY <1>1, <1>3, BeginKeeps, FailOrForkKeeps, InstallKeeps, DiesKeeps
    <2>2. UNCHANGED <<windowVars, exits, announced, told>>
      BY <1>3 DEF Begin, SpawnFails, Fork, Install, Dies, childPast
    <2> QED BY <1>2, <2>1, <2>2
  <1>4. ASSUME NEW i \in ChildIds, HandleKill(i) PROVE ChildInv'
    BY <1>1, <1>2, <1>4, HandleKillKeeps DEF HandleKill
  <1>5. ASSUME Quit \/ RemoveAccount PROVE ChildInv'
    BY <1>1, <1>2, <1>5, QuitKeeps, RemoveAccountKeeps DEF Quit, RemoveAccount
  <1>6. ASSUME NEW w \in Windows, NEW x \in Spawns, Hears(w, x) PROVE ChildInv'
    <2>1. UNCHANGED <<hostVars, process, overtaken, spawn, kills, windowVars, exits, announced, told>>
      BY <1>6 DEF Hears
    <2>2. Typed'
      BY <1>1, <2>1 DEF Typed, hostVars, windowVars
    <2>3. HostInv' /\ CallsAsWindowsSee
      BY <1>1, <2>1, QuietForHost DEF CallsAsHostSees, CallsAsWindowsSee
    <2> QED BY <1>2, <2>1, <2>2, <2>3
  <1>7. CASE UNCHANGED childVars
    <2>1. UNCHANGED <<hostVars, process, overtaken, spawn, kills, windowVars, exits, announced, told>>
      BY <1>7 DEF childVars, childPast
    <2>2. Typed'
      BY <1>1, <2>1 DEF Typed, hostVars, windowVars
    <2>3. HostInv' /\ CallsAsWindowsSee
      BY <1>1, <2>1, QuietForHost DEF CallsAsHostSees, CallsAsWindowsSee
    <2> QED BY <1>2, <2>1, <2>2, <2>3
  <1>8. ASSUME NEW x \in Spawns, SpawnAnswers(x) \/ SpawnRejects(x) \/ Reap(x) PROVE ChildInv'
    BY <1>8, SpawnAnswersKeeps, SpawnRejectsKeeps, ReapKeeps
  <1>9. ASSUME NEW w \in Windows, NEW i \in ChildIds, Stop(w, i) \/ \E x \in Spawns : Open(w, i, x) PROVE ChildInv'
    BY <1>9, StopKeeps, OpenKeeps
  <1>10. ASSUME NEW w \in Windows, NEW x \in Spawns, DeliverExit(w, x) PROVE ChildInv'
    BY <1>10, DeliverExitKeeps
  <1> QED BY <1>3, <1>4, <1>5, <1>6, <1>7, <1>8, <1>9, <1>10 DEF ChildNext

LEMMA ChildInvariance == ChildSpec => []ChildInv
  BY InitChildInv, NextKeepsChildInv, PTL DEF ChildSpec

\* A running process that was not told to end is in the table, or belongs to a
\* call that has yet to pass its install step; and a spawn that a kill, kill_all
\* or a newer spawn caught while it was forking is never installed: its process
\* may run beside its successor, but only until that step kills it
\* (HarnessHost, harness.rs:162-245, 884-897).
THEOREM OneChildAlwaysRuns == ChildSpec => []OneChildRuns
  <1>1. ChildInv => OneChildRuns
    <2> SUFFICES ASSUME ChildInv PROVE OneChildRuns
      OBVIOUS
    <2>1. ChildTypeOK
      BY DEF ChildInv, Typed, WindowInv, ParkedFits, ChildTypeOK
    <2>2. NoOrphans
      BY DEF ChildInv, HostInv, AliveIsKnown, NoOrphans
    <2>3. OvertakenStaysDown
      BY DEF ChildInv, HostInv, OvertakenIsStale, OvertakenStaysDown, At
    <2> QED BY <2>1, <2>2, <2>3 DEF OneChildRuns
  <1> QED BY <1>1, ChildInvariance, PTL

\* A handler is told of the exit of its own process only, though exits are
\* broadcast to every window, may come before the spawn's answer, and name an
\* id that a newer spawn may have taken over (child.ts:82-89, 146-161, 316-324).
THEOREM ExitIsAlwaysOwn == ChildSpec => []ExitIsOwn
  <1>1. ChildInv => ExitIsOwn
    BY DEF ChildInv, WindowInv
  <1> QED BY <1>1, ChildInvariance, PTL

-----------------------------------------------------------------------------
(* That an announced exit is told *)

\* A call that was answered is over.
AnsweredIsOver ==
    \A x \in Spawns : spawn[x] # None /\ spawn[x].answered => spawn[x].at \in {"installed", "cancelled", "failed"}

\* Until its spawn answers, the window has no current process for the id, and
\* an exit of it is on its way there or parked there.
AwaitedExitIsKept ==
    \A x \in Spawns : LET w == spawn[x].win IN
      spawn[x] # None /\ ~spawn[x].answered /\ watch[w][Id(x)] = x =>
        livePid[w][Id(x)] = None /\ (x \in announced => x \in exits[w] \/ x \in parked[w][Id(x)])

\* From then on it is the current one until its exit is told; an announced one
\* is on its way.
LiveUntilTold ==
    \A x \in Spawns : LET w == spawn[x].win IN
      At(x, {"installed"}) /\ spawn[x].answered /\ watch[w][Id(x)] = x =>
        \/ <<x, x>> \in told
        \/ livePid[w][Id(x)] = x /\ (x \in announced => x \in exits[w])

DeathInv == AnsweredIsOver /\ AwaitedExitIsKept /\ LiveUntilTold

\* An exit on its way to a window that would park it finds a free place there.
ParkedHasRoom ==
    \A w \in Windows : \A x \in exits[w] :
      watch[w][Id(x)] # None /\ livePid[w][Id(x)] = None => Cardinality(parked[w][Id(x)]) < MaxParked

LEMMA QuietForDeath ==
    ASSUME DeathInv, CallsAsWindowsSee, UNCHANGED <<windowVars, exits, announced, told>>,
           \A x \in Spawns : spawn[x] # None /\ spawn[x].answered => spawn'[x].at = spawn[x].at
    PROVE  DeathInv'
  <1> USE DEF DeathInv, CallsAsWindowsSee, windowVars
  <1>1. AnsweredIsOver'
    BY DEF AnsweredIsOver
  <1>2. AwaitedExitIsKept'
    BY DEF AwaitedExitIsKept, Id
  <1>3. LiveUntilTold'
    BY DEF LiveUntilTold, Id, At
  <1> QED BY <1>1, <1>2, <1>3

\* The steps of a spawn are those of a call not yet answered.
LEMMA SpawnStepKeepsDeath ==
    ASSUME ChildInv, DeathInv, NEW x \in Spawns, Begin(x) \/ SpawnFails(x) \/ Fork(x) \/ Install(x)
    PROVE  DeathInv'
  <1>1. spawn[x] # None /\ ~spawn[x].answered
    BY DEF Begin, SpawnFails, Fork, Install, At, DeathInv, AnsweredIsOver
  <1>2. \A y \in Spawns : y # x => spawn'[y] = spawn[y]
    BY DEF Begin, SpawnFails, Fork, Install, ChildInv, Typed
  <1>3. CallsAsWindowsSee
    BY BeginKeeps, FailOrForkKeeps, InstallKeeps DEF ChildInv
  <1>4. UNCHANGED <<windowVars, exits, announced, told>>
    BY DEF Begin, SpawnFails, Fork, Install, childPast
  <1> QED BY <1>1, <1>2, <1>3, <1>4, QuietForDeath

LEMMA OpenKeepsDeath ==
    ASSUME ChildInv, DeathInv, NEW w \in Windows, NEW i \in ChildIds, NEW x \in Spawns, Open(w, i, x)
    PROVE  DeathInv'
  <1> DEFINE q == [id |-> i, win |-> w, epoch |-> 0, gen |-> 0, answered |-> FALSE, at |-> "called"]
  <1>1. /\ spawn[x] = None /\ spawn' = [spawn EXCEPT ![x] = q] /\ UNCHANGED <<exits, announced, told>>
        /\ parked' = [parked EXCEPT ![w][i] = {}]
    BY DEF Open, childPast
  <1>2. q.id = i /\ q.win = w /\ q.at = "called" /\ ~q.answered
    OBVIOUS
  <1> HIDE DEF q
  <1>3. spawn'[x] = q /\ \A y \in Spawns : y # x => spawn'[y] = spawn[y]
    BY <1>1 DEF ChildInv, Typed
  <1>4. Cleared(w, i, x)
    <2>1. Clears(w, i, x)
      BY DEF Open, Clears
    <2> QED BY <2>1, EntriesCleared
  <1>5. \A u \in Windows, j \in ChildIds : u # w \/ j # i => parked'[u][j] = parked[u][j]
    BY <1>1, EntrySet DEF ChildInv, Typed
  <1>6. x \notin announced
    BY <1>1 DEF ChildInv, WindowInv, AnnouncedWasChild, At
  <1>7. AnsweredIsOver'
    BY <1>2, <1>3 DEF DeathInv, AnsweredIsOver
  <1>8. ASSUME NEW y \in Spawns, y # x, spawn[y] # None, watch'[spawn[y].win][Id(y)] = y
        PROVE  LET u == spawn[y].win
                   j == Id(y)
               IN  watch[u][j] = y /\ livePid'[u][j] = livePid[u][j] /\ parked'[u][j] = parked[u][j]
    BY <1>4, <1>5, <1>8, SpawnIsCall DEF ChildInv, Cleared
  <1>9. AwaitedExitIsKept'
    BY <1>1, <1>2, <1>3, <1>4, <1>6, <1>8 DEF DeathInv, AwaitedExitIsKept, Id, Cleared
  <1>10. LiveUntilTold'
    BY <1>1, <1>2, <1>3, <1>8 DEF DeathInv, LiveUntilTold, Id, At
  <1> QED BY <1>7, <1>9, <1>10 DEF DeathInv

\* An answer makes its process the current one, or tells its parked exit.
LEMMA SpawnAnswersKeepsDeath ==
    ASSUME ChildInv, DeathInv, NEW x \in Spawns, SpawnAnswers(x)
    PROVE  DeathInv'
  <1> DEFINE w == spawn[x].win
             i == Id(x)
  <1>1. /\ spawn[x] # None /\ spawn[x].at = "installed" /\ ~spawn[x].answered
        /\ spawn' = [spawn EXCEPT ![x].answered = TRUE] /\ Answered(w, i, x)
        /\ parked' = [parked EXCEPT ![w][i] = {}]
        /\ UNCHANGED <<watch, exits, announced>>
    BY DEF SpawnAnswers, At
  <1>2. w \in Windows /\ i \in ChildIds /\ watch[w][i] \in {x, None}
    BY <1>1, SpawnIsCall DEF ChildInv, WindowInv, AwaitedIsWatched
  <1>3. /\ \A y \in Spawns : y # x => spawn'[y] = spawn[y]
        /\ spawn'[x] # None /\ spawn'[x].answered
        /\ spawn'[x].id = spawn[x].id /\ spawn'[x].win = spawn[x].win /\ spawn'[x].at = spawn[x].at
    BY <1>1, AnsweredCall DEF ChildInv
  <1>4. \/ x \in parked[w][i] /\ (watch[w][i] = x => <<x, x>> \in told')
        \/ x \notin parked[w][i] /\ livePid' = [livePid EXCEPT ![w][i] = x]
    BY <1>1, ChildAssumption DEF Answered
  <1>5. told \subseteq told' /\ \E v \in {x, None} : livePid' = [livePid EXCEPT ![w][i] = v]
    BY <1>1 DEF Answered
  <1>6. watch[w][i] = x /\ x \in announced => x \in exits[w] \/ x \in parked[w][i]
    BY <1>1 DEF DeathInv, AwaitedExitIsKept
  <1> HIDE DEF w, i
  <1>7. /\ \A u \in Windows, j \in ChildIds : u # w \/ j # i => livePid'[u][j] = livePid[u][j]
        /\ \A u \in Windows, j \in ChildIds : u # w \/ j # i => parked'[u][j] = parked[u][j]
    BY <1>1, <1>2, <1>5, EntrySet DEF ChildInv, Typed
  <1>8. watch[w][i] = x => <<x, x>> \in told' \/ (livePid'[w][i] = x /\ (x \in announced => x \in exits[w]))
    BY <1>2, <1>4, <1>6, EntrySet DEF ChildInv, Typed
  <1>9. ASSUME NEW y \in Spawns, y # x, spawn[y] # None, watch[spawn[y].win][Id(y)] = y
        PROVE  LET u == spawn[y].win
                   j == Id(y)
               IN  livePid'[u][j] = livePid[u][j] /\ parked'[u][j] = parked[u][j]
    BY <1>2, <1>7, <1>9, SpawnIsCall, ChildAssumption DEF ChildInv
  <1>10. AnsweredIsOver'
    BY <1>1, <1>3 DEF DeathInv, AnsweredIsOver
  <1>11. AwaitedExitIsKept'
    BY <1>1, <1>3, <1>9 DEF DeathInv, AwaitedExitIsKept, Id
  <1>12. LiveUntilTold'
    <2>1. ASSUME NEW y \in Spawns, At(y, {"installed"})', spawn'[y].answered, watch'[spawn'[y].win][Id(y)'] = y
          PROVE  \/ <<y, y>> \in told'
                 \/ livePid'[spawn'[y].win][Id(y)'] = y /\ (y \in announced' => y \in exits'[spawn'[y].win])
      <3>1. CASE y = x
        BY <1>1, <1>3, <1>8, <2>1, <3>1 DEF w, i, Id
      <3>2. CASE y # x
        BY <1>1, <1>3, <1>5, <1>9, <2>1, <3>2 DEF DeathInv, LiveUntilTold, Id, At
      <3> QED BY <3>1, <3>2
    <2> QED BY <2>1 DEF LiveUntilTold
  <1> QED BY <1>10, <1>11, <1>12 DEF DeathInv

\* A window that lets go of an id is owed nothing under it.
LEMMA LetGoKeepsDeath ==
    ASSUME ChildInv, DeathInv, NEW w \in Windows, NEW i \in ChildIds, LetGo(w, i),
           UNCHANGED <<exits, announced, told>>,
           \A x \in Spawns :
             /\ spawn'[x] = None <=> spawn[x] = None
             /\ spawn[x] # None =>
                  /\ spawn'[x].id = spawn[x].id /\ spawn'[x].win = spawn[x].win /\ spawn'[x].at = spawn[x].at
                  /\ \/ spawn'[x].answered = spawn[x].answered
                     \/ spawn[x].win = w /\ Id(x) = i /\ spawn[x].at \in {"failed", "cancelled"}
    PROVE  DeathInv'
  <1>1. Cleared(w, i, None)
    BY LetGoClears
  <1>2. \A u \in Windows, j \in ChildIds : u # w \/ j # i => parked'[u][j] = parked[u][j]
    BY EntrySet DEF ChildInv, Typed, LetGo
  <1>3. ASSUME NEW x \in Spawns, spawn[x] # None, watch'[spawn[x].win][Id(x)] = x
        PROVE  LET u == spawn[x].win
                   j == Id(x)
               IN  /\ watch[u][j] = x /\ livePid'[u][j] = livePid[u][j] /\ parked'[u][j] = parked[u][j]
                   /\ spawn'[x].answered = spawn[x].answered
    BY <1>1, <1>2, <1>3, SpawnIsCall, ChildAssumption DEF ChildInv, Cleared
  <1>4. AnsweredIsOver'
    BY DEF DeathInv, AnsweredIsOver
  <1>5. AwaitedExitIsKept'
    BY <1>3 DEF DeathInv, AwaitedExitIsKept, Id
  <1>6. LiveUntilTold'
    BY <1>3 DEF DeathInv, LiveUntilTold, Id, At
  <1> QED BY <1>4, <1>5, <1>6 DEF DeathInv

LEMMA RejectOrStopKeepsDeath ==
    ASSUME ChildInv, DeathInv,
           \/ \E x \in Spawns : SpawnRejects(x)
           \/ \E w \in Windows, i \in ChildIds : Stop(w, i)
    PROVE  DeathInv'
  <1>1. ASSUME NEW x \in Spawns, SpawnRejects(x) PROVE DeathInv'
    <2>1. /\ spawn[x] # None /\ spawn[x].at \in {"failed", "cancelled"}
          /\ spawn' = [spawn EXCEPT ![x].answered = TRUE] /\ LetGo(spawn[x].win, Id(x))
          /\ UNCHANGED <<exits, announced, told>>
      BY <1>1 DEF SpawnRejects, At, childPast
    <2>2. spawn[x].win \in Windows /\ Id(x) \in ChildIds
      BY <2>1, SpawnIsCall DEF ChildInv
    <2>3. /\ \A y \in Spawns : y # x => spawn'[y] = spawn[y]
          /\ spawn'[x] # None /\ spawn'[x].id = spawn[x].id /\ spawn'[x].win = spawn[x].win
          /\ spawn'[x].at = spawn[x].at
      BY <2>1, AnsweredCall DEF ChildInv
    <2>4. PICK w \in Windows, i \in ChildIds : w = spawn[x].win /\ i = Id(x)
      BY <2>2
    <2>5. \A y \in Spawns :
            /\ spawn'[y] = None <=> spawn[y] = None
            /\ spawn[y] # None =>
                 /\ spawn'[y].id = spawn[y].id /\ spawn'[y].win = spawn[y].win /\ spawn'[y].at = spawn[y].at
                 /\ \/ spawn'[y].answered = spawn[y].answered
                    \/ spawn[y].win = w /\ Id(y) = i /\ spawn[y].at \in {"failed", "cancelled"}
      BY <2>1, <2>3, <2>4
    <2>6. LetGo(w, i) /\ UNCHANGED <<exits, announced, told>>
      BY <2>1, <2>4
    <2> QED BY <2>5, <2>6, LetGoKeepsDeath
  <1>2. ASSUME NEW w \in Windows, NEW i \in ChildIds, Stop(w, i) PROVE DeathInv'
    BY <1>2, LetGoKeepsDeath DEF Stop, childPast
  <1> QED BY <1>1, <1>2

\* An exit of a process the window still watches is told, or parked where
\* there is room for it.
LEMMA DeliverExitKeepsDeath ==
    ASSUME ChildInv, DeathInv, ParkedHasRoom, NEW w \in Windows, NEW x \in Spawns, DeliverExit(w, x)
    PROVE  DeathInv'
  <1> DEFINE i == Id(x)
  <1>1. /\ x \in exits[w] /\ exits' = [exits EXCEPT ![w] = @ \ {x}]
        /\ UNCHANGED <<spawn, watch, announced>> /\ told \subseteq told'
    BY DEF DeliverExit
  <1>2. spawn[x] # None /\ i \in ChildIds
    BY <1>1, SpawnIsCall DEF ChildInv, WindowInv, AnnouncedWasChild, At
  <1>3. \/ /\ watch[w][i] # None /\ livePid[w][i] = x
           /\ livePid' = [livePid EXCEPT ![w][i] = None]
           /\ <<watch[w][i], x>> \in told' /\ parked' = parked
        \/ livePid[w][i] # x /\ parked' = [parked EXCEPT ![w][i] = @ \cup {x}] /\ UNCHANGED <<livePid, told>>
        \/ /\ watch[w][i] = None \/ (livePid[w][i] # x /\ livePid[w][i] # None)
           /\ UNCHANGED <<livePid, parked, told>>
    BY <1>2 DEF DeliverExit, IsCurrentExit, ParkedHasRoom, Park
  <1> HIDE DEF i
  <1>4. /\ exits'[w] = exits[w] \ {x}
        /\ \A u \in Windows : u # w => exits'[u] = exits[u]
    BY <1>1 DEF ChildInv, Typed
  <1>5. /\ livePid' = livePid \/ (livePid[w][i] = x /\ watch[w][i] = x /\ <<x, x>> \in told' /\ livePid'[w][i] = None)
        /\ \A u \in Windows, j \in ChildIds : u # w \/ j # i => livePid'[u][j] = livePid[u][j]
    <2>1. ASSUME watch[w][i] # None, livePid[w][i] = x PROVE watch[w][i] = x
      BY <1>2, <2>1, ChildAssumption DEF ChildInv, WindowInv, LiveIsWatched
    <2>2. CASE livePid' = [livePid EXCEPT ![w][i] = None]
      <3>1. /\ livePid'[w][i] = None
            /\ \A u \in Windows, j \in ChildIds : u # w \/ j # i => livePid'[u][j] = livePid[u][j]
        BY <1>2, <2>2, EntrySet DEF ChildInv, Typed
      <3>2. livePid' = livePid \/ (livePid[w][i] = x /\ watch[w][i] = x /\ <<x, x>> \in told')
        BY <1>3, <2>1
      <3> QED BY <3>1, <3>2
    <2> QED BY <1>3, <2>2
  <1>6. \A u \in Windows, j \in ChildIds : parked[u][j] \subseteq parked'[u][j]
    BY <1>2, <1>3 DEF ChildInv, Typed
  <1>7. watch[w][i] = x /\ livePid[w][i] = None => x \in parked'[w][i]
    BY <1>2, <1>3, ChildAssumption DEF ChildInv, Typed
  <1>8. AnsweredIsOver'
    BY <1>1 DEF DeathInv, AnsweredIsOver
  <1>9. AwaitedExitIsKept'
    <2>1. ASSUME NEW y \in Spawns, spawn[y] # None, ~spawn[y].answered, watch[spawn[y].win][Id(y)] = y
          PROVE  /\ livePid'[spawn[y].win][Id(y)] = None
                 /\ y \in announced => y \in exits'[spawn[y].win] \/ y \in parked'[spawn[y].win][Id(y)]
      <3>1. /\ spawn[y].win \in Windows /\ Id(y) \in ChildIds /\ livePid[spawn[y].win][Id(y)] = None
            /\ y \in announced => y \in exits[spawn[y].win] \/ y \in parked[spawn[y].win][Id(y)]
        BY <2>1, SpawnIsCall DEF ChildInv, DeathInv, AwaitedExitIsKept
      <3>2. livePid'[spawn[y].win][Id(y)] = None
        BY <1>5, <3>1
      <3>3. CASE y = x /\ spawn[y].win = w
        BY <1>7, <2>1, <3>1, <3>2, <3>3 DEF i
      <3>4. CASE y # x \/ spawn[y].win # w
        BY <1>4, <1>6, <3>1, <3>2, <3>4
      <3> QED BY <3>3, <3>4
    <2> QED BY <1>1, <2>1 DEF AwaitedExitIsKept, Id
  <1>10. LiveUntilTold'
    <2>1. ASSUME NEW y \in Spawns, At(y, {"installed"}), spawn[y].answered, watch[spawn[y].win][Id(y)] = y
          PROVE  \/ <<y, y>> \in told'
                 \/ /\ livePid'[spawn[y].win][Id(y)] = y
                    /\ y \in announced => y \in exits'[spawn[y].win]
      <3>1. /\ spawn[y].win \in Windows /\ Id(y) \in ChildIds
            /\ \/ <<y, y>> \in told
               \/ /\ livePid[spawn[y].win][Id(y)] = y
                  /\ y \in announced => y \in exits[spawn[y].win]
        BY <2>1, SpawnIsCall DEF ChildInv, DeathInv, LiveUntilTold, At
      <3>2. CASE <<y, y>> \in told
        BY <1>1, <3>2
      <3>3. CASE /\ livePid[spawn[y].win][Id(y)] = y /\ y = x /\ spawn[y].win = w
        BY <1>2, <1>3, <2>1, <3>3, ChildAssumption DEF i
      <3>4. CASE /\ livePid[spawn[y].win][Id(y)] = y /\ (y # x \/ spawn[y].win # w)
                 /\ y \in announced => y \in exits[spawn[y].win]
        BY <1>4, <1>5, <3>1, <3>4
      <3> QED BY <3>1, <3>2, <3>3, <3>4
    <2> QED BY <1>1, <2>1 DEF LiveUntilTold, Id, At
  <1> QED BY <1>8, <1>9, <1>10 DEF DeathInv

\* What is announced is on its way to every window.
LEMMA ReapKeepsDeath ==
    ASSUME ChildInv, DeathInv, NEW x \in Spawns, Reap(x)
    PROVE  DeathInv'
  <1>1. UNCHANGED <<spawn, watch, livePid, parked, told>>
    BY DEF Reap, windowVars
  <1>2. \/ exits' = [w \in Windows |-> exits[w] \cup {x}] /\ announced' = announced \cup {x}
        \/ UNCHANGED <<exits, announced>>
    BY DEF Reap
  <1>3. \A y \in Spawns, w \in Windows : y \in announced' => (y \in announced \/ y \in exits'[w]) /\ exits[w] \subseteq exits'[w]
    BY <1>2
  <1>4. \A y \in Spawns : spawn[y] # None => spawn[y].win \in Windows
    BY SpawnIsCall DEF ChildInv
  <1>5. AnsweredIsOver' /\ AwaitedExitIsKept'
    BY <1>1, <1>3, <1>4 DEF DeathInv, AnsweredIsOver, AwaitedExitIsKept, Id
  <1>6. LiveUntilTold'
    BY <1>1, <1>3, <1>4 DEF DeathInv, LiveUntilTold, Id, At
  <1> QED BY <1>5, <1>6 DEF DeathInv

LEMMA NextKeepsDeathInv == ChildInv /\ DeathInv /\ ParkedHasRoom /\ [ChildNext]_childVars => DeathInv'
  <1> SUFFICES ASSUME ChildInv, DeathInv, ParkedHasRoom, [ChildNext]_childVars PROVE DeathInv'
    OBVIOUS
  <1>1. ASSUME UNCHANGED <<spawn, windowVars, exits, announced, told>> PROVE DeathInv'
    BY <1>1, QuietForDeath DEF CallsAsWindowsSee
  <1>2. ASSUME NEW x \in Spawns, Dies(x) PROVE DeathInv'
    BY <1>1, <1>2 DEF Dies, childPast
  <1>3. ASSUME NEW i \in ChildIds, HandleKill(i) PROVE DeathInv'
    BY <1>1, <1>3 DEF HandleKill
  <1>4. CASE Quit \/ RemoveAccount
    BY <1>1, <1>4 DEF Quit, RemoveAccount
  <1>5. ASSUME NEW w \in Windows, NEW x \in Spawns, Hears(w, x) PROVE DeathInv'
    BY <1>1, <1>5 DEF Hears
  <1>6. CASE UNCHANGED childVars
    BY <1>1, <1>6 DEF childVars, childPast
  <1> QED BY <1>2, <1>3, <1>4, <1>5, <1>6, SpawnStepKeepsDeath, OpenKeepsDeath, SpawnAnswersKeepsDeath,
             RejectOrStopKeepsDeath, DeliverExitKeepsDeath, ReapKeepsDeath DEF ChildNext

\* An announced exit reaches the handler of its process, before the spawn's
\* answer or after, as long as an exit that has to be parked finds a free place:
\* when there is none the code drops the oldest exit, whosever it is
\* (child.ts:146-161, 316-324).
THEOREM DeathIsToldWhileThereIsRoom == ChildSpec /\ []ParkedHasRoom => []DeathIsTold
  <1>1. ChildInit => DeathInv
    BY DEF ChildInit, DeathInv, AnsweredIsOver, AwaitedExitIsKept, LiveUntilTold, At
  <1>2. ChildInv /\ DeathInv /\ ParkedHasRoom /\ [ChildNext]_childVars => DeathInv'
    BY NextKeepsDeathInv
  <1>3. ChildInv /\ DeathInv => DeathIsTold
    BY DEF ChildInv, Typed, WindowInv, AnnouncedWasChild, DeathInv, LiveUntilTold, DeathIsTold
  <1> QED BY <1>1, <1>2, <1>3, ChildInvariance, PTL DEF ChildSpec
=============================================================================

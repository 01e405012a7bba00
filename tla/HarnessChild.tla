---------------------------- MODULE HarnessChild ----------------------------
(***************************************************************************)
(* The provider processes of the desktop app: the registry of children in   *)
(* src-tauri/src/harness.rs (HarnessHost), which every window shares, and    *)
(* each window's side of it in integrations/harness/core/child.ts.           *)
(*                                                                          *)
(* A child is known by an id: that of its session, or a fixed one such as    *)
(* "avenrail-codex-text", which the text generators of all windows share.    *)
(* Commands run on a thread pool and their answers, like events, reach a     *)
(* window in any order.                                                      *)
(*                                                                          *)
(* Abstractions.  A spawn and the process it forks have one name; a process  *)
(* prints lines, which its reader thread may pass on at any time.    Every  *)
(* adapter watches an id and spawns in one synchronous stretch, so the       *)
(* buffer for lines nobody watches is left out, and so are stdin, stderr and *)
(* the SSE streams.                                                          *)
(***************************************************************************)
EXTENDS Desktop, Naturals, FiniteSets

CONSTANTS
    Windows,      \* windows of the app
    ChildIds,     \* ids children are spawned under
    Spawns,       \* calls of harness_spawn, each with the process it forks
    OnAccount,    \* those that run under a provider account
    MaxParked,    \* exits kept for a spawn that has not answered (8 in the code)
    MaxStops,     \* times an adapter stops a child of its own accord
    MaxRemovals,  \* provider accounts removed
    MaxLines      \* lines of stdout looked at

ASSUME ChildAssumption ==
    /\ OnAccount \subseteq Spawns /\ None \notin Spawns
    /\ MaxParked \in Nat \ {0} /\ MaxStops \in Nat /\ MaxRemovals \in Nat /\ MaxLines \in Nat

VARIABLES
    \* HarnessHost.
    children,    \* id -> the installed child
    epochs,      \* id -> bumped by every spawn and every kill
    killAllGen,  \* bumped by kill_all
    spawn,       \* spawn -> the call in progress or finished
    process,     \* spawn -> its process
    kills,       \* id -> harness_kill commands not yet run
    \* Each window.
    watch,       \* window -> id -> the spawn its handlers were set for
    livePid,     \* window -> id -> the process it believes to be current
    parked,      \* window -> id -> exits that came before the spawn's answer
    exits,       \* window -> exit events and stdout lines on their way to it
    quitting,    \* the app is on its way out
    \* History, read by the properties only.
    overtaken,   \* spawns a kill or a newer spawn caught before they installed
    expelled,    \* processes ended because their account was removed
    announced,   \* processes whose exit was emitted
    told,        \* (spawn whose handler ran, process whose exit it was told of)
    heard,       \* (spawn whose handler ran, process whose line it was given)
    \* Bounds of the model.
    stops, removals

hostVars   == <<children, epochs, killAllGen>>
windowVars == <<watch, livePid, parked>>
childPast  == <<overtaken, expelled, announced, told, heard>>
childVars  == <<hostVars, spawn, process, kills, windowVars, exits, quitting, childPast, stops, removals>>

Call == [id : ChildIds, win : Windows, epoch : Nat, gen : Nat, answered : BOOLEAN,
         at : {"called", "begun", "forked", "installed", "cancelled", "failed"}]

ASSUME CallAssumption == None \notin Call

ChildTypeOK ==
    /\ children \in [ChildIds -> Spawns \cup {None}] /\ epochs \in [ChildIds -> Nat] /\ killAllGen \in Nat
    /\ spawn \in [Spawns -> Call \cup {None}]
    /\ process \in [Spawns -> {"none", "alive", "signalled", "dead", "reaped"}]
    /\ kills \in [ChildIds -> Nat]
    /\ watch \in [Windows -> [ChildIds -> Spawns \cup {None}]]
    /\ livePid \in [Windows -> [ChildIds -> Spawns \cup {None}]]
    /\ parked \in [Windows -> [ChildIds -> SUBSET Spawns]]
    /\ \A w \in Windows, i \in ChildIds : Cardinality(parked[w][i]) <= MaxParked
    /\ exits \in [Windows -> SUBSET Spawns]

ChildInit ==
    /\ children = [i \in ChildIds |-> None] /\ epochs = [i \in ChildIds |-> 0] /\ killAllGen = 0
    /\ spawn = [x \in Spawns |-> None] /\ process = [x \in Spawns |-> "none"]
    /\ kills = [i \in ChildIds |-> 0]
    /\ watch = [w \in Windows |-> [i \in ChildIds |-> None]]
    /\ livePid = [w \in Windows |-> [i \in ChildIds |-> None]]
    /\ parked = [w \in Windows |-> [i \in ChildIds |-> {}]]
    /\ exits = [w \in Windows |-> {}]
    /\ quitting = FALSE
    /\ overtaken = {} /\ expelled = {} /\ announced = {} /\ told = {} /\ heard = {}
    /\ stops = 0 /\ removals = 0

(*************************** HarnessHost ***********************************)
At(x, places)  == spawn[x] # None /\ spawn[x].at \in places
Id(x)          == spawn[x].id
Pending(i)     == {x \in Spawns : At(x, {"begun", "forked"}) /\ Id(x) = i}
Signal(some)   == [x \in Spawns |-> IF x \in some /\ process[x] = "alive" THEN "signalled" ELSE process[x]]
Installed(i)   == {x \in Spawns : children[i] = x}

\* begin_spawn: stamp the spawn, drop and terminate the child of that id.
Replaced(i) == Signal(Installed(i))
Begin(x) ==
    /\ At(x, {"called"})
    /\ LET i == Id(x) IN
       /\ epochs' = [epochs EXCEPT ![i] = @ + 1]
       /\ children' = [children EXCEPT ![i] = None]
       /\ process' = Replaced(i)
       /\ spawn' = [spawn EXCEPT ![x].at = "begun", ![x].epoch = epochs[i] + 1, ![x].gen = killAllGen]
       /\ overtaken' = overtaken \cup Pending(i)
    /\ UNCHANGED <<killAllGen, kills, windowVars, exits, quitting, expelled, announced, told, heard, stops, removals>>

\* The working directory is missing, the binary unknown; or the fork fails.
SpawnFails(x) ==
    /\ At(x, {"called", "begun"})
    /\ spawn' = [spawn EXCEPT ![x].at = "failed"]
    /\ UNCHANGED <<hostVars, process, kills, windowVars, exits, quitting, childPast, stops, removals>>

Fork(x) ==
    /\ At(x, {"begun"})
    /\ spawn' = [spawn EXCEPT ![x].at = "forked"]
    /\ process' = [process EXCEPT ![x] = "alive"]
    /\ UNCHANGED <<hostVars, kills, windowVars, exits, quitting, childPast, stops, removals>>

\* install_spawn: only if nothing cancelled this spawn while it was forking.
StampCurrent_EpochOnly(x) == spawn[x].epoch = epochs[Id(x)]
StampCurrent(x) == spawn[x].gen = killAllGen /\ spawn[x].epoch = epochs[Id(x)]
Install(x) ==
    /\ At(x, {"forked"})
    /\ IF StampCurrent(x)
       THEN /\ children' = [children EXCEPT ![Id(x)] = x]
            /\ spawn' = [spawn EXCEPT ![x].at = "installed"]
            /\ process' = Signal(Installed(Id(x)))
       ELSE /\ spawn' = [spawn EXCEPT ![x].at = "cancelled"]
            /\ process' = Signal({x})
            /\ UNCHANGED children
    /\ UNCHANGED <<epochs, killAllGen, kills, windowVars, exits, quitting, childPast, stops, removals>>

\* kill_session, once for every harness_kill.
KillWaits(i) == kills[i] > 0
HandleKill(i) ==
    /\ KillWaits(i)
    /\ kills' = [kills EXCEPT ![i] = @ - 1]
    /\ epochs' = [epochs EXCEPT ![i] = @ + 1]
    /\ children' = [children EXCEPT ![i] = None]
    /\ process' = Signal(Installed(i))
    /\ overtaken' = overtaken \cup Pending(i)
    /\ UNCHANGED <<killAllGen, spawn, windowVars, exits, quitting, expelled, announced, told, heard, stops, removals>>

\* kill_all, on the way out: it returns once every child it knows is dead.
Quit ==
    /\ ~quitting /\ quitting' = TRUE
    /\ killAllGen' = killAllGen + 1
    /\ children' = [i \in ChildIds |-> None]
    /\ process' = [x \in Spawns |-> IF process[x] \in {"alive", "signalled"} /\ \E i \in ChildIds : children[i] = x
                                    THEN "dead" ELSE process[x]]
    /\ overtaken' = overtaken \cup UNION {Pending(i) : i \in ChildIds}
    /\ UNCHANGED <<epochs, spawn, kills, windowVars, exits, expelled, announced, told, heard, stops, removals>>

\* provider_account_remove: kill_account finds the installed children only.
RemoveAccount ==
    /\ removals < MaxRemovals /\ removals' = removals + 1
    /\ LET gone == {i \in ChildIds : children[i] \in OnAccount} IN
       /\ children' = [i \in ChildIds |-> IF i \in gone THEN None ELSE children[i]]
       /\ epochs' = [i \in ChildIds |-> IF i \in gone THEN epochs[i] + 1 ELSE epochs[i]]
       /\ process' = Signal({children[i] : i \in gone})
       /\ expelled' = expelled \cup {children[i] : i \in gone}
       /\ overtaken' = overtaken \cup UNION {Pending(i) : i \in gone}
    /\ UNCHANGED <<killAllGen, spawn, kills, windowVars, exits, quitting, announced, told, heard, stops>>

Dies(x) ==
    /\ process[x] \in {"alive", "signalled"}
    /\ process' = [process EXCEPT ![x] = "dead"]
    /\ UNCHANGED <<hostVars, spawn, kills, windowVars, exits, quitting, childPast, stops, removals>>

\* The wait thread: only the installed child is taken out and announced.
IsInstalled(x) == children[Id(x)] = x
Reap(x) ==
    /\ process[x] = "dead" /\ At(x, {"installed", "cancelled"})
    /\ process' = [process EXCEPT ![x] = "reaped"]
    /\ IF At(x, {"installed"}) /\ IsInstalled(x)
       THEN /\ children' = [children EXCEPT ![Id(x)] = None]
            /\ exits' = [w \in Windows |-> exits[w] \cup {x}]
            /\ announced' = announced \cup {x}
       ELSE UNCHANGED <<children, exits, announced>>
    /\ UNCHANGED <<epochs, killAllGen, spawn, kills, windowVars, quitting, overtaken, expelled, told, heard, stops, removals>>

(*************************** One window ************************************)
\* An adapter opens an id it has no child under: watchChild, then spawnChild.
Open(w, i, x) ==
    /\ ~quitting /\ spawn[x] = None
    /\ \A y \in Spawns : spawn[y] # None /\ spawn[y].win = w /\ Id(y) = i => spawn[y].answered
    /\ \/ watch[w][i] = None
       \/ \E p \in told : p[1] = watch[w][i]
    /\ watch' = [watch EXCEPT ![w][i] = x]
    /\ livePid' = [livePid EXCEPT ![w][i] = None]
    /\ parked' = [parked EXCEPT ![w][i] = {}]
    /\ spawn' = [spawn EXCEPT ![x] = [id |-> i, win |-> w, epoch |-> 0, gen |-> 0, answered |-> FALSE, at |-> "called"]]
    /\ UNCHANGED <<hostVars, process, kills, exits, quitting, childPast, stops, removals>>

\* spawnChild goes on with the pid, and with an exit that came before it.
Answered(w, i, x) ==
    IF x \in parked[w][i]
    THEN /\ livePid' = [livePid EXCEPT ![w][i] = None]
         /\ told' = IF watch[w][i] = None THEN told ELSE told \cup {<<watch[w][i], x>>}
    ELSE /\ livePid' = [livePid EXCEPT ![w][i] = x]
         /\ UNCHANGED told
SpawnAnswers(x) ==
    /\ At(x, {"installed"}) /\ ~spawn[x].answered
    /\ spawn' = [spawn EXCEPT ![x].answered = TRUE]
    /\ Answered(spawn[x].win, Id(x), x)
    /\ parked' = [parked EXCEPT ![spawn[x].win][Id(x)] = {}]
    /\ UNCHANGED <<hostVars, process, kills, watch, exits, quitting, overtaken, expelled, announced, heard, stops, removals>>

\* unwatchChild, then killChild.
LetGo(w, i) ==
    /\ watch' = [watch EXCEPT ![w][i] = None]
    /\ livePid' = [livePid EXCEPT ![w][i] = None]
    /\ parked' = [parked EXCEPT ![w][i] = {}]
    /\ kills' = [kills EXCEPT ![i] = @ + 1]

\* A spawn that failed or was cancelled: the adapter stops the session.
SpawnRejects(x) ==
    /\ At(x, {"failed", "cancelled"}) /\ ~spawn[x].answered
    /\ spawn' = [spawn EXCEPT ![x].answered = TRUE]
    /\ LetGo(spawn[x].win, Id(x))
    /\ UNCHANGED <<hostVars, process, exits, quitting, childPast, stops, removals>>

Stop(w, i) ==
    /\ stops < MaxStops /\ stops' = stops + 1
    /\ watch[w][i] # None
    /\ LetGo(w, i)
    /\ UNCHANGED <<hostVars, spawn, process, exits, quitting, childPast, removals>>

\* The "harness-exit" listener.
IsCurrentExit_AnyPid(w, i, x) == livePid[w][i] # None
IsCurrentExit(w, i, x) == livePid[w][i] = x
Park_Drops(w, i, x) == parked[w][i]
Park(w, i, x) == IF Cardinality(parked[w][i]) < MaxParked THEN parked[w][i] \cup {x}
                 ELSE (parked[w][i] \ {CHOOSE y \in parked[w][i] : TRUE}) \cup {x}
DeliverExit(w, x) ==
    LET i == Id(x) IN
    /\ x \in exits[w] /\ exits' = [exits EXCEPT ![w] = @ \ {x}]
    /\ \/ /\ watch[w][i] = None
          /\ UNCHANGED <<livePid, parked, told>>
       \/ /\ watch[w][i] # None /\ IsCurrentExit(w, i, x)
          /\ livePid' = [livePid EXCEPT ![w][i] = None]
          /\ told' = told \cup {<<watch[w][i], x>>}
          /\ UNCHANGED parked
       \/ /\ watch[w][i] # None /\ ~IsCurrentExit(w, i, x) /\ livePid[w][i] # None
          /\ UNCHANGED <<livePid, parked, told>>
       \/ /\ watch[w][i] # None /\ ~IsCurrentExit(w, i, x) /\ livePid[w][i] = None
          /\ parked' = [parked EXCEPT ![w][i] = Park(w, i, x)]
          /\ UNCHANGED <<livePid, told>>
    /\ UNCHANGED <<hostVars, spawn, process, kills, watch, quitting, overtaken, expelled, announced, heard, stops, removals>>

\* The reader thread tags a line with the id, not with the process, and passes
\* it on whenever it gets to it; the "harness-stdout" listener looks up the id.
Hears(w, x) ==
    /\ Cardinality(heard) < MaxLines
    /\ At(x, {"installed"}) /\ watch[w][Id(x)] # None
    /\ heard' = heard \cup {<<watch[w][Id(x)], x>>}
    /\ UNCHANGED <<hostVars, spawn, process, kills, windowVars, exits, quitting, overtaken, expelled, announced, told, stops, removals>>

ChildNext ==
    \/ \E x \in Spawns : Begin(x) \/ SpawnFails(x) \/ Fork(x) \/ Install(x) \/ SpawnAnswers(x) \/ SpawnRejects(x)
                         \/ Dies(x) \/ Reap(x)
    \/ \E i \in ChildIds : HandleKill(i)
    \/ Quit \/ RemoveAccount
    \/ \E w \in Windows, i \in ChildIds : Stop(w, i) \/ \E x \in Spawns : Open(w, i, x)
    \/ \E w \in Windows, x \in Spawns : DeliverExit(w, x) \/ Hears(w, x)

ChildSpec == ChildInit /\ [][ChildNext]_childVars

(*************************** Properties ************************************)
\* No process is left behind: one that runs and was not told to end is the
\* child of its id, or is about to ask to be (harness.rs:180-198, 884-897).
NoOrphans ==
    \A x \in Spawns : process[x] = "alive" => At(x, {"forked"}) \/ children[Id(x)] = x

\* A kill wins over the spawn it caught while forking, and so do kill_all and a
\* newer spawn of the id: that spawn is never installed and never answers its
\* pid (HarnessHost::epochs, kill_all_gen; tests harness.rs:3104-3149).
OvertakenStaysDown == \A x \in overtaken : ~At(x, {"installed"})

\* The bookkeeping of HarnessHost has its types, loses no process and takes in
\* none that was overtaken.  So a second process runs under an id only while it
\* is being killed or has yet to look whether it was overtaken
\* (harness.rs:162-245).
OneChildRuns == ChildTypeOK /\ NoOrphans /\ OvertakenStaysDown

\* A handler is told of the exit of its own process only, whatever the order of
\* exits, answers, replacements and windows (child.ts:82-89, 146-161).
ExitIsOwn == \A p \in told : p[1] = p[2]

\* An announced exit is not lost: once the spawn has answered and the event has
\* arrived, the window that still watches that process has been told, even if
\* the event came first (child.ts:316-324).
DeathIsTold ==
    \A x \in announced : LET w == spawn[x].win IN
        spawn[x].answered /\ x \notin exits[w] /\ watch[w][Id(x)] = x => <<x, x>> \in told

\* A watcher is given the lines of its own process only; what the rejection of
\* an overtaken spawn is for (harness.rs:887-891), and what the tests say of a
\* stopped child's late output (child.test.ts:210, 287).
LinesOfOwnChild == \A p \in heard : p[1] = p[2]

\* A turn stops with its account: when the child of a removed account is gone
\* and nothing more is on its way, its window does not go on waiting for it
\* (SettingsView.tsx:3285).
RemovedAccountIsNoticed ==
    \A x \in expelled : LET w == spawn[x].win IN
        process[x] = "reaped" /\ spawn[x].answered /\ x \notin exits[w] /\ watch[w][Id(x)] = x => <<x, x>> \in told
=============================================================================

---------------------------- MODULE AppQuitProofs -----------------------------
(***************************************************************************)
(* The app exits with the user's consent and with everybody's work saved, a  *)
(* page that stays goes back to saving on unload, and what the app leaves     *)
(* behind names the chats the next start must continue.                     *)
(*                                                                          *)
(* The coordinator decides for all windows from answers that are out of date *)
(* when it reads them, so the argument follows an answer from the page to   *)
(* the decision: the turns of a window that said it had none all began       *)
(* after it said so (Told, Agreed); a window that said it had saved has     *)
(* saved (Kept); and an event on its way to a page is followed by the one    *)
(* that takes it back (Recalled).  What makes a late answer harmless is     *)
(* that quits are numbered: whatever is on its way names an older one       *)
(* (Numbered).                                                              *)
(*                                                                          *)
(* The only window has one thing out for the quit, a commit to hear, a save *)
(* or an answer (CutKept), and its writes of the table end with the chats   *)
(* it runs (TableKept); a window that never was wrote nothing (PagesWrite). *)
(***************************************************************************)
EXTENDS AppQuit, SequenceTheorems, FiniteSetTheorems, TLAPS

EventKind == {"poll", "confirm", "commit", "aborted"}
Events == [kind : EventKind, id : QuitIds]
Saves  == [id : QuitIds, at : {"boot", "transcripts", "rows"}, refs : SUBSET Chats, shown : SUBSET Chats]
Writes == [refs : SUBSET Chats, id : QuitIds \cup {0}]
Replies == [from : AppWindows, kind : {"reply"}, id : QuitIds, value : Nat]
Yeses  == [from : AppWindows, kind : {"decision", "ready"}, id : QuitIds, value : BOOLEAN]
Lives  == {"none", "loading", "booting", "open", "closed"}

\* The pages: what a window shows and runs, only once it is open.
PagesOK ==
    /\ life \in [AppWindows -> Lives]
    /\ tabs \in [AppWindows -> SUBSET Chats] /\ busy \in [AppWindows -> SUBSET Chats]
    /\ owing \in [AppWindows -> SUBSET Chats]
    /\ unsynced \in [AppWindows -> BOOLEAN] /\ rowKey \in [AppWindows -> (SUBSET Chats) \cup {None}]
    /\ \A w \in AppWindows :
           /\ busy[w] \subseteq tabs[w] /\ owing[w] \subseteq tabs[w] /\ busy[w] \cap owing[w] = {}
           /\ life[w] # "open" => busy[w] = {}

\* What the pages have to hear, to save and to write.
QueuesOK ==
    /\ quitting \in [AppWindows -> BOOLEAN] /\ dialog \in [AppWindows -> QuitIds \cup {None}]
    /\ heard \in [AppWindows -> Seq(Events)]
    /\ saving \in [AppWindows -> SUBSET Saves]
    /\ rowWrites \in [AppWindows -> Seq(Writes)]
    /\ rows \subseteq Chats /\ shot \subseteq Chats /\ marked \subseteq Chats

\* The coordinator: a stage has the windows it waits for.
StageOK(r) ==
    /\ r.stage \in {"polling", "committing"} <=> r.pending # {}
    /\ r.stage = "polling" => r.pending \cap r.replied = {}
CoreOK ==
    /\ app \in {"running", "exited"}
    /\ run \in QuitRuns \cup {None} /\ (run # None => StageOK(run) /\ run.id = quits)
    /\ calls \subseteq Replies \cup Yeses
    /\ exit \in [why : {"none", "empty", "ready", "timeout"}, agreed : BOOLEAN]
    /\ quits \in Nat /\ happenings \in Nat /\ quits <= happenings /\ happenings <= MaxHappenings

\* Whatever is on its way names a quit that has begun.
Numbered ==
    /\ \A c \in calls : c.id <= quits
    /\ \A w \in AppWindows :
           /\ \A i \in DOMAIN heard[w] : heard[w][i].id <= quits
           /\ \A s \in saving[w] : s.id <= quits
           /\ dialog[w] # None => dialog[w] <= quits

TInv == PagesOK /\ QueuesOK /\ CoreOK /\ Numbered

\* The turns of w all began after it answered the last poll.
Told(w) == {w} \X busy[w] \subseteq after /\ (w \in answered \/ life[w] = "closed")
Agreed ==
    /\ polled \subseteq AppWindows
    /\ run # None =>
           /\ \A c \in calls : c.kind = "reply" /\ c.id = run.id /\ c.value = 0 => Told(c.from)
           /\ run.stage = "polling" /\ run.inFlight = 0 => \A w \in polled \ run.pending : Told(w)
           /\ run.stage = "committing" /\ ~exit.agreed => \A w \in polled : Told(w)
    /\ ExitIsAgreed

\* A window that says it saved for the quit under way did.
Kept ==
    /\ owed \subseteq AppWindows /\ \A w \in owed : life[w] # "none"
    /\ run # None =>
           /\ \A c \in calls : c.kind = "ready" /\ c.id = run.id /\ c.value = TRUE => c.from \in saved
           /\ run.stage = "committing" => (owed \cap Alive) \ run.pending \subseteq saved
    /\ ExitIsSaved

\* A page that a quit has told to save, or is about to tell, hears of it when
\* the quit is called off.
Committing == run # None /\ run.stage = "committing"
ToldBack(q, i) == \E j \in DOMAIN q : i < j /\ q[j].kind = "aborted"
Promised(q) == \A i \in DOMAIN q : q[i].kind = "commit" => ToldBack(q, i)
RecalledAt(w) ==
    /\ heard[w] # <<>> => w \in Listening
    /\ quitting[w] => life[w] = "open"
    /\ saving[w] # {} /\ life[w] # "open" => w \in early
    /\ Committing \/ Promised(heard[w])
    /\ quitting[w] /\ w \notin early => Committing \/ ToldBack(heard[w], 0)
Recalled == app = "running" => \A w \in AppWindows : RecalledAt(w)

-----------------------------------------------------------------------------
(* Counts and queues *)

\* A set of windows or of chats has a size, which is 0 only for none.
LEMMA Counted ==
    ASSUME NEW S, S \subseteq AppWindows \/ S \subseteq Chats
    PROVE  Cardinality(S) \in Nat /\ (Cardinality(S) = 0 <=> S = {})
  <1>1. IsFiniteSet(S)
    BY QuitAssumption, FS_Subset
  <1> QED BY <1>1, FS_CardinalityType, FS_EmptySet

\* An event joins a queue.
LEMMA Joined ==
    ASSUME NEW p \in Seq(Events), NEW e \in Events
    PROVE  /\ Append(p, e) \in Seq(Events) /\ Append(p, e) # <<>>
           /\ \A i \in DOMAIN Append(p, e) :
                (i \in DOMAIN p /\ Append(p, e)[i] = p[i]) \/ Append(p, e)[i] = e
           /\ \A i \in Nat : ToldBack(p, i) => ToldBack(Append(p, e), i)
           /\ e.kind = "aborted" =>
                ToldBack(Append(p, e), 0) /\ \A i \in DOMAIN p : ToldBack(Append(p, e), i)
           /\ e.kind = "aborted" =>
                \A i \in DOMAIN Append(p, e) :
                  Append(p, e)[i].kind = "commit" => ToldBack(Append(p, e), i)
  <1> PICK q : q = Append(p, e)
    OBVIOUS
  <1>1. /\ q \in Seq(Events) /\ Len(q) = Len(p) + 1 /\ Len(p) \in Nat
        /\ \A i \in 1 .. Len(p) : q[i] = p[i]
        /\ q[Len(p) + 1] = e
    BY AppendProperties
  <1>2. DOMAIN q = 1 .. Len(p) + 1 /\ DOMAIN p = 1 .. Len(p)
    BY <1>1
  <1>3. \A i \in DOMAIN q : (i \in DOMAIN p /\ q[i] = p[i]) \/ (i = Len(p) + 1 /\ q[i] = e)
    BY <1>1, <1>2
  <1>4. \A i \in Nat : ToldBack(p, i) => ToldBack(q, i)
    BY <1>1, <1>2 DEF ToldBack
  <1>5. ASSUME e.kind = "aborted"
        PROVE  ToldBack(q, 0) /\ \A i \in DOMAIN p : ToldBack(q, i)
    <2>1. Len(p) + 1 \in DOMAIN q /\ q[Len(p) + 1].kind = "aborted"
      BY <1>1, <1>2, <1>5
    <2>2. 0 < Len(p) + 1 /\ \A i \in DOMAIN p : i < Len(p) + 1
      BY <1>1, <1>2
    <2> QED BY <2>1, <2>2 DEF ToldBack
  <1>6. q # <<>>
    BY <1>1
  <1> QED BY <1>1, <1>3, <1>4, <1>5, <1>6

\* The first event leaves a queue.
LEMMA Left ==
    ASSUME NEW p \in Seq(Events), p # <<>>
    PROVE  /\ Tail(p) \in Seq(Events)
           /\ Head(p) \in Events /\ 1 \in DOMAIN p /\ p[1] = Head(p)
           /\ \A i \in DOMAIN Tail(p) : i + 1 \in DOMAIN p /\ Tail(p)[i] = p[i + 1]
           /\ \A i \in Nat : ToldBack(p, i + 1) => ToldBack(Tail(p), i)
           /\ ToldBack(p, 0) /\ Head(p).kind # "aborted" => ToldBack(Tail(p), 0)
  <1> PICK q : q = Tail(p)
    OBVIOUS
  <1>1. /\ q \in Seq(Events) /\ Len(q) = Len(p) - 1 /\ Len(p) \in Nat /\ Len(p) > 0
        /\ \A i \in 1 .. Len(q) : q[i] = p[i + 1]
    OBVIOUS
  <1>2. DOMAIN q = 1 .. Len(q) /\ DOMAIN p = 1 .. Len(p)
    BY <1>1
  <1>3. Head(p) = p[1] /\ 1 \in DOMAIN p /\ p[1] \in Events
    BY <1>1, <1>2
  <1>4. ASSUME NEW i \in DOMAIN q
        PROVE  i + 1 \in DOMAIN p /\ q[i] = p[i + 1]
    <2>1. i \in 1 .. Len(q)
      BY <1>2
    <2>2. q[i] = p[i + 1]
      BY <1>1, <2>1
    <2>3. i + 1 \in 1 .. Len(p)
      BY <1>1, <2>1
    <2> QED BY <1>2, <2>2, <2>3
  <1>5. ASSUME NEW i \in Nat, NEW j \in DOMAIN p, i + 1 < j, p[j].kind = "aborted"
        PROVE  ToldBack(q, i)
    <2>1. j - 1 \in DOMAIN q /\ q[j - 1] = p[j] /\ i < j - 1
      BY <1>1, <1>2, <1>5
    <2> QED BY <2>1, <1>5 DEF ToldBack
  <1>6. \A i \in Nat : ToldBack(p, i + 1) => ToldBack(q, i)
    BY <1>5 DEF ToldBack
  <1>7. ToldBack(p, 0) /\ Head(p).kind # "aborted" => ToldBack(p, 1)
    BY <1>2, <1>3 DEF ToldBack
  <1>8. ToldBack(p, 1) => ToldBack(q, 0)
    BY <1>6, 0 + 1 = 1
  <1> QED BY <1>1, <1>3, <1>4, <1>6, <1>7, <1>8

\* An event goes to the pages it is for that listen.
LEMMA EmittedTypes ==
    ASSUME NEW q \in [AppWindows -> Seq(Events)], NEW windows \in SUBSET AppWindows, NEW e \in Events
    PROVE  /\ Emitted(q, windows, e) \in [AppWindows -> Seq(Events)]
           /\ \A w \in AppWindows :
                Emitted(q, windows, e)[w] =
                  IF w \in windows \cap Listening THEN Append(q[w], e) ELSE q[w]
  <1>1. \A w \in AppWindows : Append(q[w], e) \in Seq(Events)
    BY AppendProperties
  <1> QED BY <1>1 DEF Emitted

-----------------------------------------------------------------------------
(* What a step of the coordinator comes to: the app ends, the pages are told to *)
(* save, the coordinator waits on, the quit is dropped before that, nothing    *)
(* changes, the dialog is shown, or the quit is called off and the pages hear   *)
(* of it.                                                                      *)

Leaves(why, agreed, q) ==
    /\ app' = "exited" /\ run' = None /\ exit' = [why |-> why, agreed |-> agreed]
    /\ heard' = q /\ owed' = owed
Commits(id, windows, q, agreed) ==
    /\ windows # {} /\ app' = app
    /\ run' \in QuitRuns /\ StageOK(run') /\ run'.id = id
    /\ run'.stage = "committing" /\ run'.pending = windows
    /\ heard' = Emitted(q, windows, Event("commit", id)) /\ owed' = windows
    /\ exit' = [exit EXCEPT !.agreed = agreed]
Asks(id, q) ==
    /\ run' \in QuitRuns /\ StageOK(run') /\ run'.id = id /\ run'.stage = "confirming"
    /\ heard' = q /\ UNCHANGED <<app, owed, exit>>
Stays(q) == UNCHANGED <<app, run, owed, exit>> /\ heard' = q
Drops(q) == run' = None /\ heard' = q /\ UNCHANGED <<app, owed, exit>>
Waits(q) ==
    /\ run # None /\ run' \in QuitRuns /\ StageOK(run') /\ run'.id = run.id
    /\ run'.stage = run.stage /\ run'.pending \subseteq run.pending /\ run'.replied \subseteq AppWindows
    /\ heard' = q /\ UNCHANGED <<app, owed, exit>>
ShowsDialog ==
    /\ run # None /\ run.stage = "confirming"
    /\ run' \in QuitRuns /\ StageOK(run') /\ run'.id = run.id /\ run'.stage = "confirming"
    /\ \E w \in AppWindows : heard' = Emitted(heard, {w}, Event("confirm", run.id))
    /\ UNCHANGED <<app, owed, exit>>
CallsOff(id) ==
    /\ run' \in {run, None}
    /\ heard' = Emitted(heard, Alive, Event("aborted", id)) /\ UNCHANGED <<app, owed, exit>>

Outcome(windows, q) ==
    \/ \E why \in {"empty", "ready", "timeout"}, agreed \in BOOLEAN : Leaves(why, agreed, q)
    \/ run # None /\ \E agreed \in BOOLEAN : Commits(run.id, windows, q, agreed)
    \/ run # None /\ ~Committing /\ Asks(run.id, q)
    \/ Waits(q)
    \/ Stays(q)
    \/ ~Committing /\ Drops(q)
    \/ ShowsDialog /\ q = heard
    \/ \E id \in QuitIds : id <= quits /\ CallsOff(id) /\ q = heard

\* start_commit: the app ends if no window is left, or the pages are told to save.
LEMMA CommitOutcome ==
    ASSUME NEW r \in QuitRuns, NEW windows \in SUBSET AppWindows, NEW q, NEW agreed \in BOOLEAN,
           StartCommit(r, windows, q, agreed)
    PROVE  Leaves("empty", agreed, q) \/ Commits(r.id, windows, q, agreed)
  <1>1. CASE windows = {}
    BY <1>1 DEF StartCommit, Exits, Leaves
  <1>2. CASE windows # {}
    <2> PICK s : s = [r EXCEPT !.stage = "committing", !.pending = windows]
      OBVIOUS
    <2>1. s \in QuitRuns /\ s.id = r.id /\ s.stage = "committing" /\ s.pending = windows
      BY DEF QuitRuns
    <2>2. StageOK(s)
      BY <2>1, <1>2 DEF StageOK
    <2> QED BY <1>2, <2>1, <2>2 DEF StartCommit, Commits
  <1> QED BY <1>1, <1>2

\* start_confirm: with no work in flight it commits, or else it asks.
LEMMA ConfirmOutcome ==
    ASSUME NEW r \in QuitRuns, NEW windows \in SUBSET AppWindows, NEW q,
           StartConfirm(r, windows, q)
    PROVE  \/ /\ r.inFlight = 0 /\ r.pending = {}
              /\ Leaves("empty", FALSE, q) \/ Commits(r.id, windows, q, FALSE)
           \/ Asks(r.id, q)
  <1> PICK n : n = Silent(r)
    OBVIOUS
  <1>1. r.pending \subseteq AppWindows /\ r.inFlight \in Nat
    BY DEF QuitRuns
  <1>2. n \in Nat /\ (n = 0 => r.pending = {})
    BY <1>1, Counted DEF Silent
  <1> PICK c : c = [r EXCEPT !.stage = "confirming", !.pending = {}, !.inFlight = @ + n]
    OBVIOUS
  <1>3. /\ c \in QuitRuns /\ c.id = r.id /\ c.stage = "confirming" /\ c.pending = {}
        /\ c.inFlight = r.inFlight + n
    <2>1. PICK m \in Nat : m = r.inFlight + n
      BY <1>1, <1>2
    <2>2. c = [r EXCEPT !.stage = "confirming", !.pending = {}, !.inFlight = m]
      BY <2>1
    <2> QED BY <2>1, <2>2 DEF QuitRuns
  <1>4. IF c.inFlight = 0 THEN StartCommit(c, windows, q, FALSE)
        ELSE run' = c /\ heard' = q /\ UNCHANGED <<app, owed, exit>>
    BY DEF StartConfirm
  <1>5. CASE c.inFlight = 0
    <2>1. r.inFlight = 0 /\ r.pending = {}
      BY <1>5, <1>1, <1>2, <1>3
    <2>2. StartCommit(c, windows, q, FALSE)
      BY <1>4, <1>5
    <2> QED BY <2>1, <2>2, <1>3, CommitOutcome
  <1>6. CASE c.inFlight # 0
    BY <1>3, <1>4, <1>6 DEF Asks, StageOK
  <1> QED BY <1>5, <1>6

\* The steps of the coordinator that neither begin a quit nor close a window.
Coordinates == Prompt \/ TimesOut \/ \E c \in calls : HandleCall(c)

\* What the coordinator knows at the start of a step.
LEMMA RunFacts ==
    ASSUME CoreOK
    PROVE  /\ Alive \in SUBSET AppWindows
           /\ exit.agreed \in BOOLEAN
           /\ run # None =>
                /\ run \in QuitRuns /\ StageOK(run) /\ run.id = quits
                /\ run.id \in QuitIds /\ run.pending \subseteq AppWindows
                /\ run.replied \subseteq AppWindows /\ run.inFlight \in Nat
                /\ run.stage \in {"polling", "confirming", "committing"}
           /\ \A c \in calls :
                /\ c.from \in AppWindows /\ c.id \in QuitIds
                /\ c.kind \in {"reply", "decision", "ready"}
                /\ c.kind = "reply" => c.value \in Nat
                /\ c.kind # "reply" => c.value \in BOOLEAN
  <1>1. Alive \in SUBSET AppWindows
    BY DEF Alive
  <1>2. exit.agreed \in BOOLEAN
    BY DEF CoreOK
  <1>3. run # None =>
                /\ run \in QuitRuns /\ StageOK(run) /\ run.id = quits
                /\ run.id \in QuitIds /\ run.pending \subseteq AppWindows
                /\ run.replied \subseteq AppWindows /\ run.inFlight \in Nat
                /\ run.stage \in {"polling", "confirming", "committing"}
    BY DEF CoreOK, QuitRuns
  <1>4. ASSUME NEW c \in calls
        PROVE  /\ c.from \in AppWindows /\ c.id \in QuitIds
               /\ c.kind \in {"reply", "decision", "ready"}
               /\ c.kind = "reply" => c.value \in Nat
               /\ c.kind # "reply" => c.value \in BOOLEAN
    <2>1. CASE c \in Replies
      BY <2>1 DEF Replies
    <2>2. CASE c \in Yeses
      BY <2>2 DEF Yeses
    <2> QED BY <2>1, <2>2 DEF CoreOK
  <1> QED BY <1>1, <1>2, <1>3, <1>4

\* The dialog is shown, or there is no window left to show it.
LEMMA PromptOutcome ==
    ASSUME TInv, Prompt
    PROVE  /\ \/ Alive = {} /\ Leaves("empty", FALSE, heard)
              \/ ShowsDialog
           /\ run # None /\ run.stage = "confirming" /\ app = "running"
  <1>1. CASE Alive = {}
    BY <1>1 DEF Prompt, ExitsEmpty, Exits, Leaves
  <1>2. ASSUME NEW w \in AppWindows, run' = [run EXCEPT !.prompt = w],
               heard' = Emitted(heard, {w}, Event("confirm", run.id)), UNCHANGED <<app, owed, exit>>,
               run # None, run.stage = "confirming"
        PROVE  /\ run' \in QuitRuns /\ StageOK(run') /\ run'.id = run.id
               /\ run'.stage = "confirming"
    <2>1. run \in QuitRuns /\ StageOK(run)
      BY <1>2, RunFacts DEF TInv
    <2>2. run' \in QuitRuns /\ run'.id = run.id /\ run'.stage = run.stage
          /\ run'.pending = run.pending /\ run'.replied = run.replied
      BY <1>2, <2>1 DEF QuitRuns
    <2> QED BY <1>2, <2>1, <2>2 DEF StageOK
  <1>3. Alive \subseteq AppWindows
    BY DEF Alive
  <1> QED BY <1>1, <1>2, <1>3 DEF Prompt, ShowsDialog

\* A limit passes: the quit goes on, is dropped, or ends the app.
LEMMA TimeOutcome ==
    ASSUME TInv, TimesOut
    PROVE  /\ \/ run.stage = "polling" /\ Asks(run.id, heard)
              \/ run.stage = "confirming" /\ Drops(heard)
              \/ run.stage = "committing" /\ Leaves("timeout", exit.agreed, heard)
           /\ run # None /\ app = "running"
  <1>1. run # None /\ app = "running" /\ run \in QuitRuns /\ StageOK(run) /\ Alive \in SUBSET AppWindows
        /\ run.stage \in {"polling", "confirming", "committing"}
    BY RunFacts DEF TimesOut, TInv
  <1>2. CASE run.stage = "polling"
    <2>1. StartConfirm(run, Alive, heard) /\ run.pending # {}
      BY <1>1, <1>2 DEF TimesOut, StageOK
    <2> QED BY <1>1, <1>2, <2>1, ConfirmOutcome
  <1>3. CASE run.stage = "confirming"
    BY <1>1, <1>3 DEF TimesOut, Drops
  <1>4. CASE run.stage = "committing"
    BY <1>1, <1>4 DEF TimesOut, Exits, Leaves
  <1> QED BY <1>1, <1>2, <1>3, <1>4

\* A reply to the poll: the last one ends the stage.
LEMMA ReplyOutcome ==
    ASSUME TInv, NEW c \in calls, c.kind = "reply", HandleCall(c)
    PROVE  /\ \/ Stays(heard)
              \/ /\ run # None /\ run.id = c.id /\ run.stage = "polling"
                 /\ \/ Asks(run.id, heard)
                    \/ /\ Waits(heard) /\ run'.pending = run.pending \ {c.from}
                       /\ run'.inFlight = 0 => run.inFlight = 0 /\ c.value = 0
                    \/ /\ run.inFlight = 0 /\ c.value = 0 /\ run.pending \subseteq {c.from}
                       /\ Leaves("empty", FALSE, heard) \/ Commits(run.id, Alive, heard, FALSE)
           /\ app = "running"
  <1>1. app = "running" /\ Replied(c) /\ c.from \in AppWindows /\ c.value \in Nat
    BY RunFacts DEF HandleCall, TInv
  <1>2. CASE ~Names(run, c.id, "polling")
    BY <1>1, <1>2 DEF Replied, Stays
  <1>3. CASE Names(run, c.id, "polling")
    <2>1. run # None /\ run.id = c.id /\ run.stage = "polling"
      BY <1>3 DEF Names
    <2>2. /\ run \in QuitRuns /\ StageOK(run) /\ Alive \in SUBSET AppWindows
          /\ run.inFlight \in Nat /\ run.pending \subseteq AppWindows /\ run.replied \subseteq AppWindows
      BY <2>1, RunFacts DEF TInv
    <2> PICK r : r = Answered(run, c)
      OBVIOUS
    <2>3. /\ r \in QuitRuns /\ r.id = run.id /\ r.stage = "polling"
          /\ r.pending = run.pending \ {c.from} /\ r.replied = run.replied \cup {c.from}
          /\ r.inFlight = run.inFlight + c.value
      <3>1. PICK m \in Nat : m = run.inFlight + c.value
        BY <1>1, <2>2
      <3>2. PICK p \in SUBSET AppWindows : p = run.pending \ {c.from}
        BY <2>2
      <3>3. PICK o \in SUBSET AppWindows : o = run.replied \cup {c.from}
        BY <1>1, <2>2
      <3>4. r = [run EXCEPT !.pending = p, !.replied = o, !.inFlight = m]
        BY <3>1, <3>2, <3>3 DEF Answered
      <3> QED BY <2>1, <2>2, <3>1, <3>2, <3>3, <3>4 DEF QuitRuns
    <2>4. r.inFlight = 0 => run.inFlight = 0 /\ c.value = 0
      BY <1>1, <2>2, <2>3
    <2>5. IF r.pending = {} THEN StartConfirm(r, Alive, heard)
          ELSE run' = r /\ UNCHANGED <<app, heard, owed, exit>>
      BY <1>1, <1>3 DEF Replied
    <2>6. CASE r.pending = {}
      <3>1. \/ r.inFlight = 0 /\ (Leaves("empty", FALSE, heard) \/ Commits(run.id, Alive, heard, FALSE))
            \/ Asks(run.id, heard)
        BY <2>2, <2>3, <2>5, <2>6, ConfirmOutcome
      <3>2. run.pending \subseteq {c.from}
        BY <2>3, <2>6
      <3> QED BY <1>1, <2>1, <2>4, <3>1, <3>2
    <2>7. CASE r.pending # {}
      <3>1. StageOK(r)
        BY <2>1, <2>2, <2>3, <2>7 DEF StageOK
      <3>2. r.replied \subseteq AppWindows
        BY <2>3 DEF QuitRuns
      <3>3. Waits(heard) /\ run' = r
        BY <2>1, <2>3, <2>5, <2>7, <3>1, <3>2 DEF Waits
      <3> QED BY <1>1, <2>1, <2>3, <2>4, <3>3
    <2> QED BY <2>6, <2>7
  <1> QED BY <1>2, <1>3

\* A decision: the quit goes on, or is dropped; a stale one changes nothing.
LEMMA DecisionOutcome ==
    ASSUME TInv, NEW c \in calls, c.kind = "decision", HandleCall(c)
    PROVE  /\ \/ Stays(heard)
              \/ /\ run # None /\ run.stage = "confirming"
                 /\ Leaves("empty", TRUE, heard) \/ Commits(run.id, Alive, heard, TRUE) \/ Drops(heard)
           /\ app = "running"
  <1>1. app = "running" /\ Decided(c)
    BY DEF HandleCall
  <1>2. CASE ~(Names(run, c.id, "confirming") /\ run.prompt = c.from)
    BY <1>1, <1>2 DEF Decided, Stays
  <1>3. CASE Names(run, c.id, "confirming") /\ run.prompt = c.from
    <2>1. run # None /\ run.stage = "confirming" /\ run \in QuitRuns /\ Alive \in SUBSET AppWindows
      BY <1>3, RunFacts DEF Names, TInv
    <2> QED BY <1>1, <1>3, <2>1, CommitOutcome DEF Decided, Drops
  <1> QED BY <1>2, <1>3

\* A page says it saved, or that it did not.
LEMMA ReadyOutcome ==
    ASSUME TInv, NEW c \in calls, c.kind = "ready", HandleCall(c)
    PROVE  /\ \/ Stays(heard)
              \/ /\ c.value = TRUE /\ run # None /\ run.id = c.id /\ run.stage = "committing"
                 /\ \/ Leaves("ready", exit.agreed, heard) /\ run.pending \subseteq {c.from}
                    \/ Waits(heard) /\ run'.pending = run.pending \ {c.from}
              \/ CallsOff(c.id)
           /\ app = "running"
  <1>1. app = "running" /\ c.value \in BOOLEAN
    BY RunFacts DEF HandleCall, TInv
  <1>2. CASE ~c.value
    BY <1>1, <1>2 DEF HandleCall, NotSaved, CallsOff
  <1>3. CASE c.value /\ ~Names(run, c.id, "committing")
    BY <1>1, <1>3 DEF HandleCall, SavedReply, Stays
  <1>4. CASE c.value /\ Names(run, c.id, "committing")
    <2>1. run # None /\ run.id = c.id /\ run.stage = "committing" /\ SavedReply(c)
      BY <1>4 DEF Names, HandleCall
    <2>2. run \in QuitRuns /\ StageOK(run) /\ run.pending \subseteq AppWindows /\ run.replied \subseteq AppWindows
      BY <2>1, RunFacts DEF TInv
    <2>3. CASE Ready(run, c.from) = {}
      BY <1>1, <1>4, <2>1, <2>3 DEF SavedReply, Exits, Leaves, Ready
    <2>4. CASE Ready(run, c.from) # {}
      <3> PICK p \in SUBSET AppWindows : p = run.pending \ {c.from}
        BY <2>2
      <3>1. run' = [run EXCEPT !.pending = p] /\ UNCHANGED <<app, heard, owed, exit>> /\ p # {}
        BY <1>4, <2>1, <2>4 DEF SavedReply, Ready
      <3>2. run' \in QuitRuns /\ run'.id = run.id /\ run'.stage = run.stage
            /\ run'.pending = p /\ run'.replied = run.replied
        BY <2>2, <3>1 DEF QuitRuns
      <3>3. StageOK(run')
        BY <2>1, <3>1, <3>2 DEF StageOK
      <3> QED BY <1>1, <1>4, <2>1, <2>2, <3>1, <3>2, <3>3 DEF Waits
    <2> QED BY <2>3, <2>4
  <1> QED BY <1>1, <1>2, <1>3, <1>4

\* Whatever the coordinator does is one of the outcomes.
LEMMA CoordinatesOutcome ==
    ASSUME TInv, Coordinates
    PROVE  Outcome(Alive, heard) /\ app = "running" /\ calls' \subseteq calls
  <1>1. exit.agreed \in BOOLEAN /\ TRUE \in BOOLEAN /\ FALSE \in BOOLEAN
    BY RunFacts DEF TInv
  <1>2. CASE Prompt
    <2>1. calls' = calls
      BY <1>2 DEF Prompt
    <2> QED BY <1>1, <1>2, <2>1, PromptOutcome DEF Outcome
  <1>3. CASE TimesOut
    <2>1. calls' = calls
      BY <1>3 DEF TimesOut
    <2> QED BY <1>1, <1>3, <2>1, TimeOutcome DEF Outcome, Committing
  <1>4. ASSUME NEW c \in calls, HandleCall(c)
        PROVE  Outcome(Alive, heard) /\ app = "running" /\ calls' \subseteq calls
    <2>1. calls' \subseteq calls
      BY <1>4 DEF HandleCall
    <2>2. c.kind \in {"reply", "decision", "ready"} /\ c.id \in QuitIds /\ c.id <= quits
      BY RunFacts DEF TInv, Numbered
    <2>3. CASE c.kind = "reply"
      BY <1>1, <1>4, <2>1, <2>3, ReplyOutcome DEF Outcome, Committing
    <2>4. CASE c.kind = "decision"
      BY <1>1, <1>4, <2>1, <2>4, DecisionOutcome DEF Outcome, Committing
    <2>5. CASE c.kind = "ready"
      BY <1>1, <1>4, <2>1, <2>2, <2>5, ReadyOutcome DEF Outcome, Committing
    <2> QED BY <2>2, <2>3, <2>4, <2>5
  <1> QED BY <1>2, <1>3, <1>4 DEF Coordinates

\* A window closes: the coordinator no longer waits for it.
LEMMA CloseOutcome ==
    ASSUME TInv, NEW w \in AppWindows, Close(w), NEW q, q = [heard EXCEPT ![w] = <<>>]
    PROVE  /\ \/ Stays(q)
              \/ run # None /\ run.stage = "confirming" /\ Drops(q)
              \/ /\ Waits(q) /\ run'.pending = run.pending \ {w} /\ run'.inFlight = run.inFlight
              \/ /\ run # None /\ run.stage = "polling" /\ run.pending \subseteq {w}
                 /\ \/ Asks(run.id, q)
                    \/ run.inFlight = 0 /\ Leaves("empty", FALSE, q)
                    \/ run.inFlight = 0 /\ Commits(run.id, Alive \ {w}, q, FALSE)
              \/ /\ run # None /\ run.stage = "committing" /\ run.pending \subseteq {w}
                 /\ Leaves("ready", exit.agreed, q)
           /\ app = "running"
  <1>1. app = "running" /\ Alive \ {w} \in SUBSET AppWindows
    BY DEF Close, Alive
  <1>2. CASE run = None \/ (run.stage = "confirming" /\ run.prompt # w)
    BY <1>1, <1>2 DEF Close, Stays
  <1>3. CASE run # None /\ ~(run.stage = "confirming" /\ run.prompt # w)
    <2>1. /\ run \in QuitRuns /\ StageOK(run) /\ run.pending \subseteq AppWindows
          /\ run.replied \subseteq AppWindows /\ run.inFlight \in Nat
          /\ run.stage \in {"polling", "confirming", "committing"}
      BY <1>3, RunFacts DEF TInv
    <2> PICK r : r = [run EXCEPT !.pending = @ \ {w}]
      OBVIOUS
    <2>2. /\ r \in QuitRuns /\ r.id = run.id /\ r.stage = run.stage /\ r.inFlight = run.inFlight
          /\ r.pending = run.pending \ {w} /\ r.replied = run.replied
      <3>1. PICK p \in SUBSET AppWindows : p = run.pending \ {w}
        BY <2>1
      <3>2. r = [run EXCEPT !.pending = p]
        BY <3>1
      <3> QED BY <2>1, <3>1, <3>2 DEF QuitRuns
    <2>3. (CASE run.stage = "confirming" -> run' = None /\ heard' = q /\ UNCHANGED <<app, owed, exit>>
             [] run.stage # "confirming" /\ r.pending # {} ->
                    run' = r /\ heard' = q /\ UNCHANGED <<app, owed, exit>>
             [] run.stage = "polling" /\ r.pending = {} -> StartConfirm(r, Alive \ {w}, q)
             [] OTHER -> Exits("ready", exit.agreed) /\ heard' = q /\ UNCHANGED owed)
      BY <1>3 DEF Close
    <2>4. CASE run.stage = "confirming"
      BY <1>1, <1>3, <2>3, <2>4 DEF Drops
    <2>5. CASE run.stage # "confirming" /\ r.pending # {}
      <3>1. run' = r /\ heard' = q /\ UNCHANGED <<app, owed, exit>>
        BY <2>3, <2>5
      <3>2. StageOK(r)
        BY <2>1, <2>2, <2>5 DEF StageOK
      <3>3. Waits(q)
        BY <1>3, <2>1, <2>2, <3>1, <3>2 DEF Waits
      <3> QED BY <1>1, <2>2, <3>1, <3>3
    <2>6. CASE run.stage = "polling" /\ r.pending = {}
      <3>1. StartConfirm(r, Alive \ {w}, q)
        BY <2>3, <2>6
      <3>2. run.pending \subseteq {w}
        BY <2>2, <2>6
      <3> QED BY <1>1, <1>3, <2>2, <2>6, <3>1, <3>2, ConfirmOutcome
    <2>7. CASE run.stage = "committing" /\ r.pending = {}
      <3>1. run.pending \subseteq {w}
        BY <2>2, <2>7
      <3> QED BY <1>1, <1>3, <2>3, <2>7, <3>1 DEF Exits, Leaves
    <2> QED BY <2>1, <2>4, <2>5, <2>6, <2>7
  <1> QED BY <1>2, <1>3

\* So is what it does when a window closes.
LEMMA ClosesByOutcome ==
    ASSUME TInv, NEW w \in AppWindows, Close(w), NEW q, q = [heard EXCEPT ![w] = <<>>]
    PROVE  Outcome(Alive \ {w}, q) /\ app = "running"
  <1>1. exit.agreed \in BOOLEAN /\ TRUE \in BOOLEAN /\ FALSE \in BOOLEAN
    BY RunFacts DEF TInv
  <1> QED BY <1>1, CloseOutcome DEF Outcome, Committing

\* A quit begins.
LEMMA RequestOutcome ==
    ASSUME TInv, RequestQuit
    PROVE  /\ quits' = quits + 1 /\ quits' \in QuitIds /\ quits' <= happenings' /\ app = "running" /\ run = None
           /\ \/ Alive = {} /\ Leaves("empty", FALSE, heard)
              \/ /\ run' \in QuitRuns /\ StageOK(run') /\ run'.id = quits' /\ run'.stage = "polling"
                 /\ run'.pending = Alive /\ app' = app /\ owed' = owed
                 /\ exit' = [exit EXCEPT !.agreed = FALSE]
                 /\ heard' = Emitted(heard, Alive, Event("poll", quits'))
  <1>1. quits \in Nat /\ happenings \in Nat /\ quits <= happenings /\ MaxHappenings \in Nat
    BY QuitAssumption DEF TInv, CoreOK
  <1>2. /\ quits' = quits + 1 /\ app = "running" /\ run = None
        /\ happenings < MaxHappenings /\ happenings' = happenings + 1
    BY DEF RequestQuit, Happens
  <1>3. quits' \in QuitIds /\ quits' <= happenings'
    BY <1>1, <1>2 DEF QuitIds
  <1>4. CASE Alive = {}
    BY <1>2, <1>3, <1>4 DEF RequestQuit, ExitsEmpty, Exits, Leaves
  <1>5. CASE Alive # {}
    <2>1. /\ run' = Run(quits', Alive) /\ app' = app /\ owed' = owed
          /\ exit' = [exit EXCEPT !.agreed = FALSE]
          /\ heard' = Emitted(heard, Alive, Event("poll", quits'))
      BY <1>2, <1>5 DEF RequestQuit
    <2>2. /\ run' \in QuitRuns /\ run'.id = quits' /\ run'.stage = "polling" /\ run'.pending = Alive
          /\ run'.replied = {}
      BY <1>3, <2>1 DEF Run, QuitRuns, Alive
    <2>3. StageOK(run')
      BY <1>5, <2>2 DEF StageOK
    <2> QED BY <1>2, <1>3, <2>1, <2>2, <2>3
  <1> QED BY <1>4, <1>5

-----------------------------------------------------------------------------
(* The types of the coordinator's state *)

\* Each outcome leaves the coordinator in a state of its type.
LEMMA OutcomeCore ==
    ASSUME TInv, NEW windows \in SUBSET AppWindows, NEW q, Outcome(windows, q)
    PROVE  /\ app' \in {"running", "exited"}
           /\ run' \in QuitRuns \cup {None}
           /\ run' # None => StageOK(run') /\ run'.id = quits
           /\ exit' \in [why : {"none", "empty", "ready", "timeout"}, agreed : BOOLEAN]
  <1>1. /\ app \in {"running", "exited"} /\ run \in QuitRuns \cup {None}
        /\ run # None => StageOK(run) /\ run.id = quits
        /\ exit \in [why : {"none", "empty", "ready", "timeout"}, agreed : BOOLEAN]
    BY DEF TInv, CoreOK
  <1>2. ASSUME NEW why \in {"empty", "ready", "timeout"}, NEW agreed \in BOOLEAN, Leaves(why, agreed, q)
        PROVE  /\ app' \in {"running", "exited"} /\ run' = None
               /\ exit' \in [why : {"none", "empty", "ready", "timeout"}, agreed : BOOLEAN]
    BY <1>2 DEF Leaves
  <1>3. ASSUME run # None, NEW agreed \in BOOLEAN, Commits(run.id, windows, q, agreed)
        PROVE  /\ app' = app /\ run' \in QuitRuns /\ StageOK(run') /\ run'.id = quits
               /\ exit' \in [why : {"none", "empty", "ready", "timeout"}, agreed : BOOLEAN]
    BY <1>1, <1>3 DEF Commits
  <1>4. CASE run # None /\ Asks(run.id, q)
    BY <1>1, <1>4 DEF Asks
  <1>5. CASE Waits(q) \/ ShowsDialog
    BY <1>1, <1>5 DEF Waits, ShowsDialog
  <1>6. CASE Stays(q)
    BY <1>1, <1>6 DEF Stays
  <1>7. CASE Drops(q)
    BY <1>1, <1>7 DEF Drops
  <1>8. ASSUME NEW id \in QuitIds, CallsOff(id)
        PROVE  /\ app' \in {"running", "exited"}
               /\ run' \in QuitRuns \cup {None}
               /\ run' # None => StageOK(run') /\ run'.id = quits
               /\ exit' \in [why : {"none", "empty", "ready", "timeout"}, agreed : BOOLEAN]
    BY <1>1, <1>8 DEF CallsOff
  <1> QED BY <1>1, <1>2, <1>3, <1>4, <1>5, <1>6, <1>7, <1>8 DEF Outcome

\* The steps that leave the coordinator alone.
LEMMA PageSteps ==
    ASSUME QuitNext
    PROVE  \/ RequestQuit \/ Coordinates \/ Start \/ \E w \in AppWindows : Close(w)
           \/ /\ UNCHANGED <<app, run, owed, exit, quits, polled, answered>>
              /\ happenings' \in {happenings, happenings + 1}
              /\ happenings' # happenings => happenings < MaxHappenings
           \/ \E w \in AppWindows, id \in QuitIds : Poll(w, id)
  <1>1. ASSUME NEW w \in AppWindows,
               \/ OpenWindow(w) \/ Loaded(w) \/ Boots(w) \/ SyncSnapshot(w) \/ Decide(w)
               \/ \E c \in Chats : Begin(w, c) \/ End(w, c)
        PROVE  /\ UNCHANGED <<app, run, owed, exit, quits, polled, answered>>
               /\ happenings' \in {happenings, happenings + 1}
               /\ happenings' # happenings => happenings < MaxHappenings
    BY <1>1 DEF OpenWindow, Loaded, Boots, SyncSnapshot, Decide, Begin, End, Happens, quitCore, quitPast
  <1>2. ASSUME NEW w \in AppWindows, NEW id \in QuitIds,
               Confirm(w, id) \/ Commit(w, id) \/ Aborted(w, id)
        PROVE  /\ UNCHANGED <<app, run, owed, exit, quits, polled, answered>>
               /\ happenings' = happenings
    BY <1>2 DEF Confirm, Commit, Aborted, quitCore, quitPast
  <1>3. ASSUME NEW w \in AppWindows,
               (\E s \in saving[w] : SaveWorkspace(w, s) \/ SaveFails(w, s))
                 \/ \E i \in DOMAIN rowWrites[w] : WriteRows(w, i)
        PROVE  /\ UNCHANGED <<app, run, owed, exit, quits, polled, answered>>
               /\ happenings' \in {happenings, happenings + 1}
               /\ happenings' # happenings => happenings < MaxHappenings
    BY <1>3 DEF SaveWorkspace, SaveFails, WriteRows, Happens, quitCore, quitPast
  <1> QED BY <1>1, <1>2, <1>3 DEF QuitNext, Coordinates

\* The calls of the pages are of their types.
LEMMA CallRecords ==
    ASSUME NEW w \in AppWindows, NEW id \in QuitIds
    PROVE  /\ \A n \in Nat : Call(w, "reply", id, n) \in Replies
           /\ \A b \in BOOLEAN : Call(w, "decision", id, b) \in Yeses /\ Call(w, "ready", id, b) \in Yeses
           /\ \A kind, v : /\ Call(w, kind, id, v).from = w /\ Call(w, kind, id, v).kind = kind
                           /\ Call(w, kind, id, v).id = id /\ Call(w, kind, id, v).value = v
  BY DEF Call, Replies, Yeses

\* A save is one of a quit that has begun.
LEMMA SaveFacts ==
    ASSUME TInv, NEW w \in AppWindows, NEW s \in saving[w]
    PROVE  /\ s \in Saves /\ s.id \in QuitIds /\ s.id <= quits /\ s.refs \subseteq Chats
           /\ s.shown \subseteq Chats
  <1>1. s \in Saves
    BY DEF TInv, QueuesOK
  <1> QED BY <1>1 DEF Saves, TInv, Numbered

\* The calls on their way are the ones before and those the pages make.
LEMMA CallsStep ==
    ASSUME TInv, [QuitNext]_quitVars
    PROVE  /\ calls' \subseteq Replies \cup Yeses
           /\ \A c \in calls' : c \in calls \/ c.id <= quits
  <1>1. calls \subseteq Replies \cup Yeses
    BY DEF TInv, CoreOK
  <1>2. CASE calls' \subseteq calls
    BY <1>1, <1>2
  <1>3. ASSUME NEW w \in AppWindows, NEW done \in SUBSET saving[w],
               calls' = calls \cup {Call(w, "ready", s.id, TRUE) : s \in done}
        PROVE  /\ calls' \subseteq Replies \cup Yeses
               /\ \A c \in calls' : c \in calls \/ c.id <= quits
    <2>1. ASSUME NEW s \in done
          PROVE  Call(w, "ready", s.id, TRUE) \in Yeses /\ Call(w, "ready", s.id, TRUE).id <= quits
      BY SaveFacts DEF Call, Yeses
    <2> QED BY <1>1, <1>3, <2>1
  <1>4. ASSUME NEW w \in AppWindows, Boots(w)
        PROVE  /\ calls' \subseteq Replies \cup Yeses
               /\ \A c \in calls' : c \in calls \/ c.id <= quits
    BY <1>2, <1>3, <1>4 DEF Boots
  <1>5. ASSUME NEW w \in AppWindows, NEW i \in DOMAIN rowWrites[w], WriteRows(w, i)
        PROVE  /\ calls' \subseteq Replies \cup Yeses
               /\ \A c \in calls' : c \in calls \/ c.id <= quits
    <2> PICK done : done = {s \in saving[w] : s.at = "rows" /\ s.id = rowWrites[w][i].id}
      OBVIOUS
    <2>1. calls' = calls \cup {Call(w, "ready", s.id, TRUE) : s \in done} /\ done \in SUBSET saving[w]
      BY <1>5 DEF WriteRows
    <2> QED BY <1>3, <2>1
  <1>6. ASSUME NEW w \in AppWindows, NEW id \in QuitIds, Poll(w, id)
        PROVE  /\ calls' \subseteq Replies \cup Yeses
               /\ \A c \in calls' : c \in calls \/ c.id <= quits
    <2>1. busy[w] \subseteq Chats /\ Cardinality(busy[w]) \in Nat
      BY Counted DEF TInv, PagesOK
    <2>2. heard[w] \in Seq(Events) /\ heard[w] # <<>> /\ Head(heard[w]) = Event("poll", id)
      BY <1>6 DEF Poll, Hears, TInv, QueuesOK
    <2>3. id <= quits
      BY <2>2, Left DEF TInv, Numbered, Event
    <2>4. calls' = calls \cup {Call(w, "reply", id, Cardinality(busy[w]))}
      BY <1>6 DEF Poll
    <2> QED BY <1>1, <2>1, <2>3, <2>4, CallRecords
  <1>7. ASSUME NEW w \in AppWindows, NEW id \in QuitIds, Confirm(w, id)
        PROVE  /\ calls' \subseteq Replies \cup Yeses
               /\ \A c \in calls' : c \in calls \/ c.id <= quits
    <2>1. heard[w] \in Seq(Events) /\ heard[w] # <<>> /\ Head(heard[w]) = Event("confirm", id)
      BY <1>7 DEF Confirm, Hears, TInv, QueuesOK
    <2>2. id <= quits
      BY <2>1, Left DEF TInv, Numbered, Event
    <2>3. calls' = calls \/ calls' = calls \cup {Call(w, "decision", id, FALSE)}
      BY <1>7 DEF Confirm
    <2>4. Call(w, "decision", id, FALSE) \in Yeses /\ Call(w, "decision", id, FALSE).id = id
      BY DEF Call, Yeses
    <2> QED BY <1>1, <2>2, <2>3, <2>4
  <1>8. ASSUME NEW w \in AppWindows, Decide(w)
        PROVE  /\ calls' \subseteq Replies \cup Yeses
               /\ \A c \in calls' : c \in calls \/ c.id <= quits
    <2>1. dialog[w] \in QuitIds /\ dialog[w] <= quits
      BY <1>8 DEF Decide, TInv, QueuesOK, Numbered
    <2>2. PICK yes \in BOOLEAN : calls' = calls \cup {Call(w, "decision", dialog[w], yes)}
      BY <1>8 DEF Decide
    <2> QED BY <1>1, <2>1, <2>2, CallRecords
  <1>9. ASSUME NEW w \in AppWindows, NEW s \in saving[w], SaveFails(w, s)
        PROVE  /\ calls' \subseteq Replies \cup Yeses
               /\ \A c \in calls' : c \in calls \/ c.id <= quits
    <2>1. calls' = calls \cup {Call(w, "ready", s.id, FALSE)}
      BY <1>9 DEF SaveFails
    <2>2. Call(w, "ready", s.id, FALSE) \in Yeses /\ Call(w, "ready", s.id, FALSE).id <= quits
      BY SaveFacts DEF Call, Yeses
    <2> QED BY <1>1, <2>1, <2>2
  <1>10. CASE RequestQuit \/ Prompt \/ TimesOut \/ Start \/ UNCHANGED quitVars
    BY <1>2, <1>10 DEF RequestQuit, Prompt, TimesOut, Start, Fresh, quitVars, quitCore
  <1>11. ASSUME NEW c \in calls, HandleCall(c)
         PROVE  calls' \subseteq calls
    BY <1>11 DEF HandleCall
  <1>12. ASSUME NEW w \in AppWindows,
                \/ OpenWindow(w) \/ Loaded(w) \/ Close(w) \/ SyncSnapshot(w)
                \/ \E c \in Chats : Begin(w, c) \/ End(w, c)
                \/ \E id \in QuitIds : Commit(w, id) \/ Aborted(w, id)
                \/ \E s \in saving[w] : SaveWorkspace(w, s)
         PROVE  calls' \subseteq calls
    BY <1>12 DEF OpenWindow, Loaded, Close, SyncSnapshot, Begin, End, Commit, Aborted, SaveWorkspace, quitCore
  <1> QED BY <1>2, <1>4, <1>5, <1>6, <1>7, <1>8, <1>9, <1>10, <1>11, <1>12 DEF QuitNext

\* Every step leaves the coordinator in a state of its type.
LEMMA CoreStep ==
    ASSUME TInv, [QuitNext]_quitVars
    PROVE  CoreOK' /\ (Start \/ quits <= quits')
  <1>1. /\ app \in {"running", "exited"} /\ run \in QuitRuns \cup {None}
        /\ run # None => StageOK(run) /\ run.id = quits
        /\ exit \in [why : {"none", "empty", "ready", "timeout"}, agreed : BOOLEAN]
        /\ quits \in Nat /\ happenings \in Nat /\ quits <= happenings /\ happenings <= MaxHappenings
        /\ MaxHappenings \in Nat
    BY QuitAssumption DEF TInv, CoreOK
  <1>2. calls' \subseteq Replies \cup Yeses
    BY CallsStep
  <1>3. ASSUME quits' = quits, happenings' \in {happenings, happenings + 1},
               happenings' # happenings => happenings < MaxHappenings
        PROVE  /\ quits' \in Nat /\ happenings' \in Nat /\ quits' <= happenings' /\ happenings' <= MaxHappenings
               /\ quits <= quits'
    BY <1>1, <1>3
  <1>4. ASSUME NEW windows \in SUBSET AppWindows, NEW q, Outcome(windows, q),
               UNCHANGED <<quits, happenings>>
        PROVE  CoreOK' /\ (Start \/ quits <= quits')
    BY <1>2, <1>3, <1>4, OutcomeCore DEF CoreOK
  <1>5. ASSUME UNCHANGED <<app, run, exit, quits>>, happenings' \in {happenings, happenings + 1},
               happenings' # happenings => happenings < MaxHappenings
        PROVE  CoreOK' /\ (Start \/ quits <= quits')
    <2>1. StageOK(run)' <=> StageOK(run)
      BY <1>5 DEF StageOK
    <2> QED BY <1>1, <1>2, <1>3, <1>5, <2>1 DEF CoreOK
  <1>6. CASE Coordinates
    <2>1. Outcome(Alive, heard) /\ UNCHANGED <<quits, happenings>>
      BY <1>6, CoordinatesOutcome DEF Coordinates, Prompt, TimesOut, HandleCall
    <2> QED BY <1>4, <2>1, RunFacts DEF TInv
  <1>7. ASSUME NEW w \in AppWindows, Close(w)
        PROVE  CoreOK' /\ (Start \/ quits <= quits')
    <2>1. UNCHANGED <<quits, happenings>>
      BY <1>7 DEF Close
    <2>2. Alive \ {w} \in SUBSET AppWindows
      BY DEF Alive
    <2> QED BY <1>4, <1>7, <2>1, <2>2, ClosesByOutcome
  <1>8. CASE RequestQuit
    <2>1. happenings' = happenings + 1 /\ happenings < MaxHappenings
      BY <1>8 DEF RequestQuit, Happens
    <2>2. /\ quits' = quits + 1 /\ quits' <= happenings' /\ app' \in {"running", "exited"}
          /\ run' \in QuitRuns \cup {None} /\ (run' # None => StageOK(run') /\ run'.id = quits')
          /\ exit' \in [why : {"none", "empty", "ready", "timeout"}, agreed : BOOLEAN]
      <3>1. ASSUME Leaves("empty", FALSE, heard)
            PROVE  /\ app' \in {"running", "exited"}
                   /\ run' \in QuitRuns \cup {None} /\ run' = None
                   /\ exit' \in [why : {"none", "empty", "ready", "timeout"}, agreed : BOOLEAN]
        BY <3>1 DEF Leaves
      <3>2. [exit EXCEPT !.agreed = FALSE] \in [why : {"none", "empty", "ready", "timeout"}, agreed : BOOLEAN]
        BY <1>1
      <3> QED BY <1>1, <1>8, <3>1, <3>2, RequestOutcome
    <2> QED BY <1>1, <1>2, <2>1, <2>2 DEF CoreOK
  <1>9. CASE Start
    <2>1. /\ app' = "running" /\ run' = None /\ quits' = 0 /\ exit' = [why |-> "none", agreed |-> FALSE]
          /\ happenings' = happenings + 1 /\ happenings < MaxHappenings /\ calls' = {}
      BY <1>9 DEF Start, Fresh, Happens
    <2>2. [why |-> "none", agreed |-> FALSE] \in [why : {"none", "empty", "ready", "timeout"}, agreed : BOOLEAN]
      OBVIOUS
    <2>3. exit' \in [why : {"none", "empty", "ready", "timeout"}, agreed : BOOLEAN]
      BY <2>1, <2>2
    <2>4. /\ quits' \in Nat /\ happenings' \in Nat /\ quits' <= happenings' /\ happenings' <= MaxHappenings
      BY <1>1, <2>1
    <2> QED BY <1>2, <1>9, <2>1, <2>3, <2>4 DEF CoreOK
  <1>10. ASSUME NEW w \in AppWindows, NEW id \in QuitIds, Poll(w, id)
         PROVE  CoreOK' /\ (Start \/ quits <= quits')
    <2>1. UNCHANGED <<app, run, exit, quits, happenings>>
      BY <1>10 DEF Poll
    <2> QED BY <1>5, <2>1
  <1>11. CASE UNCHANGED quitVars
    BY <1>5, <1>11 DEF quitVars, quitCore, quitPast
  <1> QED BY <1>5, <1>6, <1>7, <1>8, <1>9, <1>10, <1>11, PageSteps

-----------------------------------------------------------------------------
(* The types of the pages' state *)

\* Every step leaves the pages in a state of their type: a window that is not
\* open runs nothing, and what it runs or owes is among what it shows.
LEMMA PagesStep ==
    ASSUME TInv, [QuitNext]_quitVars
    PROVE  PagesOK'
  <1>1. /\ life \in [AppWindows -> Lives]
        /\ tabs \in [AppWindows -> SUBSET Chats] /\ busy \in [AppWindows -> SUBSET Chats]
        /\ owing \in [AppWindows -> SUBSET Chats]
        /\ unsynced \in [AppWindows -> BOOLEAN] /\ rowKey \in [AppWindows -> (SUBSET Chats) \cup {None}]
        /\ \A w \in AppWindows :
             /\ busy[w] \subseteq tabs[w] /\ owing[w] \subseteq tabs[w] /\ busy[w] \cap owing[w] = {}
             /\ life[w] # "open" => busy[w] = {}
    BY DEF TInv, PagesOK
  <1>2. CASE UNCHANGED <<life, tabs, busy, owing, unsynced, rowKey>>
    BY <1>1, <1>2 DEF PagesOK
  <1>3. ASSUME NEW w \in AppWindows, NEW c \in Chats, Begin(w, c)
        PROVE  PagesOK'
    <2>1. /\ life[w] = "open" /\ life' = life
          /\ tabs' = [tabs EXCEPT ![w] = @ \cup {c}]
          /\ unsynced' = [unsynced EXCEPT ![w] = @ \/ c \notin tabs[w]]
          /\ owing' = [owing EXCEPT ![w] = @ \ {c}]
          /\ busy' = [busy EXCEPT ![w] = busy[w] \cup {c}]
          /\ rowKey' = rowKey \/ rowKey' = [rowKey EXCEPT ![w] = busy[w] \cup {c}]
      BY <1>3 DEF Begin, InFlight
    <2>2. unsynced' \in [AppWindows -> BOOLEAN]
      <3>1. PICK b \in BOOLEAN : b = (unsynced[w] \/ c \notin tabs[w])
        OBVIOUS
      <3>2. unsynced' = [unsynced EXCEPT ![w] = b]
        BY <2>1, <3>1
      <3> QED BY <1>1, <3>2
    <2>3. /\ tabs' \in [AppWindows -> SUBSET Chats] /\ busy' \in [AppWindows -> SUBSET Chats]
          /\ owing' \in [AppWindows -> SUBSET Chats] /\ rowKey' \in [AppWindows -> (SUBSET Chats) \cup {None}]
      BY <1>1, <2>1
    <2>4. \A x \in AppWindows : /\ busy'[x] \subseteq tabs'[x] /\ owing'[x] \subseteq tabs'[x]
                                /\ busy'[x] \cap owing'[x] = {}
                                /\ life'[x] # "open" => busy'[x] = {}
      BY <1>1, <2>1
    <2> QED BY <1>1, <2>1, <2>2, <2>3, <2>4 DEF PagesOK
  <1>4. ASSUME NEW w \in AppWindows, NEW c \in Chats, End(w, c)
        PROVE  PagesOK'
    <2>1. /\ UNCHANGED <<life, tabs, owing, unsynced>>
          /\ busy' = [busy EXCEPT ![w] = busy[w] \ {c}]
          /\ rowKey' = rowKey \/ rowKey' = [rowKey EXCEPT ![w] = busy[w] \ {c}]
      BY <1>4 DEF End, InFlight
    <2>2. busy' \in [AppWindows -> SUBSET Chats] /\ rowKey' \in [AppWindows -> (SUBSET Chats) \cup {None}]
      BY <1>1, <2>1
    <2>3. \A x \in AppWindows : busy'[x] \subseteq busy[x]
      BY <1>1, <2>1
    <2> QED BY <1>1, <2>1, <2>2, <2>3 DEF PagesOK
  <1>5. ASSUME NEW w \in AppWindows, SyncSnapshot(w)
        PROVE  PagesOK'
    BY <1>1, <1>5 DEF SyncSnapshot, PagesOK
  <1>6. ASSUME NEW w \in AppWindows, OpenWindow(w) \/ Loaded(w)
        PROVE  PagesOK'
    <2>1. /\ UNCHANGED <<tabs, busy, owing, unsynced, rowKey>> /\ life[w] \in {"none", "loading"}
          /\ life' = [life EXCEPT ![w] = "loading"] \/ life' = [life EXCEPT ![w] = "booting"]
      BY <1>6 DEF OpenWindow, Loaded
    <2> QED BY <1>1, <2>1 DEF PagesOK, Lives
  <1>7. ASSUME NEW w \in AppWindows, Boots(w)
        PROVE  PagesOK'
    <2>1. Resumed \subseteq Chats
      BY DEF Resumed, TInv, QueuesOK
    <2>2. /\ life[w] = "booting" /\ UNCHANGED <<busy, rowKey>>
          /\ life' = [life EXCEPT ![w] = "open"] /\ tabs' = [tabs EXCEPT ![w] = Resumed]
          /\ owing' = [owing EXCEPT ![w] = Resumed \cap (rows \cup marked)]
          /\ unsynced' = [unsynced EXCEPT ![w] = TRUE]
      BY <1>7 DEF Boots
    <2>3. busy[w] = {}
      BY <1>1, <2>2
    <2>4. PICK R, O : R = Resumed /\ O = Resumed \cap (rows \cup marked)
      OBVIOUS
    <2>5. tabs' = [tabs EXCEPT ![w] = R] /\ owing' = [owing EXCEPT ![w] = O] /\ O \subseteq R /\ R \subseteq Chats
      BY <2>1, <2>2, <2>4
    <2> QED BY <1>1, <2>2, <2>3, <2>5 DEF PagesOK, Lives
  <1>8. ASSUME NEW w \in AppWindows, Close(w)
        PROVE  PagesOK'
    <2>1. /\ busy[w] = {} /\ busy' = busy
          /\ life' = [life EXCEPT ![w] = "closed"]
          /\ tabs' = [tabs EXCEPT ![w] = {}] /\ owing' = [owing EXCEPT ![w] = {}]
          /\ unsynced' = [unsynced EXCEPT ![w] = FALSE] /\ rowKey' = [rowKey EXCEPT ![w] = None]
      BY <1>8 DEF Close
    <2>2. /\ life' \in [AppWindows -> Lives] /\ tabs' \in [AppWindows -> SUBSET Chats]
          /\ busy' \in [AppWindows -> SUBSET Chats] /\ owing' \in [AppWindows -> SUBSET Chats]
          /\ unsynced' \in [AppWindows -> BOOLEAN] /\ rowKey' \in [AppWindows -> (SUBSET Chats) \cup {None}]
      BY <1>1, <2>1 DEF Lives
    <2>3. \A x \in AppWindows : /\ busy'[x] \subseteq tabs'[x] /\ owing'[x] \subseteq tabs'[x]
                                /\ busy'[x] \cap owing'[x] = {}
                                /\ life'[x] # "open" => busy'[x] = {}
      BY <1>1, <2>1
    <2> QED BY <2>2, <2>3 DEF PagesOK
  <1>9. CASE Start
    <2>1. /\ life' = [x \in AppWindows |-> IF x = Main THEN "loading" ELSE "none"]
          /\ tabs' = [x \in AppWindows |-> {}] /\ busy' = [x \in AppWindows |-> {}]
          /\ owing' = [x \in AppWindows |-> {}] /\ unsynced' = [x \in AppWindows |-> FALSE]
          /\ rowKey' = [x \in AppWindows |-> None]
      BY <1>9 DEF Start, Fresh
    <2>2. /\ life' \in [AppWindows -> Lives] /\ tabs' \in [AppWindows -> SUBSET Chats]
          /\ busy' \in [AppWindows -> SUBSET Chats] /\ owing' \in [AppWindows -> SUBSET Chats]
          /\ unsynced' \in [AppWindows -> BOOLEAN] /\ rowKey' \in [AppWindows -> (SUBSET Chats) \cup {None}]
      BY <2>1 DEF Lives
    <2> QED BY <2>1, <2>2 DEF PagesOK
  <1>10. CASE RequestQuit \/ Coordinates \/ UNCHANGED quitVars
    BY <1>2, <1>10 DEF RequestQuit, Coordinates, Prompt, TimesOut, HandleCall, quitVars, quitPages
  <1>11. ASSUME NEW w \in AppWindows,
                \/ Decide(w)
                \/ \E id \in QuitIds : Poll(w, id) \/ Confirm(w, id) \/ Commit(w, id) \/ Aborted(w, id)
                \/ \E s \in saving[w] : SaveWorkspace(w, s) \/ SaveFails(w, s)
                \/ \E i \in DOMAIN rowWrites[w] : WriteRows(w, i)
         PROVE  UNCHANGED <<life, tabs, busy, owing, unsynced, rowKey>>
    BY <1>11 DEF Decide, Poll, Confirm, Commit, Aborted, SaveWorkspace, SaveFails, WriteRows, quitPages
  <1> QED BY <1>2, <1>3, <1>4, <1>5, <1>6, <1>7, <1>8, <1>9, <1>10, <1>11 DEF QuitNext, Coordinates

\* An event sent to some pages keeps the queues numbered.
LEMMA Delivered ==
    ASSUME NEW q \in [AppWindows -> Seq(Events)], NEW windows \in SUBSET AppWindows, NEW e \in Events,
           NEW n \in Nat, e.id <= n, \A w \in AppWindows : \A i \in DOMAIN q[w] : q[w][i].id <= n,
           heard' = Emitted(q, windows, e)
    PROVE  /\ heard' \in [AppWindows -> Seq(Events)]
           /\ \A w \in AppWindows : \A i \in DOMAIN heard'[w] : heard'[w][i].id <= n
  <1>1. heard' \in [AppWindows -> Seq(Events)]
    BY EmittedTypes
  <1>2. ASSUME NEW w \in AppWindows, NEW i \in DOMAIN heard'[w]
        PROVE  heard'[w][i].id <= n
    <2>1. CASE heard'[w] = q[w]
      BY <1>2, <2>1
    <2>2. CASE heard'[w] = Append(q[w], e)
      <3>1. q[w] \in Seq(Events)
        OBVIOUS
      <3>2. (i \in DOMAIN q[w] /\ heard'[w][i] = q[w][i]) \/ heard'[w][i] = e
        BY <1>2, <2>2, <3>1, Joined
      <3> QED BY <3>2
    <2>3. heard'[w] = IF w \in windows \cap Listening THEN Append(q[w], e) ELSE q[w]
      BY EmittedTypes
    <2> QED BY <2>1, <2>2, <2>3
  <1> QED BY <1>1, <1>2

\* The events are of their type.
LEMMA EventRecords ==
    ASSUME NEW kind \in EventKind, NEW id \in QuitIds
    PROVE  Event(kind, id) \in Events /\ Event(kind, id).id = id /\ Event(kind, id).kind = kind
  BY DEF Event, Events

\* What the coordinator sends names a quit that has begun.
LEMMA OutcomeHeard ==
    ASSUME TInv, NEW windows \in SUBSET AppWindows, NEW q \in [AppWindows -> Seq(Events)],
           \A w \in AppWindows : \A i \in DOMAIN q[w] : q[w][i].id <= quits, Outcome(windows, q)
    PROVE  /\ heard' \in [AppWindows -> Seq(Events)]
           /\ \A w \in AppWindows : \A i \in DOMAIN heard'[w] : heard'[w][i].id <= quits
  <1>1. quits \in Nat /\ (run # None => run.id \in QuitIds /\ run.id = quits)
    BY RunFacts DEF TInv, CoreOK
  <1>2. CASE heard' = q
    BY <1>2
  <1>3. ASSUME run # None, NEW agreed \in BOOLEAN, Commits(run.id, windows, q, agreed)
        PROVE  /\ heard' \in [AppWindows -> Seq(Events)]
               /\ \A w \in AppWindows : \A i \in DOMAIN heard'[w] : heard'[w][i].id <= quits
    <2>1. "commit" \in EventKind
      BY DEF EventKind
    <2>2. Event("commit", run.id) \in Events /\ Event("commit", run.id).id <= quits
      BY <1>1, <1>3, <2>1, EventRecords
    <2> QED BY <1>1, <1>3, <2>2, Delivered DEF Commits
  <1>4. ASSUME ShowsDialog, q = heard
        PROVE  /\ heard' \in [AppWindows -> Seq(Events)]
               /\ \A w \in AppWindows : \A i \in DOMAIN heard'[w] : heard'[w][i].id <= quits
    <2>1. PICK w \in AppWindows : heard' = Emitted(q, {w}, Event("confirm", run.id))
      BY <1>4 DEF ShowsDialog
    <2>2. "confirm" \in EventKind /\ {w} \in SUBSET AppWindows /\ run # None
      BY <1>4 DEF EventKind, ShowsDialog
    <2>3. Event("confirm", run.id) \in Events /\ Event("confirm", run.id).id <= quits
      BY <1>1, <2>2, EventRecords
    <2> QED BY <1>1, <2>1, <2>2, <2>3, Delivered
  <1>5. ASSUME NEW id \in QuitIds, id <= quits, CallsOff(id), q = heard
        PROVE  /\ heard' \in [AppWindows -> Seq(Events)]
               /\ \A w \in AppWindows : \A i \in DOMAIN heard'[w] : heard'[w][i].id <= quits
    <2>1. "aborted" \in EventKind /\ Alive \in SUBSET AppWindows
      BY DEF EventKind, Alive
    <2>2. Event("aborted", id) \in Events /\ Event("aborted", id).id <= quits
      BY <1>5, <2>1, EventRecords
    <2> QED BY <1>1, <1>5, <2>1, <2>2, Delivered DEF CallsOff
  <1> QED BY <1>2, <1>3, <1>4, <1>5 DEF Outcome, Leaves, Asks, Waits, Stays, Drops

\* A page handles the first of its events.
LEMMA HearsStep ==
    ASSUME TInv, NEW w \in AppWindows, NEW e, Hears(w, e)
    PROVE  /\ heard[w] \in Seq(Events) /\ heard[w] # <<>> /\ e = Head(heard[w]) /\ e \in Events
           /\ e.id <= quits /\ w \in Listening /\ app = "running"
           /\ heard' = [heard EXCEPT ![w] = Tail(heard[w])] /\ heard'[w] = Tail(heard[w])
           /\ heard' \in [AppWindows -> Seq(Events)]
           /\ \A x \in AppWindows : \A i \in DOMAIN heard'[x] : heard'[x][i].id <= quits
  <1>1. /\ heard \in [AppWindows -> Seq(Events)]
        /\ \A x \in AppWindows : \A i \in DOMAIN heard[x] : heard[x][i].id <= quits
    BY DEF TInv, QueuesOK, Numbered
  <1>2. /\ heard[w] \in Seq(Events) /\ heard[w] # <<>> /\ e = Head(heard[w]) /\ w \in Listening
        /\ heard' = [heard EXCEPT ![w] = Tail(heard[w])] /\ app = "running"
    BY <1>1 DEF Hears
  <1>3. e \in Events /\ e.id <= quits
    BY <1>1, <1>2, Left
  <1>4. heard' \in [AppWindows -> Seq(Events)] /\ heard'[w] = Tail(heard[w])
    BY <1>1, <1>2, Left
  <1>5. ASSUME NEW x \in AppWindows, NEW i \in DOMAIN heard'[x]
        PROVE  heard'[x][i].id <= quits
    <2>1. CASE x = w
      <3>1. i + 1 \in DOMAIN heard[w] /\ heard'[w][i] = heard[w][i + 1]
        BY <1>2, <1>4, <1>5, <2>1, Left
      <3> QED BY <1>1, <2>1, <3>1
    <2>2. CASE x # w
      <3>1. heard'[x] = heard[x]
        BY <1>1, <1>2, <2>2
      <3> QED BY <1>1, <1>5, <3>1
    <2> QED BY <2>1, <2>2
  <1> QED BY <1>2, <1>3, <1>4, <1>5

\* So does whatever is in a queue of events, after every step.
LEMMA HeardStep ==
    ASSUME TInv, [QuitNext]_quitVars
    PROVE  /\ heard' \in [AppWindows -> Seq(Events)]
           /\ \A w \in AppWindows : \A i \in DOMAIN heard'[w] : heard'[w][i].id <= quits'
  <1>1. /\ heard \in [AppWindows -> Seq(Events)] /\ quits \in Nat
        /\ \A x \in AppWindows : \A i \in DOMAIN heard[x] : heard[x][i].id <= quits
    BY DEF TInv, QueuesOK, Numbered, CoreOK
  <1>2. CASE UNCHANGED <<heard, quits>>
    BY <1>1, <1>2
  <1>3. CASE Coordinates
    <2>1. Outcome(Alive, heard) /\ quits' = quits /\ Alive \in SUBSET AppWindows
      BY <1>3, CoordinatesOutcome DEF Coordinates, Prompt, TimesOut, HandleCall, Alive
    <2> QED BY <1>1, <2>1, OutcomeHeard
  <1>4. ASSUME NEW w \in AppWindows, Close(w)
        PROVE  /\ heard' \in [AppWindows -> Seq(Events)]
               /\ \A x \in AppWindows : \A i \in DOMAIN heard'[x] : heard'[x][i].id <= quits'
    <2> PICK q : q = [heard EXCEPT ![w] = <<>>]
      OBVIOUS
    <2>1. q \in [AppWindows -> Seq(Events)] /\ \A x \in AppWindows : q[x] = heard[x] \/ q[x] = <<>>
      BY <1>1
    <2>2. \A x \in AppWindows : \A i \in DOMAIN q[x] : q[x][i].id <= quits
      BY <1>1, <2>1
    <2>3. Outcome(Alive \ {w}, q) /\ quits' = quits /\ Alive \ {w} \in SUBSET AppWindows
      BY <1>4, ClosesByOutcome DEF Close, Alive
    <2> QED BY <2>1, <2>2, <2>3, OutcomeHeard
  <1>5. CASE RequestQuit
    <2>1. quits' \in Nat /\ quits' = quits + 1 /\ quits' \in QuitIds
      BY <1>1, <1>5, RequestOutcome
    <2>2. \A x \in AppWindows : \A i \in DOMAIN heard[x] : heard[x][i].id <= quits'
      <3>1. ASSUME NEW x \in AppWindows, NEW i \in DOMAIN heard[x]
            PROVE  heard[x][i].id \in Nat
        <4>1. heard[x] \in Seq(Events)
          BY <1>1
        <4>2. heard[x][i] \in Events
          BY <4>1
        <4> QED BY <4>2 DEF Events, QuitIds
      <3> QED BY <1>1, <2>1, <3>1
    <2>3. CASE heard' = heard
      BY <1>1, <2>2, <2>3
    <2>4. PICK n : n = quits'
      OBVIOUS
    <2>5. CASE heard' = Emitted(heard, Alive, Event("poll", n))
      <3>1. "poll" \in EventKind /\ Alive \in SUBSET AppWindows
        BY DEF EventKind, Alive
      <3>2. Event("poll", n) \in Events /\ Event("poll", n).id <= n /\ n \in Nat
        BY <2>1, <2>4, <3>1, EventRecords
      <3> QED BY <1>1, <2>2, <2>4, <2>5, <3>1, <3>2, Delivered
    <2> QED BY <1>5, <2>3, <2>4, <2>5, RequestOutcome DEF Leaves
  <1>6. ASSUME NEW w \in AppWindows, NEW id \in QuitIds,
               Poll(w, id) \/ Confirm(w, id) \/ Commit(w, id) \/ Aborted(w, id)
        PROVE  /\ heard' \in [AppWindows -> Seq(Events)]
               /\ \A x \in AppWindows : \A i \in DOMAIN heard'[x] : heard'[x][i].id <= quits'
    <2>1. quits' = quits
      BY <1>6 DEF Poll, Confirm, Commit, Aborted, quitCore
    <2>2. PICK kind \in EventKind : Hears(w, Event(kind, id))
      BY <1>6 DEF Poll, Confirm, Commit, Aborted, EventKind
    <2> QED BY <2>1, <2>2, HearsStep
  <1>7. CASE Start
    <2>1. heard' = [x \in AppWindows |-> <<>>]
      BY <1>7 DEF Start, Fresh
    <2> QED BY <2>1
  <1>8. CASE UNCHANGED quitVars
    BY <1>2, <1>8 DEF quitVars, quitPart, quitCore
  <1>9. ASSUME NEW w \in AppWindows,
               \/ OpenWindow(w) \/ Loaded(w) \/ Boots(w) \/ SyncSnapshot(w) \/ Decide(w)
               \/ \E c \in Chats : Begin(w, c) \/ End(w, c)
               \/ \E s \in saving[w] : SaveWorkspace(w, s) \/ SaveFails(w, s)
               \/ \E i \in DOMAIN rowWrites[w] : WriteRows(w, i)
        PROVE  UNCHANGED <<heard, quits>>
    BY <1>9 DEF OpenWindow, Loaded, Boots, SyncSnapshot, Decide, Begin, End, SaveWorkspace, SaveFails,
                WriteRows, quitPart, quitCore
  <1> QED BY <1>2, <1>3, <1>4, <1>5, <1>6, <1>7, <1>8, <1>9 DEF QuitNext, Coordinates

\* What a save says is a save of that quit.
LEMMA SaveRecords ==
    ASSUME NEW id \in QuitIds, NEW at \in {"boot", "transcripts", "rows"},
           NEW refs \in SUBSET Chats, NEW shown \in SUBSET Chats
    PROVE  Save(id, at, refs, shown) \in Saves /\ Save(id, at, refs, shown).id = id
  BY DEF Save, Saves

\* So do the saves of the pages.
LEMMA SavingStep ==
    ASSUME TInv, [QuitNext]_quitVars
    PROVE  /\ saving' \in [AppWindows -> SUBSET Saves]
           /\ \A w \in AppWindows : \A s \in saving'[w] : s.id <= quits
  <1>1. /\ saving \in [AppWindows -> SUBSET Saves]
        /\ \A w \in AppWindows : \A s \in saving[w] : s.id <= quits
    BY DEF TInv, QueuesOK, Numbered
  <1>2. CASE saving' = saving
    BY <1>1, <1>2
  <1>3. ASSUME NEW w \in AppWindows, NEW S, S \subseteq Saves, \A s \in S : s.id <= quits,
               saving' = [saving EXCEPT ![w] = S]
        PROVE  /\ saving' \in [AppWindows -> SUBSET Saves]
               /\ \A x \in AppWindows : \A s \in saving'[x] : s.id <= quits
    BY <1>1, <1>3
  <1>4. ASSUME NEW w \in AppWindows, NEW S, S \subseteq saving[w],
               saving' = [saving EXCEPT ![w] = S]
        PROVE  /\ saving' \in [AppWindows -> SUBSET Saves]
               /\ \A x \in AppWindows : \A s \in saving'[x] : s.id <= quits
    BY <1>1, <1>3, <1>4
  <1>5. ASSUME NEW w \in AppWindows, Boots(w)
        PROVE  /\ saving' \in [AppWindows -> SUBSET Saves]
               /\ \A x \in AppWindows : \A s \in saving'[x] : s.id <= quits
    <2>1. CASE Resumed = {}
      BY <1>4, <1>5, <2>1 DEF Boots
    <2>2. CASE Resumed # {}
      <3> PICK S : S = {Save(s.id, "transcripts", Resumed \cap (rows \cup marked), Resumed) : s \in saving[w]}
        OBVIOUS
      <3>1. saving' = [saving EXCEPT ![w] = S]
        BY <1>5, <2>2 DEF Boots
      <3>2. Resumed \in SUBSET Chats /\ Resumed \cap (rows \cup marked) \in SUBSET Chats
        BY DEF Resumed, TInv, QueuesOK
      <3>3. ASSUME NEW t \in S PROVE t \in Saves /\ t.id <= quits
        <4>1. PICK s \in saving[w] :
                t = Save(s.id, "transcripts", Resumed \cap (rows \cup marked), Resumed)
          OBVIOUS
        <4>2. s.id \in QuitIds /\ s.id <= quits
          BY SaveFacts
        <4> QED BY <3>2, <4>1, <4>2, SaveRecords
      <3> QED BY <1>3, <3>1, <3>3
    <2> QED BY <2>1, <2>2
  <1>6. ASSUME NEW w \in AppWindows, NEW id \in QuitIds, Commit(w, id)
        PROVE  /\ saving' \in [AppWindows -> SUBSET Saves]
               /\ \A x \in AppWindows : \A s \in saving'[x] : s.id <= quits
    <2>1. Hears(w, Event("commit", id)) /\ "commit" \in EventKind
      BY <1>6 DEF Commit, EventKind
    <2>2. id <= quits
      BY <2>1, HearsStep, EventRecords
    <2>3. tabs[w] \in SUBSET Chats /\ busy[w] \in SUBSET Chats
      BY DEF TInv, PagesOK
    <2>4. PICK s : /\ saving' = [saving EXCEPT ![w] = @ \cup {s}]
                   /\ s = Save(id, "transcripts", QuitRefs(w), tabs[w]) \/ s = Save(id, "boot", {}, {})
      BY <1>6 DEF Commit
    <2>5. s \in Saves /\ s.id = id
      BY <2>3, <2>4, SaveRecords DEF QuitRefs
    <2>6. saving' = [saving EXCEPT ![w] = saving[w] \cup {s}] /\ saving[w] \subseteq Saves
      BY <1>1, <2>4
    <2>7. \A t \in saving[w] \cup {s} : t.id <= quits
      BY <1>1, <2>2, <2>5
    <2> QED BY <1>3, <2>5, <2>6, <2>7
  <1>7. ASSUME NEW w \in AppWindows, NEW s \in saving[w], SaveWorkspace(w, s)
        PROVE  /\ saving' \in [AppWindows -> SUBSET Saves]
               /\ \A x \in AppWindows : \A t \in saving'[x] : t.id <= quits
    <2> PICK r : r = [s EXCEPT !.at = "rows"]
      OBVIOUS
    <2>1. s \in Saves /\ s.id <= quits
      BY SaveFacts
    <2>2. r \in Saves /\ r.id <= quits
      BY <2>1 DEF Saves
    <2>3. saving' = [saving EXCEPT ![w] = (saving[w] \ {s}) \cup {r}]
      BY <1>7 DEF SaveWorkspace
    <2>4. (saving[w] \ {s}) \cup {r} \subseteq Saves /\ \A t \in (saving[w] \ {s}) \cup {r} : t.id <= quits
      BY <1>1, <2>2
    <2> QED BY <1>3, <2>3, <2>4
  <1>8. ASSUME NEW w \in AppWindows, Close(w) \/ \E s \in saving[w] : SaveFails(w, s)
        PROVE  /\ saving' \in [AppWindows -> SUBSET Saves]
               /\ \A x \in AppWindows : \A s \in saving'[x] : s.id <= quits
    <2>1. PICK S : S \subseteq saving[w] /\ saving' = [saving EXCEPT ![w] = S]
      <3>1. CASE Close(w)
        <4>1. {} \subseteq saving[w] /\ saving' = [saving EXCEPT ![w] = {}]
          BY <3>1 DEF Close
        <4> QED BY <4>1
      <3>2. ASSUME NEW s \in saving[w], SaveFails(w, s)
            PROVE  \E S : S \subseteq saving[w] /\ saving' = [saving EXCEPT ![w] = S]
        <4>1. saving[w] \ {s} \subseteq saving[w] /\ saving' = [saving EXCEPT ![w] = saving[w] \ {s}]
          BY <3>2 DEF SaveFails
        <4> QED BY <4>1
      <3> QED BY <1>8, <3>1, <3>2
    <2> QED BY <1>4, <2>1
  <1>9. ASSUME NEW w \in AppWindows, NEW i \in DOMAIN rowWrites[w], WriteRows(w, i)
        PROVE  /\ saving' \in [AppWindows -> SUBSET Saves]
               /\ \A x \in AppWindows : \A s \in saving'[x] : s.id <= quits
    <2>1. PICK done : saving' = [saving EXCEPT ![w] = saving[w] \ done]
      BY <1>9 DEF WriteRows
    <2>2. saving[w] \ done \subseteq saving[w]
      OBVIOUS
    <2> QED BY <1>4, <2>1, <2>2
  <1>10. CASE Start
    BY <1>10 DEF Start, Fresh
  <1>11. CASE RequestQuit \/ Coordinates \/ UNCHANGED quitVars
    BY <1>2, <1>11 DEF RequestQuit, Coordinates, Prompt, TimesOut, HandleCall, quitVars, quitPart
  <1>12. ASSUME NEW w \in AppWindows,
                \/ OpenWindow(w) \/ Loaded(w) \/ SyncSnapshot(w) \/ Decide(w)
                \/ \E c \in Chats : Begin(w, c) \/ End(w, c)
                \/ \E id \in QuitIds : Poll(w, id) \/ Confirm(w, id) \/ Aborted(w, id)
         PROVE  saving' = saving
    BY <1>12 DEF OpenWindow, Loaded, SyncSnapshot, Decide, Begin, End, Poll, Confirm, Aborted, quitPart
  <1> QED BY <1>2, <1>5, <1>6, <1>7, <1>8, <1>9, <1>10, <1>11, <1>12 DEF QuitNext, Coordinates

\* So do their dialogs.
LEMMA DialogStep ==
    ASSUME TInv, [QuitNext]_quitVars
    PROVE  /\ dialog' \in [AppWindows -> QuitIds \cup {None}]
           /\ \A w \in AppWindows : dialog'[w] # None => dialog'[w] <= quits
           /\ quitting' \in [AppWindows -> BOOLEAN]
  <1>1. /\ dialog \in [AppWindows -> QuitIds \cup {None}]
        /\ \A w \in AppWindows : dialog[w] # None => dialog[w] <= quits
        /\ quitting \in [AppWindows -> BOOLEAN]
    BY DEF TInv, QueuesOK, Numbered
  <1>2. ASSUME UNCHANGED dialog
        PROVE  /\ dialog' \in [AppWindows -> QuitIds \cup {None}]
               /\ \A w \in AppWindows : dialog'[w] # None => dialog'[w] <= quits
    BY <1>1, <1>2
  <1>3. ASSUME UNCHANGED quitting
        PROVE  quitting' \in [AppWindows -> BOOLEAN]
    BY <1>1, <1>3
  <1>4. ASSUME NEW w \in AppWindows, dialog' = [dialog EXCEPT ![w] = None]
        PROVE  /\ dialog' \in [AppWindows -> QuitIds \cup {None}]
               /\ \A x \in AppWindows : dialog'[x] # None => dialog'[x] <= quits
    BY <1>1, <1>4
  <1>5. ASSUME NEW w \in AppWindows, NEW b \in BOOLEAN, quitting' = [quitting EXCEPT ![w] = b]
        PROVE  quitting' \in [AppWindows -> BOOLEAN]
    BY <1>1, <1>5
  <1>6. ASSUME NEW w \in AppWindows, Boots(w)
        PROVE  dialog' = dialog /\ quitting' \in [AppWindows -> BOOLEAN]
    <2>1. PICK b \in BOOLEAN : b = (saving[w] # {})
      OBVIOUS
    <2>2. quitting' = [quitting EXCEPT ![w] = b] /\ dialog' = dialog
      BY <1>6, <2>1 DEF Boots
    <2> QED BY <1>5, <2>2
  <1>7. ASSUME NEW w \in AppWindows, NEW id \in QuitIds, Confirm(w, id)
        PROVE  /\ dialog' \in [AppWindows -> QuitIds \cup {None}]
               /\ \A x \in AppWindows : dialog'[x] # None => dialog'[x] <= quits
               /\ quitting' = quitting
    <2>1. Hears(w, Event("confirm", id)) /\ "confirm" \in EventKind
      BY <1>7 DEF Confirm, EventKind
    <2>2. id <= quits
      BY <2>1, HearsStep, EventRecords
    <2>3. quitting' = quitting /\ (dialog' = dialog \/ dialog' = [dialog EXCEPT ![w] = id])
      BY <1>7 DEF Confirm
    <2> QED BY <1>1, <2>2, <2>3
  <1>8. ASSUME NEW w \in AppWindows, NEW id \in QuitIds, Commit(w, id)
        PROVE  dialog' = dialog /\ quitting' \in [AppWindows -> BOOLEAN]
    BY <1>3, <1>5, <1>8 DEF Commit
  <1>9. ASSUME NEW w \in AppWindows,
               \/ Close(w) \/ \E id \in QuitIds : Aborted(w, id)
               \/ \E s \in saving[w] : SaveFails(w, s)
        PROVE  /\ quitting' \in [AppWindows -> BOOLEAN]
               /\ dialog' = dialog \/ dialog' = [dialog EXCEPT ![w] = None]
    BY <1>5, <1>9 DEF Close, Aborted, SaveFails
  <1>10. CASE Start
    BY <1>10 DEF Start, Fresh
  <1>11. CASE RequestQuit \/ Coordinates \/ UNCHANGED quitVars
    BY <1>2, <1>3, <1>11 DEF RequestQuit, Coordinates, Prompt, TimesOut, HandleCall, quitVars, quitPart
  <1>12. ASSUME NEW w \in AppWindows, Decide(w)
         PROVE  dialog' = [dialog EXCEPT ![w] = None] /\ quitting' = quitting
    BY <1>12 DEF Decide
  <1>13. ASSUME NEW w \in AppWindows,
                \/ OpenWindow(w) \/ Loaded(w) \/ SyncSnapshot(w)
                \/ \E c \in Chats : Begin(w, c) \/ End(w, c)
                \/ \E id \in QuitIds : Poll(w, id)
                \/ \E s \in saving[w] : SaveWorkspace(w, s)
                \/ \E i \in DOMAIN rowWrites[w] : WriteRows(w, i)
         PROVE  UNCHANGED <<dialog, quitting>>
    BY <1>13 DEF OpenWindow, Loaded, SyncSnapshot, Begin, End, Poll, SaveWorkspace, WriteRows, quitPart
  <1> QED BY <1>2, <1>3, <1>4, <1>6, <1>7, <1>8, <1>9, <1>10, <1>11, <1>12, <1>13 DEF QuitNext, Coordinates

\* A write of the table joins, or leaves, a page's queue of them.
LEMMA StoreStep ==
    ASSUME TInv, [QuitNext]_quitVars
    PROVE  /\ rowWrites' \in [AppWindows -> Seq(Writes)]
           /\ rows' \subseteq Chats /\ shot' \subseteq Chats /\ marked' \subseteq Chats
  <1>1. /\ rowWrites \in [AppWindows -> Seq(Writes)]
        /\ rows \subseteq Chats /\ shot \subseteq Chats /\ marked \subseteq Chats
        /\ tabs \in [AppWindows -> SUBSET Chats] /\ busy \in [AppWindows -> SUBSET Chats]
    BY DEF TInv, QueuesOK, PagesOK
  <1>2. CASE UNCHANGED <<rowWrites, quitStore>>
    BY <1>1, <1>2 DEF quitStore
  <1>3. ASSUME NEW w \in AppWindows, NEW refs \in SUBSET Chats, NEW id \in QuitIds \cup {0},
               rowWrites' = [rowWrites EXCEPT ![w] = Append(@, [refs |-> refs, id |-> id])]
        PROVE  rowWrites' \in [AppWindows -> Seq(Writes)]
    <2>1. [refs |-> refs, id |-> id] \in Writes
      BY DEF Writes
    <2>2. Append(rowWrites[w], [refs |-> refs, id |-> id]) \in Seq(Writes)
      BY <1>1, <2>1, AppendProperties
    <2> QED BY <1>1, <1>3, <2>2
  <1>4. ASSUME NEW w \in AppWindows, NEW refs \in SUBSET Chats, InFlight(w, refs)
        PROVE  rowWrites' \in [AppWindows -> Seq(Writes)]
    <2>1. CASE rowWrites' = rowWrites
      BY <1>1, <2>1
    <2>2. CASE rowWrites' = [rowWrites EXCEPT ![w] = Append(@, [refs |-> refs, id |-> 0])]
      BY <1>3, <2>2
    <2> QED BY <1>4, <2>1, <2>2 DEF InFlight
  <1>5. ASSUME NEW w \in AppWindows, NEW c \in Chats, Begin(w, c) \/ End(w, c)
        PROVE  /\ rowWrites' \in [AppWindows -> Seq(Writes)]
               /\ rows' \subseteq Chats /\ shot' \subseteq Chats /\ marked' \subseteq Chats
    <2>1. /\ InFlight(w, busy[w] \cup {c}) \/ InFlight(w, busy[w] \ {c})
          /\ rows' = rows /\ shot' = shot /\ marked' = marked \ {c}
      BY <1>5 DEF Begin, End
    <2>2. busy[w] \cup {c} \in SUBSET Chats /\ busy[w] \ {c} \in SUBSET Chats
      BY <1>1
    <2> QED BY <1>1, <1>4, <2>1, <2>2
  <1>6. ASSUME NEW w \in AppWindows, SyncSnapshot(w) \/ Boots(w) \/ Close(w)
        PROVE  /\ rowWrites' \in [AppWindows -> Seq(Writes)]
               /\ rows' \subseteq Chats /\ shot' \subseteq Chats /\ marked' \subseteq Chats
    <2>1. /\ rowWrites' = rowWrites /\ rows' = rows
          /\ shot' \in {shot, tabs[w]} /\ marked' \in {marked, marked \cup rows}
      BY <1>6 DEF SyncSnapshot, Boots, Close
    <2> QED BY <1>1, <2>1
  <1>7. ASSUME NEW w \in AppWindows, NEW s \in saving[w], SaveWorkspace(w, s)
        PROVE  /\ rowWrites' \in [AppWindows -> Seq(Writes)]
               /\ rows' \subseteq Chats /\ shot' \subseteq Chats /\ marked' \subseteq Chats
    <2>1. s.refs \in SUBSET Chats /\ s.shown \subseteq Chats /\ s.id \in QuitIds \cup {0}
      BY SaveFacts
    <2>2. /\ rowWrites' = [rowWrites EXCEPT ![w] = Append(@, [refs |-> s.refs, id |-> s.id])]
          /\ rows' = rows /\ shot' = s.shown /\ marked' = marked \cup s.refs
      BY <1>7 DEF SaveWorkspace
    <2>3. rowWrites' \in [AppWindows -> Seq(Writes)]
      BY <1>3, <2>1, <2>2
    <2> QED BY <1>1, <2>1, <2>2, <2>3
  <1>8. ASSUME NEW w \in AppWindows, NEW s \in saving[w], SaveFails(w, s)
        PROVE  /\ rowWrites' \in [AppWindows -> Seq(Writes)]
               /\ rows' \subseteq Chats /\ shot' \subseteq Chats /\ marked' \subseteq Chats
    <2>1. s.refs \subseteq Chats /\ rows' = rows /\ shot' = shot
      BY <1>8, SaveFacts DEF SaveFails
    <2>2. CASE s.at = "transcripts"
      <3>1. rowWrites' = rowWrites /\ \E refs \in SUBSET s.refs : marked' = marked \cup refs
        BY <1>8, <2>2 DEF SaveFails
      <3> QED BY <1>1, <2>1, <3>1
    <2>3. CASE s.at = "rows" /\ Head(rowWrites[w]).id = s.id
      <3>1. rowWrites' = [rowWrites EXCEPT ![w] = Tail(@)] /\ marked' = marked
        BY <1>8, <2>3 DEF SaveFails
      <3>2. CASE rowWrites[w] # <<>>
        <4>1. Tail(rowWrites[w]) \in Seq(Writes)
          BY <1>1, <3>2
        <4> QED BY <1>1, <2>1, <3>1, <4>1
      <3>3. CASE rowWrites[w] = <<>>
        <4>1. Tail(rowWrites[w]) \in Seq(Writes)
          BY <3>3
        <4> QED BY <1>1, <2>1, <3>1, <4>1
      <3> QED BY <3>2, <3>3
    <2> QED BY <1>8, <2>2, <2>3 DEF SaveFails
  <1>9. ASSUME NEW w \in AppWindows, NEW i \in DOMAIN rowWrites[w], WriteRows(w, i)
        PROVE  /\ rowWrites' \in [AppWindows -> Seq(Writes)]
               /\ rows' \subseteq Chats /\ shot' \subseteq Chats /\ marked' \subseteq Chats
    <2> PICK p : p = rowWrites[w]
      OBVIOUS
    <2>1. p \in Seq(Writes) /\ i = 1 /\ i \in 1 .. Len(p) /\ Len(p) \in Nat
      BY <1>1, <1>9 DEF WriteRows, NextWrite
    <2> PICK q : q = [k \in 1 .. (Len(p) - 1) |-> IF k < i THEN p[k] ELSE p[k + 1]]
      OBVIOUS
    <2>2. /\ rows' = p[i].refs /\ shot' = shot /\ marked' = marked
          /\ rowWrites' = [rowWrites EXCEPT ![w] = q]
      BY <1>9 DEF WriteRows
    <2>3. \A k \in 1 .. (Len(p) - 1) : (IF k < i THEN p[k] ELSE p[k + 1]) \in Writes
      BY <2>1
    <2>4. Len(p) - 1 \in Nat
      BY <2>1
    <2>5. q \in Seq(Writes)
      BY <2>3, <2>4
    <2>6. p[i].refs \subseteq Chats
      <3>1. p[i] \in Writes
        BY <2>1
      <3> QED BY <3>1 DEF Writes
    <2> QED BY <1>1, <2>2, <2>5, <2>6
  <1>10. CASE Start
    BY <1>1, <1>10 DEF Start, Fresh, quitStore
  <1>11. CASE RequestQuit \/ Coordinates \/ UNCHANGED quitVars
    BY <1>2, <1>11 DEF RequestQuit, Coordinates, Prompt, TimesOut, HandleCall, quitVars, quitPages
  <1>12. ASSUME NEW w \in AppWindows,
                \/ OpenWindow(w) \/ Loaded(w) \/ Decide(w)
                \/ \E id \in QuitIds : Poll(w, id) \/ Confirm(w, id) \/ Commit(w, id) \/ Aborted(w, id)
         PROVE  UNCHANGED <<rowWrites, quitStore>>
    BY <1>12 DEF OpenWindow, Loaded, Decide, Poll, Confirm, Commit, Aborted, quitPages
  <1> QED BY <1>2, <1>5, <1>6, <1>7, <1>8, <1>9, <1>10, <1>11, <1>12 DEF QuitNext, Coordinates

\* The types are kept by every step: quits are numbered upwards as long as the
\* process runs, and a new process starts with nothing on its way.
LEMMA TypesStay ==
    ASSUME TInv, [QuitNext]_quitVars
    PROVE  TInv'
  <1>1. PagesOK' /\ CoreOK' /\ (Start \/ quits <= quits')
    BY PagesStep, CoreStep
  <1>2. QueuesOK'
    BY HeardStep, SavingStep, DialogStep, StoreStep DEF QueuesOK
  <1>3. Numbered'
    <2>1. CASE Start
      BY <2>1 DEF Start, Fresh, Numbered
    <2>2. CASE quits <= quits'
      <3>1. quits \in Nat /\ quits' \in Nat
        BY <1>1 DEF TInv, CoreOK
      <3>2. ASSUME NEW id \in QuitIds, id <= quits
            PROVE  id <= quits'
        BY <2>2, <3>1, <3>2 DEF QuitIds
      <3>3. ASSUME NEW c \in calls'
            PROVE  c.id <= quits'
        <4>1. c.id \in QuitIds
          BY <1>1, <3>3 DEF CoreOK, Replies, Yeses
        <4>2. c.id <= quits
          BY <3>3, CallsStep DEF TInv, Numbered
        <4> QED BY <3>2, <4>1, <4>2
      <3>4. ASSUME NEW w \in AppWindows, NEW s \in saving'[w]
            PROVE  s.id <= quits'
        <4>1. s \in Saves /\ s.id <= quits
          BY <3>4, SavingStep
        <4> QED BY <3>2, <4>1 DEF Saves
      <3>5. ASSUME NEW w \in AppWindows, dialog'[w] # None
            PROVE  dialog'[w] <= quits'
        <4>1. dialog'[w] \in QuitIds /\ dialog'[w] <= quits
          BY <3>5, DialogStep
        <4> QED BY <3>2, <4>1
      <3> QED BY <3>3, <3>4, <3>5, HeardStep DEF Numbered
    <2> QED BY <1>1, <2>1, <2>2
  <1> QED BY <1>1, <1>2, <1>3 DEF TInv

\* The types hold at the start.
LEMMA TypesBegin == QuitInit => TInv
  <1> SUFFICES ASSUME QuitInit PROVE TInv
    OBVIOUS
  <1>1. PagesOK
    BY DEF QuitInit, PagesOK, Lives
  <1>2. QueuesOK
    BY DEF QuitInit, QueuesOK
  <1>3. CoreOK
    BY QuitAssumption DEF QuitInit, CoreOK
  <1>4. Numbered
    BY DEF QuitInit, Numbered
  <1> QED BY <1>1, <1>2, <1>3, <1>4 DEF TInv

-----------------------------------------------------------------------------
(* Nobody's work is killed unasked *)

\* What a page does other than answering the poll, and closing.
PageAction(w) ==
    \/ OpenWindow(w) \/ Loaded(w) \/ Boots(w) \/ SyncSnapshot(w) \/ Decide(w)
    \/ \E c \in Chats : Begin(w, c) \/ End(w, c)
    \/ \E id \in QuitIds : Confirm(w, id) \/ Commit(w, id) \/ Aborted(w, id)
    \/ \E s \in saving[w] : SaveWorkspace(w, s) \/ SaveFails(w, s)
    \/ \E i \in DOMAIN rowWrites[w] : WriteRows(w, i)

\* The steps: the coordinator, a restart, and what the pages do.
LEMMA AllSteps ==
    ASSUME QuitNext
    PROVE  \/ RequestQuit \/ Coordinates \/ Start
           \/ \E w \in AppWindows : Close(w) \/ PageAction(w) \/ \E id \in QuitIds : Poll(w, id)
  BY DEF QuitNext, Coordinates, PageAction

\* A page decides nothing for the coordinator, and answers only as itself.
LEMMA PageActionIsQuiet ==
    ASSUME NEW w \in AppWindows, PageAction(w)
    PROVE  /\ UNCHANGED <<app, run, owed, exit, quits, polled, answered>> /\ app = "running"
           /\ \A c \in calls' : c \in calls \/ (c.kind # "reply" /\ c.from = w)
  <1>1. UNCHANGED <<app, run, owed, exit, quits, polled, answered>> /\ app = "running"
    <2>1. CASE \/ OpenWindow(w) \/ Loaded(w) \/ Boots(w) \/ SyncSnapshot(w) \/ Decide(w)
               \/ \E c \in Chats : Begin(w, c) \/ End(w, c)
      BY <2>1 DEF OpenWindow, Loaded, Boots, SyncSnapshot, Decide, Begin, End, quitCore, quitPast
    <2>2. CASE \E id \in QuitIds : Confirm(w, id) \/ Commit(w, id) \/ Aborted(w, id)
      BY <2>2 DEF Confirm, Commit, Aborted, Hears, quitCore, quitPast
    <2>3. CASE \/ \E s \in saving[w] : SaveWorkspace(w, s) \/ SaveFails(w, s)
               \/ \E i \in DOMAIN rowWrites[w] : WriteRows(w, i)
      BY <2>3 DEF SaveWorkspace, SaveFails, WriteRows, quitCore, quitPast
    <2> QED BY <2>1, <2>2, <2>3 DEF PageAction
  <1>2. CASE calls' = calls
    BY <1>1, <1>2
  <1>3. CASE Boots(w)
    <2>1. calls' = calls \/ calls' = calls \cup {Call(w, "ready", s.id, TRUE) : s \in saving[w]}
      BY <1>3 DEF Boots
    <2> QED BY <1>1, <2>1 DEF Call
  <1>4. ASSUME NEW i \in DOMAIN rowWrites[w], WriteRows(w, i)
        PROVE  \A c \in calls' : c \in calls \/ (c.kind # "reply" /\ c.from = w)
    <2>1. PICK done : calls' = calls \cup {Call(w, "ready", s.id, TRUE) : s \in done}
      BY <1>4 DEF WriteRows
    <2> QED BY <2>1 DEF Call
  <1>5. ASSUME Decide(w) \/ (\E id \in QuitIds : Confirm(w, id))
               \/ (\E s \in saving[w] : SaveFails(w, s))
        PROVE  \A c \in calls' : c \in calls \/ (c.kind # "reply" /\ c.from = w)
    <2>1. CASE Decide(w)
      BY <2>1 DEF Decide, Call
    <2>2. CASE \E id \in QuitIds : Confirm(w, id)
      BY <2>2 DEF Confirm, Call
    <2>3. CASE \E s \in saving[w] : SaveFails(w, s)
      BY <2>3 DEF SaveFails, Call
    <2> QED BY <1>5, <2>1, <2>2, <2>3
  <1>6. CASE \/ OpenWindow(w) \/ Loaded(w) \/ SyncSnapshot(w)
             \/ \E c \in Chats : Begin(w, c) \/ End(w, c)
             \/ \E id \in QuitIds : Commit(w, id) \/ Aborted(w, id)
             \/ \E s \in saving[w] : SaveWorkspace(w, s)
    BY <1>2, <1>6 DEF OpenWindow, Loaded, SyncSnapshot, Begin, End, Commit, Aborted, SaveWorkspace, quitCore
  <1> QED BY <1>1, <1>2, <1>3, <1>4, <1>5, <1>6 DEF PageAction

\* Once every turn of a window began after its answer, that stays so until the
\* next quit asks again.
LEMMA ToldStays ==
    ASSUME TInv, NEW v \in AppWindows, PageAction(v) \/ Close(v), NEW w \in AppWindows, Told(w)
    PROVE  Told(w)'
  <1>1. /\ {w} \X busy[w] \subseteq after /\ (w \in answered \/ life[w] = "closed")
        /\ busy \in [AppWindows -> SUBSET Chats] /\ life \in [AppWindows -> Lives]
    BY DEF Told, TInv, PagesOK
  <1>2. CASE UNCHANGED <<busy, after, life, answered>>
    BY <1>1, <1>2 DEF Told
  <1>3. ASSUME NEW c \in Chats, Begin(v, c)
        PROVE  Told(w)'
    <2>1. /\ life[v] = "open" /\ life' = life /\ answered' = answered
          /\ busy' = [busy EXCEPT ![v] = busy[v] \cup {c}]
          /\ after' = IF v \in answered THEN after \cup {<<v, c>>} ELSE after
      BY <1>3 DEF Begin, InFlight
    <2>2. CASE w = v
      <3>1. w \in answered
        BY <1>1, <2>1, <2>2
      <3>2. busy'[w] = busy[w] \cup {c} /\ after' = after \cup {<<w, c>>}
        BY <1>1, <2>1, <2>2, <3>1
      <3> QED BY <1>1, <2>1, <3>1, <3>2 DEF Told
    <2>3. CASE w # v
      <3>1. busy'[w] = busy[w] /\ after \subseteq after'
        BY <1>1, <2>1, <2>3
      <3> QED BY <1>1, <2>1, <3>1 DEF Told
    <2> QED BY <2>2, <2>3
  <1>4. ASSUME NEW c \in Chats, End(v, c)
        PROVE  Told(w)'
    <2>1. /\ life' = life /\ answered' = answered
          /\ busy' = [busy EXCEPT ![v] = busy[v] \ {c}]
          /\ after' = after \ {<<v, c>>}
      BY <1>4 DEF End, InFlight
    <2>2. ASSUME NEW d \in busy'[w]
          PROVE  <<w, d>> \in after'
      <3>1. d \in busy[w] /\ (w = v => d # c)
        BY <1>1, <2>1, <2>2
      <3> QED BY <1>1, <2>1, <3>1
    <2> QED BY <1>1, <2>1, <2>2 DEF Told
  <1>5. CASE OpenWindow(v) \/ Loaded(v) \/ Boots(v) \/ Close(v)
    <2>1. /\ UNCHANGED <<busy, after, answered>>
          /\ \/ life[v] # "closed" /\ \E x : life' = [life EXCEPT ![v] = x]
             \/ life' = [life EXCEPT ![v] = "closed"]
      <3>1. UNCHANGED <<busy, after, answered>>
        BY <1>5 DEF OpenWindow, Loaded, Boots, Close, quitPast
      <3> QED BY <3>1, <1>5 DEF OpenWindow, Loaded, Boots, Close
    <2>2. life[w] = "closed" => life'[w] = "closed"
      BY <1>1, <2>1
    <2> QED BY <1>1, <2>1, <2>2 DEF Told
  <1>6. CASE \/ SyncSnapshot(v) \/ Decide(v)
             \/ \E id \in QuitIds : Confirm(v, id) \/ Commit(v, id) \/ Aborted(v, id)
             \/ \E s \in saving[v] : SaveWorkspace(v, s) \/ SaveFails(v, s)
             \/ \E i \in DOMAIN rowWrites[v] : WriteRows(v, i)
    BY <1>2, <1>6 DEF SyncSnapshot, Decide, Confirm, Commit, Aborted, SaveWorkspace, SaveFails, WriteRows,
                      quitPages, quitPast
  <1> QED BY <1>3, <1>4, <1>5, <1>6 DEF PageAction

\* A window that is not there runs nothing.
LEMMA GoneIsIdle ==
    ASSUME TInv, NEW w \in AppWindows, w \notin Alive
    PROVE  busy[w] = {}
  BY DEF TInv, PagesOK, Alive

\* What a step must still show of the coordinator's decision.
LEMMA AgreedMoves ==
    ASSUME Agreed, polled' = polled, \A w \in AppWindows : Told(w) => Told(w)',
           \A c \in calls' : c \in calls \/ c.kind # "reply" \/ (c.value = 0 /\ c.id = run.id => Told(c.from)'),
           \A c \in calls : c.from \in AppWindows,
           run' # None => run # None /\ run'.id = run.id,
           run' # None /\ run'.stage = "polling" /\ run'.inFlight = 0 =>
             \A w \in polled \ run'.pending : Told(w)',
           run' # None /\ run'.stage = "committing" /\ ~exit'.agreed => \A w \in polled : Told(w)',
           ExitIsAgreed'
    PROVE  Agreed'
  BY DEF Agreed

\* A page makes a reply of no turns only when it has none.
LEMMA ReplyIsTrue ==
    ASSUME TInv, NEW w \in AppWindows, NEW id \in QuitIds, Poll(w, id),
           NEW c \in calls', c \notin calls, c.value = 0, run # None, c.id = run.id
    PROVE  Told(c.from)'
  <1>1. c = Call(w, "reply", id, Cardinality(busy[w]))
    BY DEF Poll
  <1>2. c.from = w /\ c.id = id /\ c.value = Cardinality(busy[w])
    BY <1>1 DEF Call
  <1>3. busy[w] = {}
    BY <1>2, Counted DEF TInv, PagesOK
  <1>4. w \in answered' /\ busy' = busy
    BY <1>2 DEF Poll, quitPages
  <1> QED BY <1>2, <1>3, <1>4 DEF Told

\* Every step keeps that the answers counted are still true of their windows.
LEMMA AgreedStep ==
    ASSUME TInv, Agreed, [QuitNext]_quitVars
    PROVE  Agreed'
  <1>2. polled \subseteq AppWindows /\ ExitIsAgreed /\ \A c \in calls : c.from \in AppWindows
    BY RunFacts DEF Agreed, TInv
  <1>3. run # None =>
           /\ \A c \in calls : c.kind = "reply" /\ c.id = run.id /\ c.value = 0 => Told(c.from)
           /\ run.stage = "polling" /\ run.inFlight = 0 => \A w \in polled \ run.pending : Told(w)
           /\ run.stage = "committing" /\ ~exit.agreed => \A w \in polled : Told(w)
    BY DEF Agreed
  \* The app ends with everybody told, or with a yes.
  <1>4. ASSUME NEW agreed \in BOOLEAN, NEW why, NEW q, Leaves(why, agreed, q), polled' = polled,
               ~agreed => \A w \in polled : Told(w)',
               \A w \in AppWindows : Told(w) => Told(w)',
               calls' \subseteq calls
        PROVE  Agreed'
    <2>1. run' = None /\ exit'.agreed = agreed
      BY <1>4 DEF Leaves
    <2>2. ExitIsAgreed'
      BY <1>4, <2>1 DEF ExitIsAgreed, Told
    <2> QED BY <1>2, <1>4, <2>1, <2>2 DEF Agreed
  \* The coordinator goes on, or drops the quit.
  <1>5. ASSUME app = "running", app' = app, polled' = polled,
               \A w \in AppWindows : Told(w) => Told(w)', calls' \subseteq calls,
               run' # None => run # None /\ run'.id = run.id,
               run' # None /\ run'.stage = "polling" /\ run'.inFlight = 0 =>
                 \A w \in polled \ run'.pending : Told(w)',
               run' # None /\ run'.stage = "committing" /\ ~exit'.agreed => \A w \in polled : Told(w)'
        PROVE  Agreed'
    <2>1. ExitIsAgreed'
      BY <1>5 DEF ExitIsAgreed
    <2> QED BY <1>2, <1>5, <2>1, AgreedMoves
  <1>6. ASSUME NEW windows, NEW q, NEW agreed \in BOOLEAN, Commits(run.id, windows, q, agreed),
               app = "running", run # None, polled' = polled,
               ~agreed => \A w \in polled : Told(w)',
               \A w \in AppWindows : Told(w) => Told(w)', calls' \subseteq calls
        PROVE  Agreed'
    <2>1. /\ app' = app /\ run'.id = run.id /\ run'.stage = "committing"
          /\ exit'.agreed = agreed
      BY <1>6 DEF Commits, TInv, CoreOK
    <2> QED BY <1>5, <1>6, <2>1
  <1>7. ASSUME NEW q, Asks(run.id, q), app = "running", run # None, polled' = polled,
               \A w \in AppWindows : Told(w) => Told(w)', calls' \subseteq calls
        PROVE  Agreed'
    BY <1>5, <1>7 DEF Asks
  <1>8. CASE Coordinates
    <2>1. /\ polled' = polled /\ calls' \subseteq calls /\ app = "running"
          /\ UNCHANGED <<busy, after, life, answered>>
      BY <1>8, CoordinatesOutcome DEF Coordinates, Prompt, TimesOut, HandleCall, quitPages
    <2>2. \A w \in AppWindows : Told(w) => Told(w)'
      BY <2>1 DEF Told
    <2>3. CASE Stays(heard)
      BY <1>3, <1>5, <1>2, <2>1, <2>2, <2>3 DEF Stays
    <2>4. CASE Prompt
      <3>1. CASE Alive = {} /\ Leaves("empty", FALSE, heard)
        <4>1. \A w \in polled : busy'[w] = {}
          BY <1>2, <2>1, <3>1, GoneIsIdle
        <4>2. run' = None /\ ExitIsAgreed'
          BY <2>1, <3>1, <4>1 DEF Leaves, ExitIsAgreed
        <4> QED BY <1>2, <2>1, <4>2 DEF Agreed
      <3>2. CASE ShowsDialog
        BY <1>5, <2>1, <2>2, <3>2 DEF ShowsDialog
      <3> QED BY <2>4, <3>1, <3>2, PromptOutcome
    <2>5. CASE TimesOut
      <3>1. CASE Asks(run.id, heard) /\ run # None
        BY <1>7, <2>1, <2>2, <3>1
      <3>2. CASE Drops(heard)
        BY <1>5, <2>1, <2>2, <3>2 DEF Drops
      <3>3. CASE run # None /\ run.stage = "committing" /\ Leaves("timeout", exit.agreed, heard)
        <4>1. exit.agreed \in BOOLEAN
          BY RunFacts DEF TInv
        <4> QED BY <1>2, <1>3, <1>4, <2>1, <2>2, <3>3, <4>1
      <3> QED BY <2>5, <3>1, <3>2, <3>3, TimeOutcome
    <2>6. ASSUME NEW c \in calls, HandleCall(c), c.kind = "reply"
          PROVE  Agreed'
      <3>1. CASE run # None /\ Asks(run.id, heard)
        BY <1>7, <2>1, <2>2, <3>1
      <3>2. CASE /\ run # None /\ run.id = c.id /\ run.stage = "polling"
                 /\ Waits(heard) /\ run'.pending = run.pending \ {c.from}
                 /\ run'.inFlight = 0 => run.inFlight = 0 /\ c.value = 0
        <4>1. run'.inFlight = 0 => \A w \in polled \ run'.pending : Told(w)'
          BY <1>2, <1>3, <2>2, <2>6, <3>2
        <4>2. run'.id = run.id /\ run'.stage = "polling" /\ app' = app
          BY <3>2 DEF Waits
        <4> QED BY <1>5, <2>1, <2>2, <3>2, <4>1, <4>2
      <3>3. CASE /\ run # None /\ run.id = c.id /\ run.stage = "polling"
                 /\ run.inFlight = 0 /\ c.value = 0 /\ run.pending \subseteq {c.from}
                 /\ Leaves("empty", FALSE, heard) \/ Commits(run.id, Alive, heard, FALSE)
        <4>1. \A w \in polled : Told(w)'
          BY <1>2, <1>3, <2>2, <2>6, <3>3
        <4> QED BY <1>4, <1>6, <2>1, <2>2, <3>3, <4>1
      <3> QED BY <2>3, <2>6, <3>1, <3>2, <3>3, ReplyOutcome
    <2>7. ASSUME NEW c \in calls, HandleCall(c), c.kind = "decision"
          PROVE  Agreed'
      <3>1. CASE run # None /\ (Leaves("empty", TRUE, heard) \/ Commits(run.id, Alive, heard, TRUE))
        BY <1>4, <1>6, <2>1, <2>2, <3>1
      <3>2. CASE Drops(heard)
        BY <1>5, <2>1, <2>2, <3>2 DEF Drops
      <3> QED BY <2>3, <2>7, <3>1, <3>2, DecisionOutcome
    <2>8. ASSUME NEW c \in calls, HandleCall(c), c.kind = "ready"
          PROVE  Agreed'
      <3>1. CASE run # None /\ run.stage = "committing" /\ Leaves("ready", exit.agreed, heard)
        <4>1. exit.agreed \in BOOLEAN
          BY RunFacts DEF TInv
        <4> QED BY <1>2, <1>3, <1>4, <2>1, <2>2, <3>1, <4>1
      <3>2. CASE run # None /\ run.stage = "committing" /\ Waits(heard)
        <4>1. run'.id = run.id /\ run'.stage = "committing" /\ app' = app /\ exit' = exit
          BY <3>2 DEF Waits
        <4> QED BY <1>2, <1>3, <1>5, <2>1, <2>2, <3>2, <4>1
      <3>3. CASE CallsOff(c.id)
        <4>1. app' = app /\ exit' = exit /\ (run' = None \/ run' = run)
          BY <3>3 DEF CallsOff
        <4> QED BY <1>2, <1>3, <1>5, <2>1, <2>2, <4>1
      <3> QED BY <2>3, <2>8, <3>1, <3>2, <3>3, ReadyOutcome
    <2>9. \A c \in calls : c.kind \in {"reply", "decision", "ready"}
      BY RunFacts DEF TInv
    <2> QED BY <1>8, <2>4, <2>5, <2>6, <2>7, <2>8, <2>9 DEF Coordinates
  <1>9. ASSUME NEW v \in AppWindows, Close(v)
        PROVE  Agreed'
    <2>1. /\ polled' = polled /\ calls' \subseteq calls /\ app = "running"
          /\ busy' = busy /\ life' = [life EXCEPT ![v] = "closed"] /\ busy[v] = {}
          /\ after' = after /\ answered' = answered
      BY <1>9 DEF Close
    <2>2. life \in [AppWindows -> Lives]
      BY DEF TInv, PagesOK
    <2>3. (\A w \in AppWindows : Told(w) => Told(w)') /\ Told(v)'
      BY <2>1, <2>2 DEF Told
    <2> PICK q : q = [heard EXCEPT ![v] = <<>>]
      OBVIOUS
    <2>4. CASE Stays(q)
      BY <1>3, <1>5, <1>2, <2>1, <2>3, <2>4 DEF Stays
    <2>5. CASE Drops(q)
      BY <1>5, <2>1, <2>3, <2>5 DEF Drops
    <2>6. CASE Waits(q) /\ run'.pending = run.pending \ {v} /\ run'.inFlight = run.inFlight
      <3>1. run # None /\ run'.id = run.id /\ run'.stage = run.stage /\ app' = app /\ exit' = exit
        BY <2>6 DEF Waits
      <3>2. run'.stage = "polling" /\ run'.inFlight = 0 => \A w \in polled \ run'.pending : Told(w)'
        BY <1>2, <1>3, <2>3, <2>6, <3>1
      <3> QED BY <1>2, <1>3, <1>5, <2>1, <2>3, <3>1, <3>2
    <2>7. CASE run # None /\ run.stage = "polling" /\ run.pending \subseteq {v} /\ Asks(run.id, q)
      BY <1>7, <2>1, <2>3, <2>7
    <2>8. CASE /\ run # None /\ run.stage = "polling" /\ run.pending \subseteq {v} /\ run.inFlight = 0
               /\ Leaves("empty", FALSE, q) \/ Commits(run.id, Alive \ {v}, q, FALSE)
      <3>1. \A w \in polled : Told(w)'
        BY <1>2, <1>3, <2>3, <2>8
      <3> QED BY <1>4, <1>6, <2>1, <2>3, <2>8, <3>1
    <2>9. CASE run # None /\ run.stage = "committing" /\ Leaves("ready", exit.agreed, q)
      <3>1. exit.agreed \in BOOLEAN
        BY RunFacts DEF TInv
      <3> QED BY <1>2, <1>3, <1>4, <2>1, <2>3, <2>9, <3>1
    <2> QED BY <1>9, <2>4, <2>5, <2>6, <2>7, <2>8, <2>9, CloseOutcome
  <1>10. CASE RequestQuit
    <2>1. /\ polled' = Alive /\ UNCHANGED <<calls, busy, life>> /\ run = None /\ app = "running"
      BY <1>10 DEF RequestQuit, quitPages
    <2>2. CASE Alive = {} /\ Leaves("empty", FALSE, heard)
      <3>1. run' = None /\ polled' = {}
        BY <2>1, <2>2 DEF Leaves
      <3> QED BY <3>1 DEF Agreed, ExitIsAgreed
    <2>3. CASE run'.id = quits + 1 /\ run'.stage = "polling" /\ run'.pending = Alive /\ app' = app
      <3>1. \A c \in calls' : c.id # run'.id
        <4>1. \A c \in calls : c.id \in Nat /\ c.id <= quits
          BY RunFacts DEF TInv, Numbered, QuitIds
        <4>2. quits \in Nat
          BY DEF TInv, CoreOK
        <4> QED BY <2>1, <2>3, <4>1, <4>2
      <3>2. polled' \ run'.pending = {} /\ polled' \subseteq AppWindows
        BY <2>1, <2>3 DEF Alive
      <3>3. ExitIsAgreed'
        BY <2>1, <2>3 DEF ExitIsAgreed
      <3> QED BY <2>3, <3>1, <3>2, <3>3 DEF Agreed
    <2>4. quits' = quits + 1
      BY <1>10, RequestOutcome
    <2> QED BY <1>10, <2>2, <2>3, <2>4, RequestOutcome
  <1>11. CASE Start
    BY <1>11 DEF Start, Fresh, Agreed, ExitIsAgreed
  <1>12. ASSUME UNCHANGED <<app, run, exit, polled>>, app = "running",
                \A c \in calls' : c \in calls \/ c.kind # "reply"
                                  \/ (c.value = 0 /\ c.id = run.id => Told(c.from)' \/ run = None),
                \A w \in AppWindows : Told(w) => Told(w)'
         PROVE  Agreed'
    <2>1. ExitIsAgreed'
      BY <1>12 DEF ExitIsAgreed
    <2>2. run' # None => \A c \in calls' : c.kind = "reply" /\ c.id = run'.id /\ c.value = 0 => Told(c.from)'
      BY <1>2, <1>3, <1>12
    <2>3. run' # None =>
            /\ run'.stage = "polling" /\ run'.inFlight = 0 => \A w \in polled' \ run'.pending : Told(w)'
            /\ run'.stage = "committing" /\ ~exit'.agreed => \A w \in polled' : Told(w)'
      BY <1>2, <1>3, <1>12
    <2> QED BY <1>2, <1>12, <2>1, <2>2, <2>3 DEF Agreed
  <1>13. ASSUME NEW w \in AppWindows, NEW id \in QuitIds, Poll(w, id)
         PROVE  Agreed'
    <2>1. UNCHANGED <<app, run, exit, polled>> /\ app = "running"
      BY <1>13 DEF Poll, Hears
    <2>2. UNCHANGED <<busy, after, life>> /\ answered \subseteq answered'
      BY <1>13 DEF Poll, quitPages
    <2>3. \A x \in AppWindows : Told(x) => Told(x)'
      BY <2>2 DEF Told
    <2> QED BY <1>12, <1>13, <2>1, <2>3, ReplyIsTrue
  <1>14. ASSUME NEW w \in AppWindows, PageAction(w)
         PROVE  Agreed'
    <2>1. \A x \in AppWindows : Told(x) => Told(x)'
      BY <1>14, ToldStays
    <2> QED BY <1>12, <1>14, <2>1, PageActionIsQuiet
  <1>15. CASE UNCHANGED quitVars
    BY <1>15 DEF quitVars, quitPages, quitPart, quitCore, quitStore, quitPast, Agreed, Told, ExitIsAgreed
  <1> QED BY <1>8, <1>9, <1>10, <1>11, <1>13, <1>14, <1>15, AllSteps

-----------------------------------------------------------------------------
(* Everybody's work is saved *)

\* A page says it has saved for the quit under way when it has.
LEMMA ReadyIsTrue ==
    ASSUME TInv, NEW w \in AppWindows, PageAction(w)
    PROVE  /\ saved \subseteq saved'
           /\ \A c \in calls' : c \in calls \/ c.kind # "ready" \/ c.value # TRUE
                                \/ (run # None /\ c.id = run.id => c.from \in saved')
  <1>1. CASE calls' = calls /\ saved' = saved
    BY <1>1
  <1>2. ASSUME NEW done, calls' = calls \cup {Call(w, "ready", s.id, TRUE) : s \in done},
               saved' = saved \cup SavedFor(w, done)
        PROVE  /\ saved \subseteq saved'
               /\ \A c \in calls' : c \in calls \/ c.kind # "ready" \/ c.value # TRUE
                                    \/ (run # None /\ c.id = run.id => c.from \in saved')
    <2>1. ASSUME NEW s \in done, run # None, Call(w, "ready", s.id, TRUE).id = run.id
          PROVE  Call(w, "ready", s.id, TRUE).from \in saved'
      <3>1. s.id = run.id /\ Call(w, "ready", s.id, TRUE).from = w
        BY <2>1 DEF Call
      <3>2. w \in SavedFor(w, done)
        BY <2>1, <3>1 DEF SavedFor
      <3> QED BY <1>2, <3>1, <3>2
    <2> QED BY <1>2, <2>1
  <1>3. CASE Boots(w)
    <2>1. CASE Resumed = {}
      BY <1>2, <1>3, <2>1 DEF Boots
    <2>2. CASE Resumed # {}
      BY <1>1, <1>3, <2>2 DEF Boots
    <2> QED BY <2>1, <2>2
  <1>4. ASSUME NEW i \in DOMAIN rowWrites[w], WriteRows(w, i)
        PROVE  /\ saved \subseteq saved'
               /\ \A c \in calls' : c \in calls \/ c.kind # "ready" \/ c.value # TRUE
                                    \/ (run # None /\ c.id = run.id => c.from \in saved')
    BY <1>2, <1>4 DEF WriteRows
  <1>5. CASE Decide(w) \/ \E id \in QuitIds : Confirm(w, id)
    <2>1. saved' = saved
      BY <1>5 DEF Decide, Confirm, quitPast
    <2>2. \A c \in calls' : c \in calls \/ c.kind = "decision"
      BY <1>5 DEF Decide, Confirm, Call
    <2> QED BY <2>1, <2>2
  <1>6. ASSUME NEW s \in saving[w], SaveFails(w, s)
        PROVE  /\ saved' = saved
               /\ \A c \in calls' : c \in calls \/ c.value # TRUE
    <2>1. saved' = saved /\ calls' = calls \cup {Call(w, "ready", s.id, FALSE)}
      BY <1>6 DEF SaveFails, quitPast
    <2>2. Call(w, "ready", s.id, FALSE).value = FALSE
      BY DEF Call
    <2> QED BY <2>1, <2>2
  <1>7. CASE \/ OpenWindow(w) \/ Loaded(w) \/ SyncSnapshot(w)
             \/ \E c \in Chats : Begin(w, c) \/ End(w, c)
             \/ \E id \in QuitIds : Commit(w, id) \/ Aborted(w, id)
             \/ \E s \in saving[w] : SaveWorkspace(w, s)
    BY <1>1, <1>7 DEF OpenWindow, Loaded, SyncSnapshot, Begin, End, Commit, Aborted, SaveWorkspace, quitCore,
                      quitPast
  <1> QED BY <1>3, <1>4, <1>5, <1>6, <1>7 DEF PageAction

\* A window that was asked to save is there, and none comes back.
LEMMA OwedStays ==
    ASSUME TInv, NEW v \in AppWindows, PageAction(v)
    PROVE  /\ \A w \in AppWindows : life[w] # "none" => life'[w] # "none"
           /\ \A w \in AppWindows : life[w] # "none" /\ w \in Alive' => w \in Alive
  <1>1. life \in [AppWindows -> Lives]
    BY DEF TInv, PagesOK
  <1>2. CASE life' = life
    BY <1>2 DEF Alive
  <1>3. CASE OpenWindow(v) \/ Loaded(v) \/ Boots(v)
    <2>1. PICK x \in {"loading", "booting", "open"} : life' = [life EXCEPT ![v] = x]
      BY <1>3 DEF OpenWindow, Loaded, Boots
    <2>2. life[v] \in {"none", "loading", "booting"}
      BY <1>3 DEF OpenWindow, Loaded, Boots
    <2> QED BY <1>1, <2>1, <2>2 DEF Alive
  <1>5. CASE \/ SyncSnapshot(v) \/ Decide(v)
             \/ \E c \in Chats : Begin(v, c) \/ End(v, c)
             \/ \E id \in QuitIds : Confirm(v, id) \/ Commit(v, id) \/ Aborted(v, id)
             \/ \E s \in saving[v] : SaveWorkspace(v, s) \/ SaveFails(v, s)
             \/ \E i \in DOMAIN rowWrites[v] : WriteRows(v, i)
    <2>1. life' = life
      BY <1>5 DEF SyncSnapshot, Decide, Begin, End, Confirm, Commit, Aborted, SaveWorkspace, SaveFails,
                  WriteRows, quitPages
    <2> QED BY <1>2, <2>1
  <1> QED BY <1>3, <1>5 DEF PageAction

\* A window that closes is no longer there, and no other one is affected.
LEMMA CloseLeaves ==
    ASSUME TInv, NEW v \in AppWindows, Close(v)
    PROVE  /\ \A w \in AppWindows : life[w] # "none" => life'[w] # "none"
           /\ Alive' = Alive \ {v}
  <1>1. life \in [AppWindows -> Lives] /\ life' = [life EXCEPT ![v] = "closed"]
    BY DEF TInv, PagesOK, Close
  <1> QED BY <1>1 DEF Alive

\* Every step keeps that the windows counted as saved have saved.
LEMMA KeptStep ==
    ASSUME TInv, Kept, [QuitNext]_quitVars
    PROVE  Kept'
  <1>1. /\ owed \subseteq AppWindows /\ \A w \in owed : life[w] # "none"
        /\ run # None =>
             /\ \A c \in calls : c.kind = "ready" /\ c.id = run.id /\ c.value = TRUE => c.from \in saved
             /\ run.stage = "committing" => (owed \cap Alive) \ run.pending \subseteq saved
    BY DEF Kept
  \* The coordinator's state is the same, or it waits for less, or it is done.
  <1>2. ASSUME app = "running", NEW B \in SUBSET AppWindows, Alive' = B, B \subseteq Alive, saved' = saved,
               \A w \in AppWindows : life[w] # "none" => life'[w] # "none", calls' \subseteq calls,
               owed' = owed, run' # None => run # None /\ run'.id = run.id,
               run' # None /\ run'.stage = "committing" => (owed \cap B) \ run'.pending \subseteq saved,
               app' = "running" \/ exit'.why # "ready" \/ owed \cap B \subseteq saved
        PROVE  Kept'
    <2>1. ExitIsSaved'
      BY <1>2 DEF ExitIsSaved
    <2> QED BY <1>1, <1>2, <2>1 DEF Kept
  <1>3. ASSUME app = "running", saved' = saved, NEW windows \in SUBSET AppWindows, Alive' = windows,
               calls' \subseteq calls, NEW q, NEW agreed, Commits(run.id, windows, q, agreed), run # None
        PROVE  Kept'
    <2>1. app' = "running" /\ owed' = windows /\ run'.id = run.id /\ run'.pending = windows
      BY <1>3 DEF Commits
    <2>2. \A w \in windows : life'[w] # "none"
      BY <1>3 DEF Alive
    <2>3. (owed' \cap Alive') \ run'.pending \subseteq saved' /\ ExitIsSaved'
      BY <1>3, <2>1 DEF ExitIsSaved
    <2> QED BY <1>1, <1>3, <2>1, <2>2, <2>3 DEF Kept
  <1>4. CASE Coordinates
    <2>1. /\ app = "running" /\ calls' \subseteq calls /\ saved' = saved /\ life' = life
      BY <1>4, CoordinatesOutcome DEF Coordinates, Prompt, TimesOut, HandleCall, quitPages
    <2>2. Alive' = Alive /\ Alive \in SUBSET AppWindows /\ \A w \in AppWindows : life[w] # "none" => life'[w] # "none"
      BY <2>1 DEF Alive
    <2>3. CASE /\ owed' = owed /\ (run' = None \/ run'.stage # "committing")
               /\ run' # None => run # None /\ run'.id = run.id
               /\ app' = "running" \/ exit'.why # "ready"
      BY <1>2, <2>1, <2>2, <2>3
    <2>4. ASSUME NEW agreed, run # None, Commits(run.id, Alive, heard, agreed)
          PROVE  Kept'
      BY <1>3, <2>1, <2>2, <2>4
    <2>5. ASSUME NEW agreed, NEW why, Leaves(why, agreed, heard), why # "ready"
          PROVE  Kept'
      <3>1. run' = None /\ owed' = owed /\ exit'.why # "ready"
        BY <2>5 DEF Leaves
      <3> QED BY <2>3, <3>1
    <2>6. CASE Stays(heard)
      <3>1. UNCHANGED <<app, run, owed, exit>>
        BY <2>6 DEF Stays
      <3> QED BY <1>1, <1>2, <2>1, <2>2, <3>1
    <2>7. CASE Asks(run.id, heard) /\ run # None
      BY <2>1, <2>3, <2>7 DEF Asks
    <2>8. CASE Drops(heard)
      BY <2>1, <2>3, <2>8 DEF Drops
    <2>9. CASE Waits(heard) /\ run.stage = "polling"
      BY <2>1, <2>3, <2>9 DEF Waits
    <2>10. CASE Prompt
      <3>1. CASE ShowsDialog
        BY <2>1, <2>3, <3>1 DEF ShowsDialog
      <3> QED BY <2>5, <2>10, <3>1, PromptOutcome
    <2>11. CASE TimesOut
      BY <2>5, <2>7, <2>8, <2>11, TimeOutcome
    <2>12. ASSUME NEW c \in calls, HandleCall(c), c.kind = "reply"
           PROVE  Kept'
      BY <2>4, <2>5, <2>6, <2>7, <2>9, <2>12, ReplyOutcome
    <2>13. ASSUME NEW c \in calls, HandleCall(c), c.kind = "decision"
           PROVE  Kept'
      BY <2>4, <2>5, <2>6, <2>8, <2>13, DecisionOutcome
    <2>14. ASSUME NEW c \in calls, HandleCall(c), c.kind = "ready"
           PROVE  Kept'
      <3>1. CASE /\ c.value = TRUE /\ run # None /\ run.id = c.id /\ run.stage = "committing"
                 /\ Leaves("ready", exit.agreed, heard) /\ run.pending \subseteq {c.from}
        <4>1. run' = None /\ owed' = owed
          BY <3>1 DEF Leaves
        <4>2. owed \cap Alive \subseteq saved
          BY <1>1, <2>14, <3>1
        <4> QED BY <1>2, <2>1, <2>2, <4>1, <4>2
      <3>2. CASE /\ c.value = TRUE /\ run # None /\ run.id = c.id /\ run.stage = "committing"
                 /\ Waits(heard) /\ run'.pending = run.pending \ {c.from}
        <4>1. run'.id = run.id /\ owed' = owed /\ app' = app
          BY <3>2 DEF Waits
        <4>2. (owed \cap Alive) \ run'.pending \subseteq saved
          BY <1>1, <2>14, <3>2
        <4> QED BY <1>2, <2>1, <2>2, <3>2, <4>1, <4>2
      <3>3. CASE CallsOff(c.id)
        <4>1. UNCHANGED <<app, owed, exit>> /\ (run' = None \/ run' = run)
          BY <3>3 DEF CallsOff
        <4> QED BY <1>1, <1>2, <2>1, <2>2, <4>1
      <3> QED BY <2>6, <2>14, <3>1, <3>2, <3>3, ReadyOutcome
    <2>15. \A c \in calls : c.kind \in {"reply", "decision", "ready"}
      BY RunFacts DEF TInv
    <2> QED BY <1>4, <2>10, <2>11, <2>12, <2>13, <2>14, <2>15 DEF Coordinates
  <1>5. ASSUME NEW v \in AppWindows, Close(v)
        PROVE  Kept'
    <2> PICK q : q = [heard EXCEPT ![v] = <<>>]
      OBVIOUS
    <2> PICK B : B = Alive \ {v}
      OBVIOUS
    <2>1. /\ app = "running" /\ calls' \subseteq calls /\ saved' = saved
          /\ B \in SUBSET AppWindows /\ Alive' = B /\ B \subseteq Alive
          /\ \A w \in AppWindows : life[w] # "none" => life'[w] # "none"
      BY <1>5, CloseLeaves DEF Close, Alive
    <2>2. CASE Stays(q)
      <3>1. UNCHANGED <<app, run, owed, exit>>
        BY <2>2 DEF Stays
      <3> QED BY <1>1, <1>2, <2>1, <3>1
    <2>3. CASE Drops(q)
      BY <1>2, <2>1, <2>3 DEF Drops
    <2>4. CASE Waits(q) /\ run'.pending = run.pending \ {v}
      <3>1. run # None /\ run'.id = run.id /\ run'.stage = run.stage /\ owed' = owed /\ app' = app
        BY <2>4 DEF Waits
      <3>2. run.stage = "committing" => (owed \cap B) \ run'.pending \subseteq saved
        BY <1>1, <2>4, <3>1
      <3> QED BY <1>2, <2>1, <3>1, <3>2
    <2>5. CASE run # None /\ (Asks(run.id, q) \/ Leaves("empty", FALSE, q))
      BY <1>2, <2>1, <2>5 DEF Asks, Leaves
    <2>6. CASE run # None /\ Commits(run.id, B, q, FALSE)
      BY <1>3, <2>1, <2>6
    <2>7. CASE /\ run # None /\ run.stage = "committing" /\ run.pending \subseteq {v}
               /\ Leaves("ready", exit.agreed, q)
      <3>1. run' = None /\ owed' = owed
        BY <2>7 DEF Leaves
      <3>2. owed \cap B \subseteq saved
        BY <1>1, <2>7
      <3> QED BY <1>2, <2>1, <3>1, <3>2
    <2> QED BY <1>5, <2>2, <2>3, <2>4, <2>5, <2>6, <2>7, CloseOutcome
  <1>6. CASE RequestQuit
    <2>1. UNCHANGED <<calls, life>> /\ run = None /\ app = "running"
      BY <1>6 DEF RequestQuit, quitPages
    <2>2. CASE Leaves("empty", FALSE, heard)
      <3>1. run' = None /\ owed' = owed /\ exit'.why = "empty"
        BY <2>2 DEF Leaves
      <3> QED BY <1>1, <2>1, <3>1 DEF Kept, ExitIsSaved
    <2>3. CASE run'.id = quits + 1 /\ run'.stage = "polling" /\ app' = app /\ owed' = owed
      <3>1. \A c \in calls' : c.id # run'.id
        <4>1. \A c \in calls : c.id \in Nat /\ c.id <= quits
          BY RunFacts DEF TInv, Numbered, QuitIds
        <4>2. quits \in Nat
          BY DEF TInv, CoreOK
        <4> QED BY <2>1, <2>3, <4>1, <4>2
      <3> QED BY <1>1, <2>1, <2>3, <3>1 DEF Kept, ExitIsSaved
    <2> QED BY <1>6, <2>2, <2>3, RequestOutcome
  <1>7. CASE Start
    BY <1>7 DEF Start, Fresh, Kept, ExitIsSaved
  <1>8. ASSUME NEW w \in AppWindows, NEW id \in QuitIds, Poll(w, id)
        PROVE  Kept'
    <2>1. UNCHANGED <<app, run, owed, exit, life, saved>> /\ app = "running"
      BY <1>8 DEF Poll, Hears, quitPages
    <2>2. \A c \in calls' : c \in calls \/ c.kind = "reply"
      BY <1>8 DEF Poll, Call
    <2>3. Alive' = Alive /\ ExitIsSaved'
      BY <2>1 DEF Alive, ExitIsSaved
    <2> QED BY <1>1, <2>1, <2>2, <2>3 DEF Kept
  <1>9. ASSUME NEW v \in AppWindows, PageAction(v)
        PROVE  Kept'
    <2>1. UNCHANGED <<app, run, owed, exit>> /\ app = "running"
      BY <1>9, PageActionIsQuiet
    <2>2. /\ \A w \in AppWindows : life[w] # "none" => life'[w] # "none"
          /\ owed \cap Alive' \subseteq owed \cap Alive
      BY <1>1, <1>9, OwedStays
    <2>3. saved \subseteq saved'
      BY <1>9, ReadyIsTrue
    <2>4. run' # None =>
            \A c \in calls' : c.kind = "ready" /\ c.id = run'.id /\ c.value = TRUE => c.from \in saved'
      BY <1>1, <1>9, <2>1, <2>3, ReadyIsTrue
    <2>5. run' # None /\ run'.stage = "committing" => (owed' \cap Alive') \ run'.pending \subseteq saved'
      BY <1>1, <2>1, <2>2, <2>3
    <2>6. ExitIsSaved'
      BY <2>1 DEF ExitIsSaved
    <2> QED BY <1>1, <2>1, <2>2, <2>4, <2>5, <2>6 DEF Kept
  <1>10. CASE UNCHANGED quitVars
    BY <1>10 DEF quitVars, quitPages, quitPart, quitCore, quitStore, quitPast, Kept, Alive, ExitIsSaved
  <1> QED BY <1>4, <1>5, <1>6, <1>7, <1>8, <1>9, <1>10, AllSteps

-----------------------------------------------------------------------------
(* A page that stays hears that the quit was called off *)

\* What an event that joins a queue, or leaves it, does to the promises in it.
LEMMA PromiseJoined ==
    ASSUME NEW p \in Seq(Events), NEW e \in Events
    PROVE  /\ Promised(p) /\ e.kind # "commit" => Promised(Append(p, e))
           /\ e.kind = "aborted" => Promised(Append(p, e))
  <1> PICK q : q = Append(p, e)
    OBVIOUS
  <1>1. ASSUME Promised(p), e.kind # "commit", NEW i \in DOMAIN q, q[i].kind = "commit"
        PROVE  ToldBack(q, i)
    <2>1. i \in DOMAIN p /\ p[i].kind = "commit" /\ i \in Nat
      <3>1. i \in DOMAIN p /\ q[i] = p[i]
        BY <1>1, Joined
      <3> QED BY <1>1, <3>1
    <2>2. ToldBack(p, i)
      BY <1>1, <2>1 DEF Promised
    <2> QED BY <2>1, <2>2, Joined
  <1>2. ASSUME e.kind = "aborted", NEW i \in DOMAIN q, q[i].kind = "commit"
        PROVE  ToldBack(q, i)
    BY <1>2, Joined
  <1> QED BY <1>1, <1>2 DEF Promised

\* What an event sent to some pages adds to the queue of one.
LEMMA EmittedAt ==
    ASSUME NEW q \in [AppWindows -> Seq(Events)], NEW windows \in SUBSET AppWindows,
           NEW kind \in EventKind, NEW id \in QuitIds, heard' = Emitted(q, windows, Event(kind, id)),
           NEW w \in AppWindows
    PROVE  \E e \in Events :
             /\ e.kind = kind
             /\ heard'[w] = IF w \in windows \cap Listening THEN Append(q[w], e) ELSE q[w]
  <1>1. PICK e \in Events : e = Event(kind, id) /\ e.kind = kind
    BY EventRecords
  <1>2. heard' = Emitted(q, windows, e)
    BY <1>1
  <1>3. Emitted(q, windows, e)[w] = IF w \in windows \cap Listening THEN Append(q[w], e) ELSE q[w]
    BY EmittedTypes
  <1> QED BY <1>1, <1>2, <1>3

\* A commit that leaves the queue takes its promise with it.
LEMMA PromiseLeft ==
    ASSUME NEW p \in Seq(Events), p # <<>>, Promised(p)
    PROVE  /\ Promised(Tail(p))
           /\ Head(p).kind = "commit" => ToldBack(Tail(p), 0)
  <1> PICK q : q = Tail(p)
    OBVIOUS
  <1>1. ASSUME NEW i \in DOMAIN q, q[i].kind = "commit"
        PROVE  ToldBack(q, i)
    <2>1. i + 1 \in DOMAIN p /\ p[i + 1].kind = "commit" /\ q \in Seq(Events)
      BY <1>1, Left
    <2>2. ToldBack(p, i + 1) /\ i \in Nat
      BY <1>1, <2>1 DEF Promised
    <2> QED BY <2>2, Left
  <1>2. Head(p).kind = "commit" => ToldBack(p, 0 + 1)
    BY Left, 0 + 1 = 1 DEF Promised
  <1>3. 0 \in Nat
    OBVIOUS
  <1> QED BY <1>1, <1>2, <1>3, Left DEF Promised

\* Nothing to tell in a queue without events.
LEMMA PromiseNone == Promised(<<>>)
  BY DEF Promised

\* A window that a step does not touch.
LEMMA RecalledElsewhere ==
    ASSUME NEW w \in AppWindows, RecalledAt(w), run' = run, early \subseteq early',
           life'[w] = life[w], heard'[w] = heard[w], quitting'[w] = quitting[w], saving'[w] = saving[w]
    PROVE  RecalledAt(w)'
  BY DEF RecalledAt, Committing, Listening

\* What the coordinator's step leaves in the queue of a window.
LEMMA RecallOutcome ==
    ASSUME TInv, NEW windows \in SUBSET AppWindows, NEW q \in [AppWindows -> Seq(Events)],
           Outcome(windows, q), app' = "running", NEW w \in AppWindows,
           Committing \/ Promised(q[w]), q[w] # <<>> => w \in Listening
    PROVE  /\ Committing' \/ Promised(heard'[w])
           /\ w \in Listening /\ (Committing \/ ToldBack(q[w], 0)) => Committing' \/ ToldBack(heard'[w], 0)
           /\ heard'[w] # <<>> => w \in Listening
  <1>1. q[w] \in Seq(Events) /\ (run # None => run.id \in QuitIds)
    BY RunFacts DEF TInv
  <1>2. \A r \in QuitRuns : r # None
    BY QuitRunAssumption
  <1>3. CASE heard' = q /\ (Committing' <=> Committing)
    BY <1>3
  <1>4. ASSUME NEW why, NEW agreed, Leaves(why, agreed, q)
        PROVE  FALSE
    BY <1>4 DEF Leaves
  <1>5. ASSUME run # None, NEW agreed, Commits(run.id, windows, q, agreed)
        PROVE  Committing' /\ (heard'[w] # <<>> => w \in Listening)
    <2>1. Committing'
      BY <1>2, <1>5 DEF Commits, Committing
    <2>2. "commit" \in EventKind
      BY DEF EventKind
    <2>3. heard'[w] = q[w] \/ w \in Listening
      <3>1. heard' = Emitted(q, windows, Event("commit", run.id))
        BY <1>5 DEF Commits
      <3> QED BY <1>1, <1>5, <2>2, <3>1, EmittedAt
    <2> QED BY <2>1, <2>3
  <1>6. ASSUME run # None, ~Committing, Asks(run.id, q)
        PROVE  heard' = q /\ (Committing' <=> Committing)
    BY <1>6 DEF Asks, Committing
  <1>7. ASSUME Waits(q)
        PROVE  heard' = q /\ (Committing' <=> Committing)
    BY <1>2, <1>7 DEF Waits, Committing
  <1>8. ASSUME Stays(q) \/ (~Committing /\ Drops(q))
        PROVE  heard' = q /\ (Committing' <=> Committing)
    BY <1>8 DEF Stays, Drops, Committing
  <1>9. ASSUME ShowsDialog, q = heard
        PROVE  /\ ~Committing /\ Promised(heard'[w])
               /\ ToldBack(q[w], 0) => ToldBack(heard'[w], 0)
               /\ heard'[w] = q[w] \/ w \in Listening
    <2>1. ~Committing
      BY <1>9 DEF ShowsDialog, Committing
    <2>2. PICK x \in AppWindows : heard' = Emitted(q, {x}, Event("confirm", run.id))
      BY <1>9 DEF ShowsDialog
    <2>3. "confirm" \in EventKind /\ run # None /\ {x} \in SUBSET AppWindows
      BY <1>9 DEF EventKind, ShowsDialog
    <2>4. PICK e \in Events :
            /\ e.kind = "confirm"
            /\ heard'[w] = IF w \in {x} \cap Listening THEN Append(q[w], e) ELSE q[w]
      BY <1>1, <2>2, <2>3, EmittedAt
    <2>5. heard'[w] = q[w] \/ (w \in Listening /\ heard'[w] = Append(q[w], e))
      BY <2>4
    <2>6. Promised(heard'[w])
      BY <1>1, <2>1, <2>4, <2>5, PromiseJoined
    <2>7. 0 \in Nat
      OBVIOUS
    <2>8. ToldBack(q[w], 0) => ToldBack(Append(q[w], e), 0)
      BY <1>1, <2>7, Joined
    <2> QED BY <2>1, <2>5, <2>6, <2>8
  <1>10. ASSUME NEW id \in QuitIds, CallsOff(id), q = heard
         PROVE  /\ Promised(heard'[w]) /\ (w \in Listening => ToldBack(heard'[w], 0))
                /\ heard'[w] = q[w] \/ w \in Listening
    <2>1. "aborted" \in EventKind /\ Alive \in SUBSET AppWindows /\ Listening \subseteq Alive
      BY DEF EventKind, Alive, Listening
    <2> PICK S : S = Alive
      OBVIOUS
    <2>2. heard' = Emitted(q, S, Event("aborted", id))
      BY <1>10, <2>1 DEF CallsOff
    <2>6. S \in SUBSET AppWindows /\ "aborted" \in EventKind /\ id \in QuitIds
      BY <1>10, <2>1
    <2>3. PICK e \in Events :
            /\ e.kind = "aborted"
            /\ heard'[w] = IF w \in S \cap Listening THEN Append(q[w], e) ELSE q[w]
      BY <2>2, <2>6, EmittedAt
    <2>4. CASE w \in Listening
      <3>1. heard'[w] = Append(q[w], e)
        BY <2>1, <2>3, <2>4
      <3> QED BY <1>1, <2>3, <2>4, <3>1, PromiseJoined, Joined
    <2>5. CASE w \notin Listening
      <3>1. heard'[w] = <<>> /\ heard'[w] = q[w]
        BY <2>3, <2>5
      <3> QED BY <2>5, <3>1, PromiseNone
    <2> QED BY <2>4, <2>5
  <1> QED BY <1>3, <1>4, <1>5, <1>6, <1>7, <1>8, <1>9, <1>10 DEF Outcome

\* A page that handles an event.
LEMMA RecalledOnHearing ==
    ASSUME TInv, Recalled, NEW w \in AppWindows, NEW id \in QuitIds,
           Poll(w, id) \/ Confirm(w, id) \/ Commit(w, id) \/ Aborted(w, id)
    PROVE  Recalled'
  <1>1. PICK kind \in EventKind :
          /\ Hears(w, Event(kind, id))
          /\ kind \in {"poll", "confirm"} => UNCHANGED <<quitting, saving, early>>
          /\ kind = "commit" => Commit(w, id)
          /\ kind = "aborted" => Aborted(w, id)
    BY DEF Poll, Confirm, Commit, Aborted, EventKind, quitPast
  <1>2. /\ heard[w] \in Seq(Events) /\ heard[w] # <<>> /\ Head(heard[w]) = Event(kind, id)
        /\ w \in Listening /\ app = "running" /\ heard' = [heard EXCEPT ![w] = Tail(heard[w])]
        /\ heard'[w] = Tail(heard[w])
    BY <1>1, HearsStep
  <1>3. Head(heard[w]).kind = kind
    BY <1>1, <1>2, EventRecords
  <1>4. /\ heard \in [AppWindows -> Seq(Events)] /\ quitting \in [AppWindows -> BOOLEAN]
        /\ saving \in [AppWindows -> SUBSET Saves] /\ life \in [AppWindows -> Lives]
    BY DEF TInv, PagesOK, QueuesOK
  <1>5. UNCHANGED <<life, run, app>>
    BY DEF Poll, Confirm, Commit, Aborted, quitPages, quitCore
  <1>6. RecalledAt(w)
    BY <1>2 DEF Recalled
  <1>7. /\ kind # "commit" => saving' = saving /\ early' = early
        /\ kind = "aborted" => quitting' = [quitting EXCEPT ![w] = FALSE]
        /\ kind \in {"poll", "confirm"} => quitting' = quitting
    BY <1>1 DEF Aborted, quitPast, EventKind
  <1>8. kind = "commit" =>
          \/ /\ life[w] = "open" /\ early' = early /\ quitting' = [quitting EXCEPT ![w] = TRUE]
             /\ \E S : saving' = [saving EXCEPT ![w] = S]
          \/ /\ life[w] # "open" /\ early' = early \cup {w} /\ quitting' = quitting
             /\ \E S : saving' = [saving EXCEPT ![w] = S]
    BY <1>1 DEF Commit
  <1>9. kind \in {"poll", "confirm", "commit", "aborted"}
    BY DEF EventKind
  <1>10. ASSUME NEW x \in AppWindows, x # w
         PROVE  RecalledAt(x)'
    <2>1. RecalledAt(x) /\ heard'[x] = heard[x] /\ quitting'[x] = quitting[x] /\ saving'[x] = saving[x]
          /\ early \subseteq early'
      BY <1>2, <1>4, <1>7, <1>8, <1>9, <1>10 DEF Recalled
    <2> QED BY <1>5, <2>1, RecalledElsewhere
  <1>11. RecalledAt(w)'
    <2>1. w \in Listening' /\ (Committing' <=> Committing)
      BY <1>2, <1>5 DEF Listening, Committing
    <2>2. Committing \/ (Promised(Tail(heard[w])) /\ (kind = "commit" => ToldBack(Tail(heard[w]), 0)))
      BY <1>2, <1>3, <1>6, PromiseLeft DEF RecalledAt
    <2>3. CASE kind = "aborted"
      <3>1. quitting'[w] = FALSE /\ saving'[w] = saving[w]
        BY <1>4, <1>7, <2>3
      <3> QED BY <1>2, <1>5, <1>6, <1>7, <2>1, <2>2, <2>3, <3>1 DEF RecalledAt
    <2>4. CASE kind \in {"poll", "confirm"}
      <3>1. ToldBack(heard[w], 0) => ToldBack(Tail(heard[w]), 0)
        BY <1>2, <1>3, <2>4, Left
      <3>2. UNCHANGED <<quitting, saving, early>>
        BY <1>7, <2>4
      <3> QED BY <1>2, <1>5, <1>6, <2>1, <2>2, <3>1, <3>2 DEF RecalledAt
    <2>5. CASE kind = "commit" /\ life[w] = "open"
      <3>1. early' = early /\ life'[w] = "open"
        BY <1>5, <1>8, <2>5
      <3> QED BY <1>2, <2>1, <2>2, <2>5, <3>1 DEF RecalledAt
    <2>6. CASE kind = "commit" /\ life[w] # "open"
      <3>1. w \in early' /\ quitting' = quitting
        BY <1>8, <2>6
      <3> QED BY <1>2, <1>5, <1>6, <2>1, <2>2, <2>6, <3>1 DEF RecalledAt
    <2> QED BY <1>9, <2>3, <2>4, <2>5, <2>6
  <1> QED BY <1>10, <1>11 DEF Recalled

\* A page that does something else.
LEMMA RecalledOnPage ==
    ASSUME TInv, Recalled, NEW w \in AppWindows, PageAction(w),
           ~\E id \in QuitIds : Confirm(w, id) \/ Commit(w, id) \/ Aborted(w, id)
    PROVE  Recalled'
  <1>1. /\ heard \in [AppWindows -> Seq(Events)] /\ quitting \in [AppWindows -> BOOLEAN]
        /\ saving \in [AppWindows -> SUBSET Saves] /\ life \in [AppWindows -> Lives]
    BY DEF TInv, PagesOK, QueuesOK
  <1>2. UNCHANGED <<app, run>> /\ app = "running"
    BY PageActionIsQuiet
  <1>3. \A x \in AppWindows : RecalledAt(x)
    BY <1>2 DEF Recalled
  <1>4. CASE UNCHANGED <<life, heard, quitting, saving, early>>
    <2>1. \A x \in AppWindows : RecalledAt(x)'
      BY <1>2, <1>3, <1>4, RecalledElsewhere
    <2> QED BY <2>1 DEF Recalled
  \* Only w is concerned, and it still has to be told what it had to.
  <1>5. ASSUME UNCHANGED <<heard, early>>, NEW l \in Lives, life' = [life EXCEPT ![w] = l],
               NEW b \in BOOLEAN, quitting' = [quitting EXCEPT ![w] = b],
               NEW S, saving' = [saving EXCEPT ![w] = S],
               heard[w] # <<>> => l \in {"booting", "open"},
               b => l = "open" /\ (quitting[w] \/ w \in early),
               S # {} => l = "open" \/ w \in early
        PROVE  Recalled'
    <2>1. RecalledAt(w)'
      <3>1. life'[w] = l /\ quitting'[w] = b /\ saving'[w] = S /\ (Committing' <=> Committing)
        BY <1>1, <1>2, <1>5 DEF Committing
      <3>2. heard'[w] # <<>> => w \in Listening'
        BY <1>5, <3>1 DEF Listening
      <3> QED BY <1>3, <1>5, <3>1, <3>2 DEF RecalledAt
    <2>2. ASSUME NEW x \in AppWindows, x # w
          PROVE  RecalledAt(x)'
      BY <1>1, <1>2, <1>3, <1>5, <2>2, RecalledElsewhere
    <2> QED BY <2>1, <2>2 DEF Recalled
  <1>6. quitting = [quitting EXCEPT ![w] = quitting[w]] /\ saving = [saving EXCEPT ![w] = saving[w]]
        /\ life = [life EXCEPT ![w] = life[w]] /\ quitting[w] \in BOOLEAN /\ life[w] \in Lives
    BY <1>1
  <1>7. /\ heard[w] # <<>> => life[w] \in {"booting", "open"}
        /\ quitting[w] => life[w] = "open"
        /\ saving[w] # {} => life[w] = "open" \/ w \in early
    BY <1>3 DEF RecalledAt, Listening
  <1>8. CASE OpenWindow(w) \/ Loaded(w)
    <2>1. /\ UNCHANGED <<heard, quitting, saving, early>> /\ life[w] \in {"none", "loading"}
          /\ \E l \in {"loading", "booting"} : life' = [life EXCEPT ![w] = l]
      BY <1>8 DEF OpenWindow, Loaded, quitPart, quitPast
    <2>2. PICK l \in {"loading", "booting"} : life' = [life EXCEPT ![w] = l]
      BY <2>1
    <2>3. heard[w] = <<>> /\ ~quitting[w] /\ (saving[w] # {} => w \in early) /\ l \in Lives
      BY <1>7, <2>1, <2>2 DEF Lives
    <2> QED BY <1>5, <1>6, <2>1, <2>2, <2>3
  <1>9. CASE Boots(w)
    <2>1. /\ UNCHANGED <<heard, early>> /\ life[w] = "booting" /\ life' = [life EXCEPT ![w] = "open"]
          /\ quitting' = [quitting EXCEPT ![w] = saving[w] # {}]
      BY <1>9 DEF Boots
    <2>2. PICK S : saving' = [saving EXCEPT ![w] = S]
      BY <1>9 DEF Boots
    <2>3. PICK b \in BOOLEAN : b = (saving[w] # {})
      OBVIOUS
    <2>4. quitting' = [quitting EXCEPT ![w] = b] /\ (b => w \in early) /\ "open" \in Lives
      BY <1>7, <2>1, <2>3 DEF Lives
    <2> QED BY <1>5, <2>1, <2>2, <2>4
  <1>10. ASSUME NEW s \in saving[w], SaveWorkspace(w, s)
         PROVE  Recalled'
    <2>1. UNCHANGED <<heard, early, life, quitting>>
      BY <1>10 DEF SaveWorkspace, quitPast
    <2>2. PICK S : saving' = [saving EXCEPT ![w] = S]
      BY <1>10 DEF SaveWorkspace
    <2> QED BY <1>5, <1>6, <1>7, <1>10, <2>1, <2>2
  <1>11. ASSUME NEW s \in saving[w], SaveFails(w, s)
         PROVE  Recalled'
    <2>1. /\ UNCHANGED <<heard, early, life>> /\ quitting' = [quitting EXCEPT ![w] = FALSE]
          /\ saving' = [saving EXCEPT ![w] = @ \ {s}]
      BY <1>11 DEF SaveFails, quitPast
    <2>2. PICK S : S = saving[w] \ {s}
      OBVIOUS
    <2>3. saving' = [saving EXCEPT ![w] = S] /\ (S # {} => saving[w] # {}) /\ FALSE \in BOOLEAN
      BY <2>1, <2>2
    <2>4. PICK b \in BOOLEAN : b = FALSE
      OBVIOUS
    <2> QED BY <1>5, <1>6, <1>7, <2>1, <2>3, <2>4
  <1>12. ASSUME NEW i \in DOMAIN rowWrites[w], WriteRows(w, i)
         PROVE  Recalled'
    <2>1. UNCHANGED <<heard, early, life, quitting>>
      BY <1>12 DEF WriteRows
    <2>2. PICK done : saving' = [saving EXCEPT ![w] = @ \ done]
      BY <1>12 DEF WriteRows
    <2>3. PICK S : S = saving[w] \ done
      OBVIOUS
    <2>4. saving' = [saving EXCEPT ![w] = S] /\ (S # {} => saving[w] # {})
      BY <2>2, <2>3
    <2> QED BY <1>5, <1>6, <1>7, <2>1, <2>4
  <1>13. CASE SyncSnapshot(w) \/ Decide(w) \/ \E c \in Chats : Begin(w, c) \/ End(w, c)
    BY <1>4, <1>13 DEF SyncSnapshot, Decide, Begin, End, quitPart, quitPages, quitPast
  <1> QED BY <1>8, <1>9, <1>10, <1>11, <1>12, <1>13 DEF PageAction

\* Every step keeps that a page told to save will hear if the quit is called off.
LEMMA RecalledStep ==
    ASSUME TInv, Recalled, [QuitNext]_quitVars
    PROVE  Recalled'
  <1>1. /\ heard \in [AppWindows -> Seq(Events)] /\ quitting \in [AppWindows -> BOOLEAN]
        /\ saving \in [AppWindows -> SUBSET Saves] /\ life \in [AppWindows -> Lives]
    BY DEF TInv, PagesOK, QueuesOK
  <1>2. CASE Coordinates
    <2>1. /\ app = "running" /\ Outcome(Alive, heard) /\ UNCHANGED <<life, quitting, saving, early>>
          /\ Alive \in SUBSET AppWindows
      BY <1>2, CoordinatesOutcome DEF Coordinates, Prompt, TimesOut, HandleCall, quitPages, Alive
    <2>2. ASSUME app' = "running", NEW w \in AppWindows
          PROVE  RecalledAt(w)'
      <3>1. RecalledAt(w)
        BY <2>1, <2>2 DEF Recalled
      <3>2. quitting[w] => w \in Listening
        BY <3>1 DEF RecalledAt, Listening
      <3>3. /\ Committing' \/ Promised(heard'[w])
            /\ w \in Listening /\ (Committing \/ ToldBack(heard[w], 0)) =>
                 Committing' \/ ToldBack(heard'[w], 0)
            /\ heard'[w] # <<>> => w \in Listening
        <4>1. (Committing \/ Promised(heard[w])) /\ (heard[w] # <<>> => w \in Listening)
          BY <3>1 DEF RecalledAt
        <4>2. PICK q, S : q = heard /\ S = Alive
          OBVIOUS
        <4>3. q \in [AppWindows -> Seq(Events)] /\ S \in SUBSET AppWindows /\ Outcome(S, q)
          BY <1>1, <2>1, <4>2
        <4>4. (Committing \/ Promised(q[w])) /\ (q[w] # <<>> => w \in Listening)
          BY <4>1, <4>2
        <4>5. /\ Committing' \/ Promised(heard'[w])
              /\ w \in Listening /\ (Committing \/ ToldBack(q[w], 0)) =>
                   Committing' \/ ToldBack(heard'[w], 0)
              /\ heard'[w] # <<>> => w \in Listening
          BY <2>2, <4>3, <4>4, RecallOutcome
        <4> QED BY <4>2, <4>5
      <3>4. Listening' = Listening
        BY <2>1 DEF Listening
      <3> QED BY <2>1, <3>1, <3>2, <3>3, <3>4 DEF RecalledAt
    <2> QED BY <2>2 DEF Recalled
  <1>3. ASSUME NEW v \in AppWindows, Close(v)
        PROVE  Recalled'
    <2> PICK q, S : q = [heard EXCEPT ![v] = <<>>] /\ S = Alive \ {v}
      OBVIOUS
    <2>1. /\ app = "running" /\ Outcome(S, q) /\ S \in SUBSET AppWindows
          /\ q \in [AppWindows -> Seq(Events)] /\ q[v] = <<>>
          /\ \A w \in AppWindows : w # v => q[w] = heard[w]
      <3>1. Outcome(Alive \ {v}, q) /\ app = "running"
        BY <1>3, ClosesByOutcome
      <3>2. S \in SUBSET AppWindows
        BY DEF Alive
      <3>3. q \in [AppWindows -> Seq(Events)] /\ q[v] = <<>> /\ \A w \in AppWindows : w # v => q[w] = heard[w]
        BY <1>1
      <3> QED BY <3>1, <3>2, <3>3
    <2>2. /\ life' = [life EXCEPT ![v] = "closed"] /\ quitting' = [quitting EXCEPT ![v] = FALSE]
          /\ saving' = [saving EXCEPT ![v] = {}] /\ early' = early
      BY <1>3 DEF Close
    <2>3. app' = "running" => heard'[v] = <<>>
      <3>1. CASE heard' = q
        BY <2>1, <3>1
      <3>2. ASSUME run # None, Commits(run.id, S, q, FALSE)
            PROVE  heard'[v] = <<>>
        <4>1. run.id \in QuitIds /\ "commit" \in EventKind /\ v \notin S
          BY <3>2, RunFacts DEF TInv, EventKind
        <4>2. heard' = Emitted(q, S, Event("commit", run.id))
          BY <3>2 DEF Commits
        <4>3. \E e \in Events : heard'[v] = IF v \in S \cap Listening THEN Append(q[v], e) ELSE q[v]
          BY <2>1, <4>1, <4>2, EmittedAt
        <4> QED BY <2>1, <4>1, <4>3
      <3> QED BY <1>3, <3>1, <3>2, CloseOutcome DEF Stays, Drops, Waits, Asks, Leaves
    <2>4. ASSUME app' = "running", NEW w \in AppWindows, w # v
          PROVE  RecalledAt(w)'
      <3>1. RecalledAt(w) /\ life'[w] = life[w] /\ quitting'[w] = quitting[w] /\ saving'[w] = saving[w]
        BY <1>1, <2>1, <2>2, <2>4 DEF Recalled
      <3>2. quitting[w] => w \in Listening
        BY <3>1 DEF RecalledAt, Listening
      <3>3. (Committing \/ Promised(q[w])) /\ (q[w] # <<>> => w \in Listening)
        BY <2>1, <2>4, <3>1 DEF RecalledAt
      <3>4. /\ Committing' \/ Promised(heard'[w])
            /\ w \in Listening /\ (Committing \/ ToldBack(q[w], 0)) =>
                 Committing' \/ ToldBack(heard'[w], 0)
            /\ heard'[w] # <<>> => w \in Listening
        BY <2>1, <2>4, <3>3, RecallOutcome
      <3>5. w \in Listening' <=> w \in Listening
        BY <3>1 DEF Listening
      <3> QED BY <2>1, <2>2, <2>4, <3>1, <3>2, <3>4, <3>5 DEF RecalledAt
    <2>5. app' = "running" => RecalledAt(v)'
      <3>1. quitting'[v] = FALSE /\ saving'[v] = {}
        BY <1>1, <2>2
      <3> QED BY <2>3, <3>1, PromiseNone DEF RecalledAt
    <2> QED BY <2>4, <2>5 DEF Recalled
  <1>4. CASE RequestQuit
    <2>1. /\ app = "running" /\ run = None /\ UNCHANGED <<life, quitting, saving, early>>
          /\ Alive \in SUBSET AppWindows
      BY <1>4 DEF RequestQuit, quitPages, Alive
    <2>2. CASE Leaves("empty", FALSE, heard)
      BY <2>2 DEF Leaves, Recalled
    <2>4. PICK S, n, q : S = Alive /\ n = quits' /\ q = heard
      OBVIOUS
    <2>3. CASE n \in QuitIds /\ heard' = Emitted(q, S, Event("poll", n))
      <3>1. ASSUME NEW w \in AppWindows
            PROVE  RecalledAt(w)'
        <4>1. RecalledAt(w) /\ ~Committing
          BY <2>1 DEF Recalled, Committing
        <4>2. "poll" \in EventKind /\ S \in SUBSET AppWindows /\ q \in [AppWindows -> Seq(Events)] /\ n \in QuitIds
          BY <1>1, <2>1, <2>3, <2>4 DEF EventKind
        <4>7. heard' = Emitted(q, S, Event("poll", n))
          BY <2>3
        <4>3. PICK e \in Events :
                /\ e.kind = "poll"
                /\ heard'[w] = IF w \in S \cap Listening THEN Append(q[w], e) ELSE q[w]
          BY <3>1, <4>2, <4>7, EmittedAt
        <4>4. heard[w] \in Seq(Events) /\ 0 \in Nat /\ Promised(heard[w])
          BY <1>1, <4>1 DEF RecalledAt
        <4>5. Promised(heard'[w]) /\ (ToldBack(heard[w], 0) => ToldBack(heard'[w], 0))
          BY <2>4, <4>3, <4>4, PromiseJoined, Joined
        <4>6. (heard'[w] # <<>> => w \in Listening) /\ Listening' = Listening
          BY <2>1, <2>4, <4>1, <4>3 DEF RecalledAt, Listening
        <4> QED BY <2>1, <4>1, <4>5, <4>6 DEF RecalledAt
      <3> QED BY <3>1 DEF Recalled
    <2> QED BY <1>4, <2>2, <2>3, <2>4, RequestOutcome
  <1>5. CASE Start
    <2>1. \A w \in AppWindows : heard'[w] = <<>> /\ quitting'[w] = FALSE /\ saving'[w] = {}
      BY <1>5 DEF Start, Fresh
    <2> QED BY <2>1, PromiseNone DEF Recalled, RecalledAt
  <1>6. ASSUME NEW w \in AppWindows, PageAction(w)
        PROVE  Recalled'
    BY <1>6, RecalledOnPage, RecalledOnHearing
  <1>7. ASSUME NEW w \in AppWindows, NEW id \in QuitIds, Poll(w, id)
        PROVE  Recalled'
    BY <1>7, RecalledOnHearing
  <1>8. CASE UNCHANGED quitVars
    BY <1>8 DEF quitVars, quitPages, quitPart, quitCore, quitPast, Recalled, RecalledAt, Committing, Listening
  <1> QED BY <1>2, <1>3, <1>4, <1>5, <1>6, <1>7, <1>8, AllSteps

-----------------------------------------------------------------------------
(* What the app leaves behind names what must be continued *)

\* The turns a window's save cuts short run in it, and what it wrote last is
\* what it runs; a window that is not open has written nothing and saves only
\* once it has a workspace.
PageOf(w) ==
    /\ life[w] # "open" => rowKey[w] = None /\ rowWrites[w] = <<>> /\ \A s \in saving[w] : s.at = "boot"
    /\ life[w] = "open" => \A s \in saving[w] : s.at # "boot"
    /\ life[w] = "none" => \A c \in calls : c.kind = "ready" => c.from # w
    /\ cut[w] \subseteq busy[w]
    /\ rowKey[w] = None => busy[w] = {}
    /\ rowKey[w] # None => rowKey[w] = busy[w]
PagesWrite ==
    /\ cut \in [AppWindows -> SUBSET Chats]
    /\ app = "running" => \A w \in AppWindows : PageOf(w)

\* The only window.  Behind the last write that its turns brought, or behind
\* what is in the table, come only writes of the same chats.
Since(k) ==
    /\ k = 0 => rows = busy[Main]
    /\ k # 0 => rowWrites[Main][k].refs = busy[Main] /\ rowWrites[Main][k].id = 0
    /\ \A j \in DOMAIN rowWrites[Main] : j > k => rowWrites[Main][j].refs = busy[Main]
TableKept ==
    app = "running" /\ Alone /\ Main \notin torn /\ rowKey[Main] # None =>
        /\ \A s \in saving[Main] : s.refs = busy[Main]
        /\ \E k \in 0..Len(rowWrites[Main]) : Since(k)

\* Of the quit that is committing, the only window has yet to hear, is saving,
\* or has said how its save went; and then what it cuts short is stored.
Answers == {c \in calls : c.kind = "ready" /\ c.from = Main}
CutIsSaved == cut[Main] \subseteq shot \cap marked
Unheard(i) == heard[Main][i].kind = "commit"
OneOut ==
    /\ \A i \in DOMAIN heard[Main] : Unheard(i) =>
           /\ Committing /\ heard[Main][i].id = run.id /\ saving[Main] = {} /\ Answers = {}
           /\ \A j \in DOMAIN heard[Main] : Unheard(j) => j = i
    /\ \A s \in saving[Main] :
           /\ Committing /\ s.id = run.id /\ Answers = {} /\ \A t \in saving[Main] : t = s
           /\ cut[Main] \subseteq s.refs \cap s.shown /\ (s.at = "rows" => CutIsSaved)
    /\ \A c \in Answers :
           /\ Committing /\ c.id = run.id /\ \A d \in Answers : d = c
           /\ c.value = TRUE => CutIsSaved
NoneOut == (\A i \in DOMAIN heard[Main] : ~Unheard(i)) /\ saving[Main] = {} /\ Answers = {}
CutKept == app = "running" /\ Alone /\ Main \notin early => OneOut
LeavesBehind == PagesWrite /\ TableKept /\ CutKept /\ KeptForReopening

\* A window that a step does not touch.
LEMMA PageElsewhere ==
    ASSUME NEW w \in AppWindows, PageOf(w),
           life'[w] = life[w], rowKey'[w] = rowKey[w], rowWrites'[w] = rowWrites[w], saving'[w] = saving[w],
           busy'[w] = busy[w], cut'[w] \subseteq cut[w],
           \A c \in calls' : c \in calls \/ c.kind # "ready" \/ c.from # w
    PROVE  PageOf(w)'
  BY DEF PageOf

\* The chats in flight change: they are written, since they are not what was
\* written last.
LEMMA WritesTurns ==
    ASSUME TInv, NEW w \in AppWindows, PageOf(w), NEW refs \in SUBSET Chats, refs # busy[w], InFlight(w, refs)
    PROVE  /\ busy' = [busy EXCEPT ![w] = refs] /\ rowKey' = [rowKey EXCEPT ![w] = refs]
           /\ rowWrites' = [rowWrites EXCEPT ![w] = Append(@, [refs |-> refs, id |-> 0])]
           /\ torn' = IF saving[w] = {} THEN torn ELSE torn \cup {w}
           /\ refs # None
  <1>1. None \notin SUBSET Chats
    BY RowsAssumption
  <1>2. ShouldWrite(w, refs)
    BY <1>1 DEF ShouldWrite, PageOf
  <1> QED BY <1>1, <1>2 DEF InFlight

\* What a save cuts short is a set of chats.
LEMMA CutStep ==
    ASSUME TInv, PagesWrite, [QuitNext]_quitVars
    PROVE  cut' \in [AppWindows -> SUBSET Chats]
  <1>1. cut \in [AppWindows -> SUBSET Chats] /\ busy \in [AppWindows -> SUBSET Chats]
    BY DEF TInv, PagesOK, PagesWrite
  <1>2. CASE cut' = cut
    BY <1>1, <1>2
  <1>3. CASE cut' = [w \in AppWindows |-> {}]
    BY <1>3
  <1>4. ASSUME NEW w \in AppWindows, NEW c \in Chats, End(w, c)
        PROVE  cut' \in [AppWindows -> SUBSET Chats]
    BY <1>1, <1>4 DEF End
  <1>5. ASSUME NEW w \in AppWindows, NEW id \in QuitIds, Commit(w, id)
        PROVE  cut' \in [AppWindows -> SUBSET Chats]
    BY <1>1, <1>5 DEF Commit
  <1>6. CASE RequestQuit \/ Start
    BY <1>3, <1>6 DEF RequestQuit, Start, Fresh
  <1>7. CASE Coordinates
    BY <1>2, <1>7 DEF Coordinates, Prompt, TimesOut, HandleCall
  <1>8. ASSUME NEW w \in AppWindows,
               \/ OpenWindow(w) \/ Loaded(w) \/ Boots(w) \/ Close(w) \/ SyncSnapshot(w) \/ Decide(w)
               \/ \E c \in Chats : Begin(w, c)
               \/ \E id \in QuitIds : Poll(w, id) \/ Confirm(w, id) \/ Aborted(w, id)
               \/ \E s \in saving[w] : SaveWorkspace(w, s) \/ SaveFails(w, s)
               \/ \E i \in DOMAIN rowWrites[w] : WriteRows(w, i)
        PROVE  cut' = cut
    BY <1>8 DEF OpenWindow, Loaded, Boots, Close, SyncSnapshot, Decide, Begin, Poll, Confirm, Aborted,
                SaveWorkspace, SaveFails, WriteRows, quitPast
  <1>9. CASE UNCHANGED quitVars
    BY <1>2, <1>9 DEF quitVars, quitPast
  <1> QED BY <1>2, <1>4, <1>5, <1>6, <1>7, <1>8, <1>9, AllSteps DEF PageAction

\* Every step keeps what a window has written and what it cuts short.
LEMMA PagesWriteStep ==
    ASSUME TInv, PagesWrite, [QuitNext]_quitVars
    PROVE  PagesWrite'
  <1>9. cut' \in [AppWindows -> SUBSET Chats]
    BY CutStep
  <1> SUFFICES ASSUME app' = "running" PROVE \A w \in AppWindows : PageOf(w)'
    BY <1>9 DEF PagesWrite
  <1>0. /\ life \in [AppWindows -> Lives] /\ rowKey \in [AppWindows -> (SUBSET Chats) \cup {None}]
        /\ rowWrites \in [AppWindows -> Seq(Writes)] /\ saving \in [AppWindows -> SUBSET Saves]
        /\ busy \in [AppWindows -> SUBSET Chats] /\ cut \in [AppWindows -> SUBSET Chats]
        /\ \A w \in AppWindows : life[w] # "open" => busy[w] = {}
    BY DEF TInv, PagesOK, QueuesOK, PagesWrite
  <1>1. ASSUME app = "running", NEW v \in AppWindows, PageAction(v)
        PROVE  \A w \in AppWindows : PageOf(w)'
    <2>0. \A w \in AppWindows : PageOf(w)
      BY <1>1 DEF PagesWrite
    <2>1. \A c \in calls' : c \in calls \/ c.from = v
      BY <1>1, PageActionIsQuiet
    \* Only the window that acts is touched.
    <2>2. ASSUME NEW w \in AppWindows, w # v
          PROVE  PageOf(w)'
      <3>1. /\ life'[w] = life[w] /\ rowKey'[w] = rowKey[w] /\ rowWrites'[w] = rowWrites[w]
            /\ saving'[w] = saving[w] /\ busy'[w] = busy[w] /\ cut'[w] = cut[w]
        <4>1. CASE OpenWindow(v) \/ Loaded(v) \/ Boots(v) \/ SyncSnapshot(v) \/ Decide(v)
          BY <1>0, <2>2, <4>1 DEF OpenWindow, Loaded, Boots, SyncSnapshot, Decide, quitPages, quitPart, quitPast
        <4>3. ASSUME NEW c \in Chats, Begin(v, c) \/ End(v, c)
              PROVE  /\ life'[w] = life[w] /\ rowKey'[w] = rowKey[w] /\ rowWrites'[w] = rowWrites[w]
                     /\ saving'[w] = saving[w] /\ busy'[w] = busy[w] /\ cut'[w] = cut[w]
          <5>1. PICK refs : InFlight(v, refs)
            BY <4>3 DEF Begin, End
          <5>2. rowKey'[w] = rowKey[w] /\ rowWrites'[w] = rowWrites[w] /\ busy'[w] = busy[w]
            BY <1>0, <2>2, <5>1 DEF InFlight
          <5>3. life' = life /\ saving' = saving /\ cut'[w] = cut[w]
            BY <1>0, <2>2, <4>3 DEF Begin, End, quitPart
          <5> QED BY <5>2, <5>3
        <4>2. CASE \/ \E id \in QuitIds : Confirm(v, id) \/ Commit(v, id) \/ Aborted(v, id)
                   \/ \E s \in saving[v] : SaveWorkspace(v, s) \/ SaveFails(v, s)
                   \/ \E i \in DOMAIN rowWrites[v] : WriteRows(v, i)
          BY <1>0, <2>2, <4>2 DEF Confirm, Commit, Aborted, SaveWorkspace, SaveFails, WriteRows, quitPages, quitPast
        <4> QED BY <1>1, <4>1, <4>2, <4>3 DEF PageAction
      <3> QED BY <2>0, <2>1, <2>2, <3>1, PageElsewhere
    <2>3. PageOf(v)'
      <3>0. PageOf(v) /\ (life[v] # "none" => life'[v] # "none")
        BY <1>1, <2>0, OwedStays
      <3>1. CASE /\ life'[v] = life[v] /\ rowKey'[v] = rowKey[v] /\ rowWrites'[v] = rowWrites[v]
                 /\ saving'[v] = saving[v] /\ busy'[v] = busy[v] /\ cut'[v] = cut[v]
                 /\ \A c \in calls' : c \in calls \/ c.kind # "ready"
        BY <3>0, <3>1 DEF PageOf
      <3>2. CASE SyncSnapshot(v) \/ Decide(v) \/ \E id \in QuitIds : Confirm(v, id) \/ Aborted(v, id)
        <4>1. /\ UNCHANGED <<life, rowKey, rowWrites, saving, busy, cut>>
              /\ \A c \in calls' : c \in calls \/ c.kind # "ready"
          BY <3>2 DEF SyncSnapshot, Decide, Confirm, Aborted, Call, quitPages, quitPast, quitPart, quitCore
        <4> QED BY <3>1, <4>1
      <3>3. CASE OpenWindow(v) \/ Loaded(v)
        <4>1. PICK l \in {"loading", "booting"} : life' = [life EXCEPT ![v] = l] /\ life[v] # "open"
          BY <3>3 DEF OpenWindow, Loaded
        <4>2. UNCHANGED <<rowKey, rowWrites, saving, busy, cut, calls>>
          BY <3>3 DEF OpenWindow, Loaded, quitPart, quitPast, quitCore
        <4>3. life'[v] = l
          BY <1>0, <4>1
        <4> QED BY <3>0, <4>1, <4>2, <4>3 DEF PageOf
      <3>4. CASE Boots(v)
        <4>1. /\ life'[v] = "open" /\ life[v] = "booting" /\ UNCHANGED <<rowKey, rowWrites, busy, cut>>
          BY <1>0, <3>4 DEF Boots
        <4>2. \A s \in saving'[v] : s.at = "transcripts"
          <5>1. CASE Resumed = {}
            BY <1>0, <3>4, <5>1 DEF Boots
          <5>2. CASE Resumed # {}
            <6>1. saving'[v] = {Save(s.id, "transcripts", Resumed \cap (rows \cup marked), Resumed) : s \in saving[v]}
              BY <1>0, <3>4, <5>2 DEF Boots
            <6> QED BY <6>1 DEF Save
          <5> QED BY <5>1, <5>2
        <4> QED BY <1>0, <3>0, <4>1, <4>2 DEF PageOf
      <3>5. ASSUME NEW c \in Chats, Begin(v, c) \/ End(v, c)
            PROVE  PageOf(v)'
        <4>1. PICK refs \in SUBSET Chats :
                 /\ InFlight(v, refs) /\ refs # busy[v]
                 /\ cut' = cut \/ cut' = [cut EXCEPT ![v] = @ \ {c}]
                 /\ busy[v] \ {c} \subseteq refs /\ (c \in refs \/ cut' = [cut EXCEPT ![v] = @ \ {c}])
          <5>1. CASE Begin(v, c)
            <6>1. InFlight(v, busy[v] \cup {c}) /\ c \notin busy[v] /\ cut' = cut
              BY <5>1 DEF Begin
            <6>2. busy[v] \cup {c} \in SUBSET Chats /\ busy[v] \cup {c} # busy[v]
              BY <1>0, <6>1
            <6> QED BY <6>1, <6>2
          <5>2. CASE End(v, c)
            <6>1. InFlight(v, busy[v] \ {c}) /\ c \in busy[v] /\ cut' = [cut EXCEPT ![v] = @ \ {c}]
              BY <5>2 DEF End
            <6>2. busy[v] \ {c} \in SUBSET Chats /\ busy[v] \ {c} # busy[v]
              BY <1>0, <6>1
            <6> QED BY <6>1, <6>2
          <5> QED BY <3>5, <5>1, <5>2
        <4>2. /\ life[v] = "open" /\ UNCHANGED <<life, saving, calls>>
          BY <1>0, <3>5 DEF Begin, End, quitPart, quitCore
        <4>4. busy'[v] = refs /\ rowKey'[v] = refs /\ refs # None
          <5>1. InFlight(v, refs) /\ refs # busy[v] /\ PageOf(v)
            BY <3>0, <4>1
          <5>2. busy' = [busy EXCEPT ![v] = refs] /\ rowKey' = [rowKey EXCEPT ![v] = refs] /\ refs # None
            BY <5>1, WritesTurns
          <5> QED BY <1>0, <5>2
        <4>3. cut'[v] \subseteq refs
          <5>1. cut'[v] = cut[v] \/ cut'[v] = cut[v] \ {c}
            BY <1>0, <4>1
          <5>2. c \in refs \/ cut'[v] = cut[v] \ {c}
            BY <1>0, <4>1
          <5> QED BY <3>0, <4>1, <5>1, <5>2 DEF PageOf
        <4> QED BY <3>0, <4>2, <4>3, <4>4 DEF PageOf
      <3>6. ASSUME NEW id \in QuitIds, Commit(v, id)
            PROVE  PageOf(v)'
        <4>1. /\ UNCHANGED <<life, rowKey, rowWrites, busy, calls>> /\ cut'[v] \subseteq busy[v]
          BY <1>0, <3>6 DEF Commit, quitPages, quitCore
        <4>2. IF life[v] = "open" THEN \A s \in saving'[v] : s \in saving[v] \/ s.at = "transcripts"
                                  ELSE \A s \in saving'[v] : s \in saving[v] \/ s.at = "boot"
          <5>1. CASE life[v] = "open"
            BY <1>0, <3>6, <5>1 DEF Commit, Save
          <5>2. CASE life[v] # "open"
            BY <1>0, <3>6, <5>2 DEF Commit, Save
          <5> QED BY <5>1, <5>2
        <4> QED BY <3>0, <4>1, <4>2 DEF PageOf
      <3>7. ASSUME NEW s \in saving[v], SaveWorkspace(v, s) \/ SaveFails(v, s)
            PROVE  PageOf(v)'
        <4>1. life[v] = "open"
          BY <3>0, <3>7 DEF PageOf, SaveWorkspace, SaveFails
        <4>2. UNCHANGED <<life, rowKey, busy, cut>>
          BY <3>7 DEF SaveWorkspace, SaveFails, quitPast
        <4>3. \A t \in saving'[v] : t \in saving[v] \/ t.at = "rows"
          <5>1. PICK r : r = [s EXCEPT !.at = "rows"]
            OBVIOUS
          <5>2. CASE SaveWorkspace(v, s)
            <6>1. saving'[v] = (saving[v] \ {s}) \cup {r}
              BY <1>0, <5>1, <5>2 DEF SaveWorkspace
            <6>2. s \in Saves
              BY <1>0
            <6>3. r.at = "rows"
              BY <5>1, <6>2 DEF Saves
            <6> QED BY <6>1, <6>3
          <5>3. CASE SaveFails(v, s)
            BY <1>0, <5>3 DEF SaveFails
          <5> QED BY <3>7, <5>2, <5>3
        <4> QED BY <3>0, <4>1, <4>2, <4>3 DEF PageOf
      <3>8. ASSUME NEW i \in DOMAIN rowWrites[v], WriteRows(v, i)
            PROVE  PageOf(v)'
        <4>1. life[v] = "open"
          BY <3>0, <3>8 DEF PageOf
        <4>2. UNCHANGED <<life, rowKey, busy, cut>> /\ saving'[v] \subseteq saving[v]
          BY <1>0, <3>8 DEF WriteRows
        <4> QED BY <3>0, <4>1, <4>2 DEF PageOf
      <3> QED BY <1>1, <3>2, <3>3, <3>4, <3>5, <3>6, <3>7, <3>8 DEF PageAction
    <2> QED BY <2>2, <2>3
  <1>2. ASSUME app = "running", UNCHANGED <<life, rowKey, rowWrites, saving, busy>>,
               \A w \in AppWindows : cut'[w] \subseteq cut[w],
               \A c \in calls' : c \in calls \/ c.kind # "ready"
        PROVE  \A w \in AppWindows : PageOf(w)'
    BY <1>2, PageElsewhere DEF PagesWrite
  <1>3. CASE Coordinates
    <2>1. app = "running" /\ calls' \subseteq calls
      BY <1>3, CoordinatesOutcome
    <2>2. UNCHANGED <<life, rowKey, rowWrites, saving, busy, cut>>
      BY <1>3 DEF Coordinates, Prompt, TimesOut, HandleCall, quitPages
    <2> QED BY <1>2, <2>1, <2>2
  <1>4. CASE RequestQuit
    <2>1. app = "running" /\ UNCHANGED <<life, rowKey, rowWrites, saving, busy, calls>>
      BY <1>4 DEF RequestQuit, quitPages
    <2>2. \A w \in AppWindows : cut'[w] \subseteq cut[w]
      BY <1>4 DEF RequestQuit
    <2> QED BY <1>2, <2>1, <2>2
  <1>5. ASSUME NEW v \in AppWindows, Close(v)
        PROVE  \A w \in AppWindows : PageOf(w)'
    <2>1. /\ app = "running" /\ calls' \subseteq calls /\ cut' = cut /\ busy' = busy /\ rowWrites' = rowWrites
          /\ life' = [life EXCEPT ![v] = "closed"] /\ rowKey' = [rowKey EXCEPT ![v] = None]
          /\ saving' = [saving EXCEPT ![v] = {}] /\ rowWrites[v] = <<>> /\ busy[v] = {}
      BY <1>5 DEF Close
    <2>2. \A w \in AppWindows : PageOf(w)
      BY <2>1 DEF PagesWrite
    <2>3. ASSUME NEW w \in AppWindows, w # v
          PROVE  PageOf(w)'
      BY <2>1, <2>2, <2>3, PageElsewhere
    <2>4. PageOf(v)'
      BY <1>0, <2>1, <2>2 DEF PageOf
    <2> QED BY <2>3, <2>4
  <1>6. CASE Start
    BY <1>6 DEF Start, Fresh, PageOf
  <1>7. ASSUME NEW w \in AppWindows, NEW id \in QuitIds, Poll(w, id)
        PROVE  \A x \in AppWindows : PageOf(x)'
    <2>1. app = "running" /\ UNCHANGED <<life, rowKey, rowWrites, saving, busy, cut>>
      BY <1>7 DEF Poll, Hears, quitPages
    <2>2. \A c \in calls' : c \in calls \/ c.kind # "ready"
      BY <1>7 DEF Poll, Call
    <2> QED BY <1>2, <2>1, <2>2
  <1>8. CASE UNCHANGED quitVars
    <2>1. app = "running" /\ UNCHANGED <<life, rowKey, rowWrites, saving, busy, cut, calls>>
      BY <1>8 DEF quitVars, quitPages, quitPart, quitCore, quitPast
    <2> QED BY <1>2, <2>1
  <1> QED BY <1>1, <1>3, <1>4, <1>5, <1>6, <1>7, <1>8, AllSteps, PageActionIsQuiet

\* As long as the app has had one window, no other one does anything, but for
\* a second one that opens, and an answer to a dialog that it never had.
LEMMA OnlyMain ==
    ASSUME TInv, Recalled, PagesWrite, app = "running", Alone, NEW v \in AppWindows, v # Main, PageAction(v)
    PROVE  OpenWindow(v) \/ Decide(v)
  <1>1. /\ life[v] = "none" /\ busy[v] = {} /\ heard[v] = <<>> /\ rowWrites[v] = <<>>
        /\ \A s \in saving[v] : s.at = "boot"
    <2>1. life[v] = "none"
      BY DEF Alone
    <2> QED BY <2>1 DEF TInv, PagesOK, Recalled, RecalledAt, Listening, PagesWrite, PageOf
  <1>2. ~Loaded(v) /\ ~Boots(v) /\ ~SyncSnapshot(v) /\ \A c \in Chats : ~Begin(v, c) /\ ~End(v, c)
    BY <1>1 DEF Loaded, Boots, SyncSnapshot, Begin, End
  <1>3. \A id \in QuitIds : ~Confirm(v, id) /\ ~Commit(v, id) /\ ~Aborted(v, id)
    BY <1>1 DEF Confirm, Commit, Aborted, Hears
  <1>4. \A s \in saving[v] : ~SaveWorkspace(v, s) /\ ~SaveFails(v, s)
    BY <1>1 DEF SaveWorkspace, SaveFails
  <1>5. ~\E i \in DOMAIN rowWrites[v] : WriteRows(v, i)
    BY <1>1
  <1> QED BY <1>2, <1>3, <1>4, <1>5 DEF PageAction

\* No step but a restart makes a window one that was never opened.
LEMMA StillAlone ==
    ASSUME TInv, [QuitNext]_quitVars, ~Start, Alone'
    PROVE  Alone
  <1>1. ASSUME NEW v \in AppWindows, PageAction(v)
        PROVE  Alone
    BY <1>1, OwedStays DEF Alone
  <1>2. ASSUME NEW v \in AppWindows, Close(v)
        PROVE  Alone
    BY <1>2, CloseLeaves DEF Alone
  <1>3. CASE life' = life
    BY <1>3 DEF Alone
  <1>4. CASE RequestQuit \/ Coordinates \/ \E w \in AppWindows, id \in QuitIds : Poll(w, id)
    BY <1>3, <1>4 DEF RequestQuit, Coordinates, Prompt, TimesOut, HandleCall, Poll, quitPages
  <1>5. CASE UNCHANGED quitVars
    BY <1>3, <1>5 DEF quitVars, quitPages
  <1> QED BY <1>1, <1>2, <1>4, <1>5, AllSteps

\* What a step does to the writes of a page.
LEMMA WriteAdded ==
    ASSUME NEW p \in Seq(Writes), NEW e
    PROVE  /\ Len(Append(p, e)) = Len(p) + 1 /\ Append(p, e)[Len(p) + 1] = e
           /\ \A j \in DOMAIN Append(p, e) : j \in Nat /\ (j \in DOMAIN p \/ j = Len(p) + 1)
           /\ \A j \in DOMAIN p : Append(p, e)[j] = p[j]
           /\ DOMAIN p = 1..Len(p) /\ Len(p) \in Nat
  OBVIOUS

LEMMA WriteTaken ==
    ASSUME NEW p \in Seq(Writes), p # <<>>, NEW q,
           q = Tail(p) \/ q = [k \in 1..(Len(p) - 1) |-> IF k < 1 THEN p[k] ELSE p[k + 1]]
    PROVE  /\ Len(q) = Len(p) - 1 /\ DOMAIN p = 1..Len(p) /\ Len(p) \in Nat /\ Len(p) > 0 /\ Head(p) = p[1]
           /\ \A j \in DOMAIN q : j \in Nat /\ j + 1 \in DOMAIN p /\ q[j] = p[j + 1]
           /\ DOMAIN q = 1..(Len(p) - 1)
  <1>1. Len(p) \in Nat /\ Len(p) > 0 /\ DOMAIN p = 1..Len(p) /\ Head(p) = p[1]
    OBVIOUS
  <1>2. q \in Seq(Writes) /\ Len(q) = Len(p) - 1 /\ \A j \in 1..(Len(p) - 1) : q[j] = p[j + 1]
    <2>1. CASE q = Tail(p)
      BY <1>1, <2>1
    <2>2. CASE q = [k \in 1..(Len(p) - 1) |-> IF k < 1 THEN p[k] ELSE p[k + 1]]
      <3>1. \A k \in 1..(Len(p) - 1) : q[k] = p[k + 1] /\ p[k + 1] \in Writes
        BY <1>1, <2>2
      <3>2. q \in [1..(Len(p) - 1) -> Writes] /\ Len(p) - 1 \in Nat
        BY <1>1, <2>2, <3>1
      <3> QED BY <3>1, <3>2
    <2> QED BY <2>1, <2>2
  <1>3. DOMAIN q = 1..Len(q)
    BY <1>2
  <1> QED BY <1>1, <1>2, <1>3

\* Every step keeps that the table follows the only window.
LEMMA TableKeptStep ==
    ASSUME TInv, Recalled, PagesWrite, TableKept, [QuitNext]_quitVars
    PROVE  TableKept'
  <1> SUFFICES ASSUME app' = "running", Alone', Main \notin torn', rowKey'[Main] # None
               PROVE  /\ \A s \in saving'[Main] : s.refs = busy'[Main]
                      /\ \E k \in 0..Len(rowWrites'[Main]) : Since(k)'
    BY DEF TableKept
  <1>0. /\ Main \in AppWindows
        /\ life \in [AppWindows -> Lives] /\ rowKey \in [AppWindows -> (SUBSET Chats) \cup {None}]
        /\ rowWrites \in [AppWindows -> Seq(Writes)] /\ saving \in [AppWindows -> SUBSET Saves]
        /\ busy \in [AppWindows -> SUBSET Chats]
    BY QuitAssumption DEF TInv, PagesOK, QueuesOK
  <1>a. ASSUME Start
        PROVE  FALSE
    <2>1. rowKey' = [x \in AppWindows |-> None]
      BY <1>a DEF Start, Fresh
    <2> QED BY <1>0, <2>1
  <1>b. Alone
    BY <1>a, StillAlone
  \* Nothing that matters changes.
  <1>2. ASSUME app = "running", Main \notin torn, rowKey[Main] # None, saving'[Main] \subseteq saving[Main],
               rowWrites'[Main] = rowWrites[Main], rows' = rows, busy'[Main] = busy[Main]
        PROVE  /\ \A s \in saving'[Main] : s.refs = busy'[Main]
               /\ \E k \in 0..Len(rowWrites'[Main]) : Since(k)'
    BY <1>2, <1>b DEF TableKept, Since
  <1>3. CASE Coordinates
    <2>1. app = "running"
      BY <1>3, CoordinatesOutcome
    <2>2. UNCHANGED <<torn, rowKey, saving, rowWrites, rows, busy>>
      BY <1>3 DEF Coordinates, Prompt, TimesOut, HandleCall, quitPages, quitStore
    <2> QED BY <1>2, <2>1, <2>2
  <1>4. CASE RequestQuit
    <2>1. app = "running" /\ UNCHANGED <<torn, rowKey, saving, rowWrites, rows, busy>>
      BY <1>4 DEF RequestQuit, quitPages, quitStore
    <2> QED BY <1>2, <2>1
  <1>5. ASSUME NEW v \in AppWindows, NEW id \in QuitIds, Poll(v, id)
        PROVE  /\ \A s \in saving'[Main] : s.refs = busy'[Main]
               /\ \E k \in 0..Len(rowWrites'[Main]) : Since(k)'
    <2>1. app = "running" /\ UNCHANGED <<torn, rowKey, saving, rowWrites, rows, busy>>
      BY <1>5 DEF Poll, Hears, quitPages, quitStore
    <2> QED BY <1>2, <2>1
  <1>6. CASE UNCHANGED quitVars
    <2>1. app = "running" /\ UNCHANGED <<torn, rowKey, saving, rowWrites, rows, busy>>
      BY <1>6 DEF quitVars, quitPages, quitPart, quitStore, quitPast
    <2> QED BY <1>2, <2>1
  <1>7. ASSUME NEW v \in AppWindows, Close(v)
        PROVE  FALSE
    <2>1. v \in Alive /\ rowKey' = [rowKey EXCEPT ![v] = None]
      BY <1>7 DEF Close
    <2> QED BY <1>0, <1>b, <2>1 DEF Alone, Alive
  <1>8. ASSUME NEW v \in AppWindows, PageAction(v)
        PROVE  /\ \A s \in saving'[Main] : s.refs = busy'[Main]
               /\ \E k \in 0..Len(rowWrites'[Main]) : Since(k)'
    <2>0. app = "running"
      BY <1>8, PageActionIsQuiet
    <2>a. v = Main \/ Decide(v)
      <3>1. ASSUME v # Main, OpenWindow(v)
            PROVE  FALSE
        BY <1>0, <3>1 DEF OpenWindow, Alone
      <3> QED BY <1>8, <1>b, <2>0, <3>1, OnlyMain
    <2>b. PageOf(Main)
      BY <1>0, <2>0 DEF PagesWrite
    <2>1. CASE \/ OpenWindow(v) \/ Loaded(v) \/ SyncSnapshot(v) \/ Decide(v)
               \/ \E id \in QuitIds : Confirm(v, id) \/ Aborted(v, id)
      <3>1. UNCHANGED <<torn, rowKey, saving, rowWrites, rows, busy>>
        BY <2>1 DEF OpenWindow, Loaded, SyncSnapshot, Decide, Confirm, Aborted, quitPages, quitPart,
                    quitStore, quitPast
      <3> QED BY <1>2, <2>0, <3>1
    <2>2. CASE Boots(v) /\ v = Main
      BY <1>0, <2>b, <2>2 DEF Boots, PageOf
    <2>3. ASSUME NEW c \in Chats, Begin(v, c) \/ End(v, c), v = Main
          PROVE  /\ \A s \in saving'[Main] : s.refs = busy'[Main]
                 /\ \E k \in 0..Len(rowWrites'[Main]) : Since(k)'
      <3>1. PICK refs \in SUBSET Chats : InFlight(Main, refs) /\ refs # busy[Main] /\ saving' = saving
        <4>1. CASE Begin(v, c)
          <5>1. InFlight(Main, busy[Main] \cup {c}) /\ c \notin busy[Main] /\ saving' = saving
            BY <2>3, <4>1 DEF Begin, quitPart
          <5>2. busy[Main] \cup {c} \in SUBSET Chats /\ busy[Main] \cup {c} # busy[Main]
            BY <1>0, <5>1
          <5> QED BY <5>1, <5>2
        <4>2. CASE End(v, c)
          <5>1. InFlight(Main, busy[Main] \ {c}) /\ c \in busy[Main] /\ saving' = saving
            BY <2>3, <4>2 DEF End, quitPart
          <5>2. busy[Main] \ {c} \in SUBSET Chats /\ busy[Main] \ {c} # busy[Main]
            BY <1>0, <5>1
          <5> QED BY <5>1, <5>2
        <4> QED BY <2>3, <4>1, <4>2
      <3>2. /\ busy' = [busy EXCEPT ![Main] = refs]
            /\ rowWrites' = [rowWrites EXCEPT ![Main] = Append(@, [refs |-> refs, id |-> 0])]
            /\ torn' = IF saving[Main] = {} THEN torn ELSE torn \cup {Main}
        BY <1>0, <2>b, <3>1, WritesTurns
      <3>3. saving'[Main] = {}
        BY <3>1, <3>2
      <3> PICK e : e = [refs |-> refs, id |-> 0]
        OBVIOUS
      <3> PICK k : k = Len(rowWrites[Main]) + 1
        OBVIOUS
      <3>4. rowWrites'[Main] = Append(rowWrites[Main], e) /\ busy'[Main] = refs /\ e.refs = refs /\ e.id = 0
        BY <1>0, <3>2
      <3>5. Len(rowWrites'[Main]) = k /\ k \in 0..k /\ k # 0 /\ rowWrites'[Main][k] = e
        BY <1>0, <3>4, WriteAdded
      <3>6. \A j \in DOMAIN rowWrites'[Main] : ~(j > k)
        BY <1>0, <3>4, WriteAdded
      <3>7. Since(k)'
        BY <3>4, <3>5, <3>6 DEF Since
      <3> QED BY <3>3, <3>5, <3>7
    \* The rest needs the window to be open, and what it wrote so far.
    <2>4. ASSUME Main \notin torn, rowKey[Main] # None
          PROVE  /\ life[Main] = "open" /\ \A s \in saving[Main] : s.refs = busy[Main]
                 /\ \E k \in 0..Len(rowWrites[Main]) : Since(k)
      BY <1>b, <2>0, <2>b, <2>4 DEF PageOf, TableKept
    <2>5. ASSUME NEW id \in QuitIds, Commit(v, id), v = Main
          PROVE  /\ \A s \in saving'[Main] : s.refs = busy'[Main]
                 /\ \E k \in 0..Len(rowWrites'[Main]) : Since(k)'
      <3>1. UNCHANGED <<torn, rowKey, rowWrites, rows, busy>>
        BY <2>5 DEF Commit, quitPages, quitStore
      <3>2. life[Main] = "open" /\ saving'[Main] = saving[Main] \cup {Save(id, "transcripts", QuitRefs(Main), tabs[Main])}
        BY <1>0, <2>4, <2>5, <3>1 DEF Commit
      <3>3. Save(id, "transcripts", QuitRefs(Main), tabs[Main]).refs = busy[Main]
        BY DEF Save, QuitRefs
      <3>4. \A s \in saving'[Main] : s.refs = busy'[Main]
        BY <2>4, <3>1, <3>2, <3>3
      <3> QED BY <2>4, <3>1, <3>4 DEF Since
    <2>6. ASSUME NEW s \in saving[Main], SaveWorkspace(Main, s)
          PROVE  /\ \A t \in saving'[Main] : t.refs = busy'[Main]
                 /\ \E k \in 0..Len(rowWrites'[Main]) : Since(k)'
      <3>1. UNCHANGED <<torn, rowKey, rows, busy>>
        BY <2>6 DEF SaveWorkspace, quitPast
      <3> PICK e : e = [refs |-> s.refs, id |-> s.id]
        OBVIOUS
      <3> PICK r : r = [s EXCEPT !.at = "rows"]
        OBVIOUS
      <3>2. rowWrites'[Main] = Append(rowWrites[Main], e) /\ saving'[Main] = (saving[Main] \ {s}) \cup {r}
        BY <1>0, <2>6 DEF SaveWorkspace
      <3>3. s.refs = busy[Main] /\ e.refs = busy[Main] /\ r.refs = busy[Main]
        <4>1. s \in Saves /\ s.refs = busy[Main]
          BY <1>0, <2>4, <3>1
        <4>2. r.refs = s.refs
          BY <4>1 DEF Saves
        <4> QED BY <4>1, <4>2
      <3>4. \A t \in saving'[Main] : t.refs = busy'[Main]
        BY <2>4, <3>1, <3>2, <3>3
      <3>5. PICK k \in 0..Len(rowWrites[Main]) : Since(k)
        BY <2>4, <3>1
      <3>6. /\ k \in Nat /\ Len(rowWrites'[Main]) = Len(rowWrites[Main]) + 1 /\ k \in 0..Len(rowWrites'[Main])
            /\ k # 0 => k \in DOMAIN rowWrites[Main] /\ rowWrites'[Main][k] = rowWrites[Main][k]
        BY <1>0, <3>2, WriteAdded
      <3>7. \A j \in DOMAIN rowWrites'[Main] : j > k => rowWrites'[Main][j].refs = busy[Main]
        <4>1. ASSUME NEW j \in DOMAIN rowWrites'[Main], j > k
              PROVE  rowWrites'[Main][j].refs = busy[Main]
          <5>1. CASE j \in DOMAIN rowWrites[Main]
            BY <1>0, <3>2, <3>5, <4>1, <5>1, WriteAdded DEF Since
          <5>2. CASE j = Len(rowWrites[Main]) + 1
            BY <1>0, <3>2, <3>3, <5>2, WriteAdded
          <5> QED BY <1>0, <3>2, <4>1, <5>1, <5>2, WriteAdded
        <4> QED BY <4>1
      <3>8. Since(k)'
        BY <3>1, <3>5, <3>6, <3>7 DEF Since
      <3> QED BY <3>4, <3>6, <3>8
    <2>7. ASSUME NEW s \in saving[Main], SaveFails(Main, s)
          PROVE  /\ \A t \in saving'[Main] : t.refs = busy'[Main]
                 /\ \E k \in 0..Len(rowWrites'[Main]) : Since(k)'
      <3>1. UNCHANGED <<torn, rowKey, rows, busy>> /\ saving'[Main] \subseteq saving[Main]
        BY <1>0, <2>7 DEF SaveFails, quitPast
      <3>2. CASE rowWrites' = rowWrites
        BY <1>2, <2>0, <3>1, <3>2
      <3>3. CASE s.at = "rows" /\ Head(rowWrites[Main]).id = s.id /\ rowWrites' = [rowWrites EXCEPT ![Main] = Tail(@)]
        <4>1. PICK k \in 0..Len(rowWrites[Main]) : Since(k)
          BY <2>4, <3>1
        <4>2. \A t \in saving'[Main] : t.refs = busy'[Main]
          BY <2>4, <3>1
        <4>3. CASE rowWrites[Main] = <<>>
          <5>1. Tail(rowWrites[Main]) = rowWrites[Main]
            BY <4>3
          <5>2. rowWrites'[Main] = rowWrites[Main]
            BY <1>0, <3>3, <5>1
          <5> QED BY <1>2, <2>0, <3>1, <5>2
        <4>4. CASE rowWrites[Main] # <<>>
          <5>1. s.id # 0
            <6>1. s \in Saves
              BY <1>0
            <6> QED BY <6>1 DEF Saves, QuitIds
          <5> PICK q : q = Tail(rowWrites[Main])
            OBVIOUS
          <5>2. rowWrites'[Main] = q
            BY <1>0, <3>3
          <5>3. Head(rowWrites[Main]) = rowWrites[Main][1] /\ Len(q) = Len(rowWrites[Main]) - 1
            BY <1>0, <4>4, WriteTaken
          <5>4. k # 1
            BY <3>3, <4>1, <5>1, <5>3 DEF Since
          <5>5. CASE k = 0
            <6>1. Since(0)'
              <7>1. ASSUME NEW j \in DOMAIN q
                    PROVE  q[j].refs = busy[Main]
                <8>1. j \in Nat /\ j + 1 \in DOMAIN rowWrites[Main] /\ q[j] = rowWrites[Main][j + 1]
                  BY <1>0, <4>4, <7>1, WriteTaken
                <8> QED BY <4>1, <5>5, <8>1 DEF Since
              <7> QED BY <3>1, <4>1, <5>2, <5>5, <7>1 DEF Since
            <6>2. 0 \in 0..Len(rowWrites'[Main])
              BY <1>0, <4>4, <5>2, WriteTaken
            <6> QED BY <4>2, <6>1, <6>2
          <5>6. CASE k > 1
            <6> PICK i : i = k - 1
              OBVIOUS
            <6>1. i \in 0..Len(q) /\ i # 0 /\ i \in DOMAIN q /\ i + 1 = k
              BY <1>0, <4>1, <4>4, <5>6, WriteTaken
            <6>2. q[i] = rowWrites[Main][k]
              BY <1>0, <4>4, <6>1, WriteTaken
            <6>3. ASSUME NEW j \in DOMAIN q, j > i
                  PROVE  q[j].refs = busy[Main]
              <7>1. j \in Nat /\ j + 1 \in DOMAIN rowWrites[Main] /\ q[j] = rowWrites[Main][j + 1] /\ j + 1 > k
                BY <1>0, <4>1, <4>4, <6>1, <6>3, WriteTaken
              <7> QED BY <4>1, <7>1 DEF Since
            <6>4. Since(i)'
              BY <3>1, <4>1, <5>2, <5>6, <6>1, <6>2, <6>3 DEF Since
            <6> QED BY <4>2, <5>2, <6>1, <6>4
          <5> QED BY <4>1, <5>4, <5>5, <5>6
        <4> QED BY <4>3, <4>4
      <3> QED BY <2>7, <3>2, <3>3 DEF SaveFails
    <2>8. ASSUME NEW i \in DOMAIN rowWrites[Main], WriteRows(Main, i)
          PROVE  /\ \A t \in saving'[Main] : t.refs = busy'[Main]
                 /\ \E k \in 0..Len(rowWrites'[Main]) : Since(k)'
      <3>1. UNCHANGED <<torn, rowKey, busy>> /\ saving'[Main] \subseteq saving[Main]
        BY <1>0, <2>8 DEF WriteRows
      <3> PICK p : p = rowWrites[Main]
        OBVIOUS
      <3> PICK q : q = [n \in 1..(Len(p) - 1) |-> IF n < 1 THEN p[n] ELSE p[n + 1]]
        OBVIOUS
      <3>2. i = 1 /\ rows' = p[1].refs /\ rowWrites'[Main] = q
        BY <1>0, <2>8 DEF WriteRows, NextWrite
      <3>3. PICK k \in 0..Len(p) : Since(k)
        BY <2>4, <3>1
      <3>4. \A t \in saving'[Main] : t.refs = busy'[Main]
        BY <2>4, <3>1
      <3>5. p \in Seq(Writes) /\ p # <<>> /\ 1 \in DOMAIN p
        BY <1>0, <2>8, <3>2
      <3>6. /\ Len(q) = Len(p) - 1 /\ DOMAIN q = 1..(Len(p) - 1) /\ Len(p) \in Nat
            /\ \A j \in DOMAIN q : j \in Nat /\ j + 1 \in DOMAIN p /\ q[j] = p[j + 1]
        BY <3>5, WriteTaken
      <3>7. CASE k \in {0, 1}
        <4>1. rows' = busy[Main]
          BY <3>2, <3>3, <3>5, <3>7 DEF Since
        <4>2. ASSUME NEW j \in DOMAIN q
              PROVE  q[j].refs = busy[Main]
          <5>1. j \in Nat /\ j + 1 \in DOMAIN p /\ q[j] = p[j + 1] /\ j + 1 > k
            BY <3>6, <3>7, <4>2
          <5> QED BY <3>3, <5>1 DEF Since
        <4>3. Since(0)'
          BY <3>1, <3>2, <4>1, <4>2 DEF Since
        <4>4. 0 \in 0..Len(rowWrites'[Main])
          <5>1. Len(p) > 0
            BY <3>5
          <5>2. 0 \in 0..(Len(p) - 1)
            BY <3>6, <5>1
          <5> QED BY <3>2, <3>6, <5>2
        <4> QED BY <3>4, <4>3, <4>4
      <3>8. CASE k > 1
        <4> PICK n : n = k - 1
          OBVIOUS
        <4>1. n \in 0..Len(q) /\ n # 0 /\ n \in DOMAIN q /\ n + 1 = k /\ q[n] = p[k]
          BY <3>3, <3>6, <3>8
        <4>2. ASSUME NEW j \in DOMAIN q, j > n
              PROVE  q[j].refs = busy[Main]
          <5>1. j \in Nat /\ j + 1 \in DOMAIN p /\ q[j] = p[j + 1] /\ j + 1 > k
            BY <3>3, <3>6, <4>1, <4>2
          <5> QED BY <3>3, <5>1 DEF Since
        <4>3. Since(n)'
          BY <3>1, <3>2, <3>3, <3>8, <4>1, <4>2 DEF Since
        <4> QED BY <3>2, <3>4, <4>1, <4>3
      <3> QED BY <3>3, <3>7, <3>8
    <2>9. CASE v = Main
      BY <1>8, <2>1, <2>2, <2>3, <2>5, <2>6, <2>7, <2>8, <2>9 DEF PageAction
    <2> QED BY <2>a, <2>1, <2>9
  <1> QED BY <1>a, <1>3, <1>4, <1>5, <1>6, <1>7, <1>8, AllSteps

\* Only a quit that is committing has told the window to save.
LEMMA OneOrNone == (NoneOut => OneOut) /\ (OneOut /\ ~Committing => NoneOut)
  BY DEF NoneOut, OneOut

\* An event that is no commit comes or goes, an answer goes, a turn ends.
LEMMA StillOne ==
    ASSUME OneOut, Committing => Committing' /\ run'.id = run.id, saving'[Main] = saving[Main],
           Answers' \subseteq Answers, cut'[Main] \subseteq cut[Main], CutIsSaved => CutIsSaved',
           NEW d \in {0, 1},
           \A i \in DOMAIN heard'[Main] : Unheard(i)' =>
               i \in Nat /\ i + d \in DOMAIN heard[Main] /\ heard'[Main][i] = heard[Main][i + d]
    PROVE  OneOut'
  <1>1. ASSUME NEW i \in DOMAIN heard'[Main], Unheard(i)'
        PROVE  /\ Committing' /\ heard'[Main][i].id = run'.id /\ saving'[Main] = {} /\ Answers' = {}
               /\ \A j \in DOMAIN heard'[Main] : Unheard(j)' => j = i
    <2>1. i \in Nat /\ i + d \in DOMAIN heard[Main] /\ heard'[Main][i] = heard[Main][i + d]
      BY <1>1
    <2>2. Unheard(i + d)
      BY <1>1, <2>1 DEF Unheard
    <2>3. /\ Committing' /\ heard'[Main][i].id = run'.id /\ saving'[Main] = {} /\ Answers' = {}
      BY <2>1, <2>2 DEF OneOut
    <2>4. ASSUME NEW j \in DOMAIN heard'[Main], Unheard(j)'
          PROVE  j = i
      <3>1. j \in Nat /\ j + d \in DOMAIN heard[Main] /\ heard'[Main][j] = heard[Main][j + d]
        BY <2>4
      <3>2. Unheard(j + d)
        BY <2>4, <3>1 DEF Unheard
      <3>3. j + d = i + d
        BY <2>1, <2>2, <3>1, <3>2 DEF OneOut
      <3> QED BY <2>1, <3>1, <3>3
    <2> QED BY <2>3, <2>4
  <1>2. ASSUME NEW s \in saving'[Main]
        PROVE  /\ Committing' /\ s.id = run'.id /\ Answers' = {} /\ \A t \in saving'[Main] : t = s
               /\ cut'[Main] \subseteq s.refs \cap s.shown /\ (s.at = "rows" => CutIsSaved')
    BY <1>2 DEF OneOut
  <1>3. ASSUME NEW c \in Answers'
        PROVE  /\ Committing' /\ c.id = run'.id /\ \A e \in Answers' : e = c
               /\ c.value = TRUE => CutIsSaved'
    BY <1>3 DEF OneOut
  <1> QED BY <1>1, <1>2, <1>3 DEF OneOut

\* What the coordinator does, and in which stage: it tells the windows to save
\* once, and calls a quit off for a page that could not save.
LEMMA InTurn ==
    ASSUME TInv, Coordinates
    PROVE  \/ \E why \in {"empty", "timeout"}, agreed \in BOOLEAN : Leaves(why, agreed, heard)
           \/ /\ ~Committing
              /\ \/ Asks(run.id, heard) \/ Drops(heard) \/ ShowsDialog
                 \/ run # None /\ \E agreed \in BOOLEAN : Commits(run.id, Alive, heard, agreed)
           \/ Waits(heard) \/ Stays(heard)
           \/ \E c \in calls :
                 /\ c.kind = "ready" /\ calls' = calls \ {c}
                 /\ CallsOff(c.id) \/ (c.value = TRUE /\ Leaves("ready", exit.agreed, heard))
  <1>1. exit.agreed \in BOOLEAN /\ TRUE \in BOOLEAN /\ FALSE \in BOOLEAN
    BY RunFacts DEF TInv
  <1>2. CASE Prompt
    BY <1>1, <1>2, PromptOutcome DEF Committing, ShowsDialog
  <1>3. CASE TimesOut
    BY <1>1, <1>3, TimeOutcome DEF Committing
  <1>4. ASSUME NEW c \in calls, HandleCall(c), c.kind = "reply"
        PROVE  \/ \E agreed \in BOOLEAN : Leaves("empty", agreed, heard)
               \/ /\ ~Committing
                  /\ \/ Asks(run.id, heard)
                     \/ run # None /\ \E agreed \in BOOLEAN : Commits(run.id, Alive, heard, agreed)
               \/ Waits(heard) \/ Stays(heard)
    BY <1>1, <1>4, ReplyOutcome DEF Committing
  <1>5. ASSUME NEW c \in calls, HandleCall(c), c.kind = "decision"
        PROVE  \/ \E agreed \in BOOLEAN : Leaves("empty", agreed, heard)
               \/ /\ ~Committing
                  /\ \/ Drops(heard)
                     \/ run # None /\ \E agreed \in BOOLEAN : Commits(run.id, Alive, heard, agreed)
               \/ Stays(heard)
    BY <1>1, <1>5, DecisionOutcome DEF Committing
  <1>6. ASSUME NEW c \in calls, HandleCall(c), c.kind = "ready"
        PROVE  \/ Waits(heard) \/ Stays(heard)
               \/ /\ calls' = calls \ {c}
                  /\ CallsOff(c.id) \/ (c.value = TRUE /\ Leaves("ready", exit.agreed, heard))
    <2>1. calls' = calls \ {c}
      BY <1>6 DEF HandleCall
    <2> QED BY <1>6, <2>1, ReadyOutcome
  <1>7. \A c \in calls : c.kind \in {"reply", "decision", "ready"}
    BY RunFacts DEF TInv
  <1> QED BY <1>2, <1>3, <1>4, <1>5, <1>6, <1>7 DEF Coordinates

\* Of all windows only the first one has anything to say about its save.
LEMMA AnswersAreMain ==
    ASSUME TInv, PagesWrite, app = "running", Alone, NEW c \in calls, c.kind = "ready"
    PROVE  c \in Answers
  <1>1. c.from \in AppWindows
    BY RunFacts DEF TInv
  <1>2. ASSUME c.from # Main
        PROVE  FALSE
    <2>1. life[c.from] = "none" /\ PageOf(c.from)
      BY <1>1, <1>2 DEF Alone, PagesWrite
    <2> QED BY <2>1 DEF PageOf
  <1> QED BY <1>2 DEF Answers

\* An event is sent to the window: one that is no commit leaves its queue with
\* the commits it had.
LEMMA SentTo ==
    ASSUME TInv, NEW windows \in SUBSET AppWindows, NEW kind \in EventKind, NEW id \in QuitIds,
           heard' = Emitted(heard, windows, Event(kind, id))
    PROVE  \A i \in DOMAIN heard'[Main] :
             \/ i \in Nat /\ i \in DOMAIN heard[Main] /\ heard'[Main][i] = heard[Main][i]
             \/ /\ heard'[Main][i].kind = kind /\ heard'[Main][i].id = id
                /\ i \in Nat /\ i = Len(heard[Main]) + 1
  <1>1. heard[Main] \in Seq(Events) /\ Main \in AppWindows /\ heard \in [AppWindows -> Seq(Events)]
    BY QuitAssumption DEF TInv, QueuesOK
  <1>2. Event(kind, id) \in Events /\ Event(kind, id).id = id /\ Event(kind, id).kind = kind
    BY EventRecords
  <1> PICK e : e = Event(kind, id)
    OBVIOUS
  <1>3. e \in Events /\ e.id = id /\ e.kind = kind
    BY <1>2
  <1> PICK q : q = heard
    OBVIOUS
  <1>4. heard' = Emitted(q, windows, e) /\ q \in [AppWindows -> Seq(Events)]
    BY <1>1
  <1>5. heard'[Main] = IF Main \in windows \cap Listening THEN Append(q[Main], e) ELSE q[Main]
    <2>0. e \in Events /\ q \in [AppWindows -> Seq(Events)] /\ Main \in AppWindows
      BY <1>1, <1>3, <1>4
    <2>1. Emitted(q, windows, e)[Main] = IF Main \in windows \cap Listening THEN Append(q[Main], e) ELSE q[Main]
      BY <2>0 DEF Emitted
    <2> QED BY <1>4, <2>1
  <1>6. CASE heard'[Main] = heard[Main]
    BY <1>1, <1>6
  <1>7. CASE heard'[Main] = Append(heard[Main], e)
    BY <1>1, <1>3, <1>7
  <1> QED BY <1>5, <1>6, <1>7

\* The coordinator's steps keep that at most one thing is still to be done or
\* said for the quit, and that an answer tells of a save that is stored.
LEMMA OneOnCoordination ==
    ASSUME TInv, PagesWrite, app = "running", Alone, OneOut, Coordinates, app' = "running"
    PROVE  OneOut'
  <1>1. /\ UNCHANGED <<saving, cut, shot, marked>> /\ calls' \subseteq calls
    BY CoordinatesOutcome DEF Coordinates, Prompt, TimesOut, HandleCall, quitStore
  <1>2. saving'[Main] = saving[Main] /\ cut'[Main] = cut[Main] /\ Answers' \subseteq Answers
        /\ (CutIsSaved' <=> CutIsSaved)
    BY <1>1 DEF Answers, CutIsSaved
  <1>3. heard[Main] \in Seq(Events) /\ (run # None => run.id \in QuitIds) /\ Alive \in SUBSET AppWindows
    BY QuitAssumption, RunFacts DEF TInv, QueuesOK
  <1>4. CASE heard' = heard /\ (Committing => Committing' /\ run'.id = run.id)
    <2>1. \A i \in DOMAIN heard'[Main] : i \in Nat /\ i + 0 \in DOMAIN heard[Main]
                                         /\ heard'[Main][i] = heard[Main][i + 0]
      BY <1>3, <1>4
    <2> QED BY <1>2, <1>4, <2>1, StillOne
  <1>5. CASE ~Committing /\ ShowsDialog
    <2>1. PICK w \in AppWindows : heard' = Emitted(heard, {w}, Event("confirm", run.id)) /\ run # None
      BY <1>5 DEF ShowsDialog
    <2>2. "confirm" \in EventKind /\ {w} \in SUBSET AppWindows /\ run.id \in QuitIds
      BY <1>3, <2>1 DEF EventKind
    <2>3. \A i \in DOMAIN heard'[Main] : Unheard(i)' => i \in DOMAIN heard[Main] /\ Unheard(i)
      BY <2>1, <2>2, SentTo DEF Unheard
    <2>4. NoneOut'
      BY <1>2, <1>5, <2>3, OneOrNone DEF NoneOut
    <2> QED BY <2>4 DEF NoneOut, OneOut
  <1>6. ASSUME ~Committing, run # None, NEW agreed \in BOOLEAN, Commits(run.id, Alive, heard, agreed)
        PROVE  OneOut'
    <2>1. heard' = Emitted(heard, Alive, Event("commit", run.id)) /\ "commit" \in EventKind
      BY <1>6 DEF Commits, EventKind
    <2>2. NoneOut
      BY <1>6, OneOrNone
    <2>3. \A i \in DOMAIN heard'[Main] : Unheard(i)' =>
             heard'[Main][i].id = run.id /\ i = Len(heard[Main]) + 1
      <3>1. \A i \in DOMAIN heard'[Main] :
               \/ i \in DOMAIN heard[Main] /\ heard'[Main][i] = heard[Main][i]
               \/ heard'[Main][i].id = run.id /\ i = Len(heard[Main]) + 1
        BY <1>3, <1>6, <2>1, SentTo
      <3> QED BY <2>2, <3>1 DEF Unheard, NoneOut
    <2>4. Committing' /\ run'.id = run.id
      BY <1>6, QuitRunAssumption DEF Commits, Committing
    <2>5. saving'[Main] = {} /\ Answers' = {}
      BY <1>2, <2>2 DEF NoneOut
    <2> QED BY <2>3, <2>4, <2>5 DEF OneOut
  <1>7. ASSUME NEW c \in calls, c.kind = "ready", calls' = calls \ {c}, CallsOff(c.id)
        PROVE  OneOut'
    <2>1. c \in Answers /\ c.id \in QuitIds /\ "aborted" \in EventKind
      BY <1>7, AnswersAreMain, RunFacts DEF TInv, EventKind
    <2>2. Answers' = {} /\ saving'[Main] = {} /\ \A i \in DOMAIN heard[Main] : ~Unheard(i)
      BY <1>2, <1>7, <2>1 DEF OneOut, Answers
    <2>3. \A i \in DOMAIN heard'[Main] : Unheard(i)' => i \in DOMAIN heard[Main] /\ Unheard(i)
      BY <1>3, <1>7, <2>1, SentTo DEF CallsOff, Unheard
    <2>4. NoneOut'
      BY <2>2, <2>3 DEF NoneOut
    <2> QED BY <2>4 DEF NoneOut, OneOut
  <1>8. CASE Waits(heard)
    <2>1. heard' = heard /\ (Committing => Committing' /\ run'.id = run.id)
      BY <1>8, QuitRunAssumption DEF Waits, Committing
    <2> QED BY <1>4, <2>1
  <1>9. CASE Stays(heard)
    <2>1. heard' = heard /\ (Committing => Committing' /\ run'.id = run.id)
      BY <1>9 DEF Stays, Committing
    <2> QED BY <1>4, <2>1
  <1>10. CASE ~Committing /\ (Asks(run.id, heard) \/ Drops(heard))
    <2>1. heard' = heard
      BY <1>10 DEF Asks, Drops
    <2> QED BY <1>4, <1>10, <2>1
  <1>11. ASSUME NEW why, NEW agreed, Leaves(why, agreed, heard)
         PROVE  FALSE
    BY <1>11 DEF Leaves
  <1> QED BY <1>5, <1>6, <1>7, <1>8, <1>9, <1>10, <1>11, InTurn

\* What the only window does: a commit it hears becomes a save of everything
\* it cuts short, a save that is stored becomes an answer.
LEMMA OneOnHearing ==
    ASSUME TInv, PagesWrite, OneOut, NEW id \in QuitIds, Main \notin early',
           Poll(Main, id) \/ Confirm(Main, id) \/ Commit(Main, id) \/ Aborted(Main, id)
    PROVE  OneOut'
  <1>0. Main \in AppWindows /\ saving \in [AppWindows -> SUBSET Saves]
        /\ cut \in [AppWindows -> SUBSET Chats] /\ UNCHANGED <<run, shot, marked, busy, tabs, life>>
    BY QuitAssumption DEF TInv, QueuesOK, PagesWrite, Poll, Confirm, Commit, Aborted, quitCore, quitStore,
                          quitPages
  <1>1. PICK kind \in EventKind :
          /\ Hears(Main, Event(kind, id))
          /\ kind = "commit" => Commit(Main, id)
          /\ kind # "commit" => Poll(Main, id) \/ Confirm(Main, id) \/ Aborted(Main, id)
    BY DEF Poll, Confirm, Commit, Aborted, EventKind
  <1>2. /\ heard[Main] \in Seq(Events) /\ heard[Main] # <<>> /\ Head(heard[Main]) = Event(kind, id)
        /\ app = "running" /\ heard'[Main] = Tail(heard[Main])
    BY <1>0, <1>1, HearsStep
  <1>3. /\ \A i \in DOMAIN heard'[Main] : i \in Nat /\ i + 1 \in DOMAIN heard[Main]
                                          /\ heard'[Main][i] = heard[Main][i + 1]
        /\ 1 \in DOMAIN heard[Main] /\ heard[Main][1].kind = kind /\ heard[Main][1].id = id
    <2>1. heard'[Main] \in Seq(Events)
      BY <1>2
    <2>2. \A i \in DOMAIN heard'[Main] : i \in Nat
      BY <2>1
    <2>3. \A i \in DOMAIN heard'[Main] : i + 1 \in DOMAIN heard[Main] /\ heard'[Main][i] = heard[Main][i + 1]
      BY <1>2, Left
    <2>4. 1 \in DOMAIN heard[Main] /\ heard[Main][1] = Event(kind, id)
      BY <1>2, Left
    <2> QED BY <2>2, <2>3, <2>4, EventRecords
  <1>4. CASE kind # "commit"
    <2>1. UNCHANGED <<saving, cut>> /\ \A c \in calls' : c \in calls \/ c.kind # "ready"
      BY <1>1, <1>4 DEF Poll, Confirm, Aborted, Call, quitCore, quitPast
    <2>2. Answers' \subseteq Answers
      BY <2>1 DEF Answers
    <2>3. CutIsSaved => CutIsSaved'
      BY <1>0, <2>1 DEF CutIsSaved
    <2>4. Committing => Committing' /\ run'.id = run.id
      BY <1>0 DEF Committing
    <2> QED BY <1>3, <2>1, <2>2, <2>3, <2>4, StillOne
  <1>5. CASE kind = "commit"
    <2>1. Unheard(1) /\ Commit(Main, id)
      BY <1>1, <1>3, <1>5 DEF Unheard
    <2>2. /\ Committing /\ id = run.id /\ saving[Main] = {} /\ Answers = {}
          /\ \A j \in DOMAIN heard[Main] : Unheard(j) => j = 1
      BY <1>3, <2>1 DEF OneOut
    <2>3. \A i \in DOMAIN heard'[Main] : ~Unheard(i)'
      <3>1. ASSUME NEW i \in DOMAIN heard'[Main], Unheard(i)'
            PROVE  FALSE
        <4>1. i \in Nat /\ i + 1 \in DOMAIN heard[Main] /\ Unheard(i + 1) /\ heard'[Main] \in Seq(Events)
          BY <1>2, <1>3, <3>1 DEF Unheard
        <4>2. i + 1 = 1 /\ i > 0
          BY <2>2, <3>1, <4>1
        <4> QED BY <4>1, <4>2
      <3> QED BY <3>1
    <2> PICK s : s = Save(id, "transcripts", busy[Main], tabs[Main])
      OBVIOUS
    <2>4. life[Main] = "open" /\ cut' = [cut EXCEPT ![Main] = busy[Main]] /\ calls' = calls
          /\ saving' = [saving EXCEPT ![Main] = @ \cup {s}]
      BY <2>1 DEF Commit, QuitRefs, quitCore
    <2>5. saving'[Main] = {s} /\ cut'[Main] = busy[Main] /\ Answers' = {}
      BY <1>0, <2>2, <2>4 DEF Answers
    <2>6. s.id = id /\ s.at = "transcripts" /\ s.refs = busy[Main] /\ s.shown = tabs[Main]
      BY DEF Save
    <2>7. busy[Main] \subseteq tabs[Main]
      BY <1>0 DEF TInv, PagesOK
    <2>8. Committing' /\ run'.id = id
      BY <1>0, <2>2 DEF Committing
    <2> QED BY <2>3, <2>5, <2>6, <2>7, <2>8 DEF OneOut
  <1> QED BY <1>4, <1>5

LEMMA OneOnPage ==
    ASSUME TInv, Recalled, PagesWrite, OneOut, PageAction(Main), Alone', Main \notin early',
           ~\E id \in QuitIds : Confirm(Main, id) \/ Commit(Main, id) \/ Aborted(Main, id)
    PROVE  OneOut'
  <1>0. /\ Main \in AppWindows /\ UNCHANGED run /\ app = "running" /\ RecalledAt(Main) /\ PageOf(Main)
        /\ saving \in [AppWindows -> SUBSET Saves] /\ heard[Main] \in Seq(Events)
        /\ cut \in [AppWindows -> SUBSET Chats] /\ (Committing' <=> Committing)
    BY QuitAssumption, PageActionIsQuiet DEF TInv, QueuesOK, PagesWrite, Recalled, Committing
  <1>1. ASSUME heard' = heard, saving'[Main] = saving[Main], Answers' \subseteq Answers,
               cut'[Main] \subseteq cut[Main], CutIsSaved => CutIsSaved'
        PROVE  OneOut'
    <2>1. \A i \in DOMAIN heard'[Main] : i \in Nat /\ i + 0 \in DOMAIN heard[Main]
                                         /\ heard'[Main][i] = heard[Main][i + 0]
      BY <1>0, <1>1
    <2> QED BY <1>0, <1>1, <2>1, StillOne
  <1>2. CASE OpenWindow(Main) \/ Loaded(Main)
    <2>1. UNCHANGED <<heard, saving, calls, cut, shot, marked>>
      BY <1>2 DEF OpenWindow, Loaded, quitPart, quitCore, quitStore, quitPast
    <2> QED BY <1>1, <2>1 DEF Answers, CutIsSaved
  <1>3. CASE SyncSnapshot(Main)
    <2>1. UNCHANGED <<heard, saving, calls, cut, marked>> /\ shot' = tabs[Main]
      BY <1>3 DEF SyncSnapshot, quitPart, quitCore, quitPast
    <2>2. cut[Main] \subseteq tabs[Main]
      BY <1>0 DEF PageOf, TInv, PagesOK
    <2> QED BY <1>1, <2>1, <2>2 DEF Answers, CutIsSaved
  <1>4. CASE Decide(Main)
    <2>1. UNCHANGED <<heard, saving, cut, shot, marked>> /\ \A c \in calls' : c \in calls \/ c.kind # "ready"
      BY <1>4 DEF Decide, Call, quitStore, quitPast
    <2> QED BY <1>1, <2>1 DEF Answers, CutIsSaved
  \* A chat that is cut short runs, so none that begins is among them.
  <1>5. ASSUME NEW c \in Chats, Begin(Main, c)
        PROVE  OneOut'
    <2>1. UNCHANGED <<heard, saving, calls, cut, shot>> /\ c \notin busy[Main] /\ marked' = marked \ {c}
      BY <1>5 DEF Begin, quitPart, quitCore
    <2>2. c \notin cut[Main]
      BY <1>0, <2>1 DEF PageOf
    <2> QED BY <1>1, <2>1, <2>2 DEF Answers, CutIsSaved
  <1>6. ASSUME NEW c \in Chats, End(Main, c)
        PROVE  OneOut'
    <2>1. UNCHANGED <<heard, saving, calls, shot>> /\ cut'[Main] = cut[Main] \ {c} /\ marked' = marked \ {c}
      BY <1>0, <1>6 DEF End, quitPart, quitCore
    <2> QED BY <1>1, <2>1 DEF Answers, CutIsSaved
  \* A window that boots was told to save early, or not at all.
  <1>7. CASE Boots(Main)
    <2>1. /\ UNCHANGED <<heard, cut, shot>> /\ early' = early /\ life[Main] = "booting"
          /\ marked' = marked \cup rows
      BY <1>7 DEF Boots
    <2>2. saving[Main] = {}
      BY <1>0, <2>1 DEF RecalledAt
    <2>3. saving'[Main] = {} /\ calls' = calls
      <3>1. CASE Resumed = {}
        BY <1>0, <1>7, <2>2, <3>1 DEF Boots
      <3>2. CASE Resumed # {}
        <4>1. saving'[Main] = {Save(s.id, "transcripts", Resumed \cap (rows \cup marked), Resumed) : s \in saving[Main]}
          BY <1>0, <1>7, <3>2 DEF Boots
        <4> QED BY <1>7, <2>2, <3>2, <4>1 DEF Boots
      <3> QED BY <3>1, <3>2
    <2> QED BY <1>1, <2>1, <2>2, <2>3 DEF Answers, CutIsSaved
  \* A save has no other one, no commit and no answer beside it.
  <1>8. ASSUME NEW s \in saving[Main]
        PROVE  /\ Committing /\ s.id = run.id /\ Answers = {} /\ saving[Main] = {s} /\ s \in Saves
               /\ cut[Main] \subseteq s.refs \cap s.shown /\ (s.at = "rows" => CutIsSaved)
               /\ \A i \in DOMAIN heard[Main] : ~Unheard(i)
    BY <1>0 DEF OneOut
  <1>9. ASSUME NEW s \in saving[Main], SaveWorkspace(Main, s)
        PROVE  OneOut'
    <2> PICK r : r = [s EXCEPT !.at = "rows"]
      OBVIOUS
    <2>1. /\ UNCHANGED <<heard, calls, cut>> /\ shot' = s.shown /\ marked' = marked \cup s.refs
          /\ saving' = [saving EXCEPT ![Main] = (@ \ {s}) \cup {r}]
      BY <1>9 DEF SaveWorkspace, quitCore, quitPast
    <2>2. saving'[Main] = {r} /\ Answers' = {}
      BY <1>0, <1>8, <2>1 DEF Answers
    <2>3. r.id = s.id /\ r.refs = s.refs /\ r.shown = s.shown
      BY <1>8 DEF Saves
    <2>4. CutIsSaved' /\ cut' = cut /\ \A i \in DOMAIN heard'[Main] : ~Unheard(i)'
      BY <1>8, <2>1 DEF CutIsSaved, Unheard
    <2> QED BY <1>0, <1>8, <2>2, <2>3, <2>4 DEF OneOut
  <1>10. ASSUME NEW s \in saving[Main], SaveFails(Main, s)
         PROVE  OneOut'
    <2> PICK c : c = Call(Main, "ready", s.id, FALSE)
      OBVIOUS
    <2>1. /\ UNCHANGED <<heard, cut>> /\ calls' = calls \cup {c}
          /\ saving' = [saving EXCEPT ![Main] = @ \ {s}]
      BY <1>10 DEF SaveFails, quitPast
    <2>2. saving'[Main] = {}
      BY <1>0, <1>8, <2>1
    <2>3. c.id = s.id /\ c.value = FALSE
      BY DEF Call
    <2>4. Answers' \subseteq {c}
      BY <1>8, <2>1 DEF Answers
    <2>5. \A i \in DOMAIN heard'[Main] : ~Unheard(i)'
      BY <1>8, <2>1 DEF Unheard
    <2> QED BY <1>0, <1>8, <2>2, <2>3, <2>4, <2>5 DEF OneOut
  <1>11. ASSUME NEW i \in DOMAIN rowWrites[Main], WriteRows(Main, i)
         PROVE  OneOut'
    <2> PICK done : done = {s \in saving[Main] : s.at = "rows" /\ s.id = rowWrites[Main][i].id}
      OBVIOUS
    <2>1. /\ UNCHANGED <<heard, cut, shot, marked>> /\ saving' = [saving EXCEPT ![Main] = @ \ done]
          /\ calls' = calls \cup {Call(Main, "ready", s.id, TRUE) : s \in done}
      BY <1>11 DEF WriteRows
    <2>2. CASE done = {}
      <3>1. saving'[Main] = saving[Main] /\ calls' = calls
        BY <1>0, <2>1, <2>2
      <3> QED BY <1>1, <2>1, <3>1 DEF Answers, CutIsSaved
    <2>3. ASSUME NEW s \in done
          PROVE  OneOut'
      <3>1. s \in saving[Main] /\ s.at = "rows"
        BY <2>3
      <3>2. done = {s} /\ saving'[Main] = {}
        BY <1>0, <1>8, <2>1, <2>3, <3>1
      <3> PICK c : c = Call(Main, "ready", s.id, TRUE)
        OBVIOUS
      <3>3. calls' = calls \cup {c} /\ c.id = s.id
        BY <2>1, <3>2 DEF Call
      <3>4. Answers' \subseteq {c}
        BY <1>8, <3>1, <3>3 DEF Answers
      <3>5. CutIsSaved' /\ \A j \in DOMAIN heard'[Main] : ~Unheard(j)'
        BY <1>8, <2>1, <3>1 DEF CutIsSaved, Unheard
      <3>6. Committing' /\ c.id = run'.id
        BY <1>0, <1>8, <3>1, <3>3
      <3> QED BY <3>2, <3>4, <3>5, <3>6 DEF OneOut
    <2> QED BY <2>2, <2>3
  <1> QED BY <1>2, <1>3, <1>4, <1>5, <1>6, <1>7, <1>9, <1>10, <1>11 DEF PageAction

\* Every step keeps that what a save cuts short is stored when it answers.
LEMMA CutKeptStep ==
    ASSUME TInv, Recalled, PagesWrite, CutKept, [QuitNext]_quitVars
    PROVE  CutKept'
  <1> SUFFICES ASSUME app' = "running", Alone', Main \notin early'
               PROVE  OneOut'
    BY DEF CutKept
  <1>0. /\ Main \in AppWindows /\ saving \in [AppWindows -> SUBSET Saves] /\ heard[Main] \in Seq(Events)
        /\ life \in [AppWindows -> Lives]
    BY QuitAssumption DEF TInv, QueuesOK, PagesOK
  <1>1. CASE Start
    <2>1. heard'[Main] = <<>> /\ saving'[Main] = {} /\ calls' = {}
      BY <1>0, <1>1 DEF Start, Fresh
    <2> QED BY <2>1 DEF OneOut, Answers
  <1>2. ASSUME ~Start
        PROVE  Alone
    BY <1>2, StillAlone
  <1>3. ASSUME ~Start, app = "running", Main \notin early
        PROVE  OneOut
    BY <1>2, <1>3 DEF CutKept
  <1>4. CASE Coordinates /\ ~Start
    <2>1. app = "running" /\ early' = early
      BY <1>4, CoordinatesOutcome DEF Coordinates, Prompt, TimesOut, HandleCall
    <2> QED BY <1>2, <1>3, <1>4, <2>1, OneOnCoordination
  <1>5. CASE RequestQuit /\ ~Start
    <2>1. app = "running" /\ run = None /\ UNCHANGED <<early, saving, calls>>
      BY <1>5 DEF RequestQuit
    <2>2. NoneOut
      BY <1>3, <1>5, <2>1, OneOrNone DEF Committing
    <2> PICK n : n = quits'
      OBVIOUS
    <2>3. heard' = Emitted(heard, Alive, Event("poll", n)) /\ n \in QuitIds
      BY <1>5, RequestOutcome DEF Leaves
    <2>4. "poll" \in EventKind /\ Alive \in SUBSET AppWindows
      BY DEF EventKind, Alive
    <2>5. \A i \in DOMAIN heard'[Main] :
             (i \in DOMAIN heard[Main] /\ heard'[Main][i] = heard[Main][i]) \/ heard'[Main][i].kind = "poll"
      BY <2>3, <2>4, SentTo
    <2>6. NoneOut'
      BY <2>1, <2>2, <2>5 DEF NoneOut, Unheard, Answers
    <2> QED BY <2>6 DEF NoneOut, OneOut
  <1>6. ASSUME NEW v \in AppWindows, Close(v), ~Start
        PROVE  OneOut'
    <2>1. /\ v \in Alive /\ life' = [life EXCEPT ![v] = "closed"] /\ saving' = [saving EXCEPT ![v] = {}]
          /\ calls' = {c \in calls : c.from # v}
      BY <1>6 DEF Close
    <2>2. v = Main
      BY <1>2, <1>6, <2>1 DEF Alone, Alive
    <2>3. RecalledAt(Main)' /\ Main \notin Listening'
      BY <1>0, <2>1, <2>2, RecalledStep DEF Recalled, Listening
    <2>4. heard'[Main] = <<>> /\ saving'[Main] = {} /\ Answers' = {}
      BY <1>0, <2>1, <2>2, <2>3 DEF RecalledAt, Answers
    <2> QED BY <2>4 DEF OneOut
  <1>7. ASSUME NEW v \in AppWindows, NEW id \in QuitIds, Poll(v, id), ~Start
        PROVE  OneOut'
    <2>1. app = "running" /\ v \in Listening /\ early' = early
      BY <1>7 DEF Poll, Hears
    <2>2. v = Main
      BY <1>2, <1>7, <2>1 DEF Alone, Listening
    <2> QED BY <1>3, <1>7, <2>1, <2>2, OneOnHearing
  <1>8. ASSUME NEW v \in AppWindows, PageAction(v), ~Start
        PROVE  OneOut'
    <2>1. app = "running"
      BY <1>8, PageActionIsQuiet
    <2>2. early \subseteq early'
      <3>1. CASE \E id \in QuitIds : Commit(v, id)
        BY <3>1 DEF Commit
      <3> QED BY <1>8, <3>1 DEF PageAction, OpenWindow, Loaded, Boots, SyncSnapshot, Decide, Begin, End, Confirm,
                               Aborted, SaveWorkspace, SaveFails, WriteRows, quitPast
    <2>3. OneOut
      BY <1>3, <1>8, <2>1, <2>2
    <2>4. CASE v = Main
      BY <1>8, <2>3, <2>4, OneOnPage, OneOnHearing
    <2>5. CASE v # Main /\ Decide(v)
      <3>1. UNCHANGED <<heard, saving, cut, shot, marked, run>> /\ \A c \in calls' : c \in calls \/ c.kind # "ready"
        BY <2>5 DEF Decide, Call, quitStore, quitPast
      <3>2. Answers' \subseteq Answers /\ (CutIsSaved => CutIsSaved') /\ (Committing => Committing')
        BY <3>1 DEF Answers, CutIsSaved, Committing
      <3>3. \A i \in DOMAIN heard'[Main] : i \in Nat /\ i + 0 \in DOMAIN heard[Main]
                                           /\ heard'[Main][i] = heard[Main][i + 0]
        BY <1>0, <3>1
      <3> QED BY <2>3, <3>1, <3>2, <3>3, StillOne
    <2>6. CASE v # Main /\ OpenWindow(v)
      <3>1. life'[v] = "loading"
        BY <1>0, <2>6 DEF OpenWindow
      <3> QED BY <1>8, <2>6, <3>1 DEF Alone
    <2> QED BY <1>2, <1>8, <2>1, <2>4, <2>5, <2>6, OnlyMain
  <1>9. CASE UNCHANGED quitVars /\ ~Start
    <2>1. UNCHANGED <<app, early, heard, saving, calls, run, cut, shot, marked>>
      BY <1>9 DEF quitVars, quitPart, quitCore, quitStore, quitPast
    <2>2. OneOut
      BY <1>3, <1>9, <2>1
    <2> QED BY <2>1, <2>2 DEF OneOut, Answers, CutIsSaved, Unheard, Committing
  <1> QED BY <1>1, <1>4, <1>5, <1>6, <1>7, <1>8, <1>9, AllSteps

\* An exit that waited for the saves leaves what the save of the only window
\* cut short to be continued.
LEMMA ReopeningStep ==
    ASSUME TInv, PagesWrite, CutKept, KeptForReopening, [QuitNext]_quitVars
    PROVE  KeptForReopening'
  <1> SUFFICES ASSUME app' = "exited", exit'.why = "ready", Alone', NEW w \in Alive' \ early'
               PROVE  busy'[w] \cap cut'[w] \subseteq rows' \cup (shot' \cap marked')
    BY DEF KeptForReopening
  <1>0. ~Start /\ Main \in AppWindows /\ life \in [AppWindows -> Lives]
    BY QuitAssumption DEF Start, TInv, PagesOK
  <1>1. Alone
    BY <1>0, StillAlone
  <1>2. w = Main
    BY DEF Alone, Alive
  <1>3. CASE UNCHANGED quitVars
    BY <1>3 DEF quitVars, quitPages, quitCore, quitStore, quitPast, KeptForReopening, Alive, Alone
  <1>4. CASE RequestQuit
    BY <1>4, RequestOutcome DEF Leaves
  <1>5. ASSUME NEW v \in AppWindows, Close(v)
        PROVE  FALSE
    <2>1. v \in Alive /\ life' = [life EXCEPT ![v] = "closed"]
      BY <1>5 DEF Close
    <2>2. v = Main
      BY <1>1, <1>5, <2>1 DEF Alone, Alive
    <2> QED BY <1>0, <1>2, <2>1, <2>2 DEF Alive
  <1>6. ASSUME NEW v \in AppWindows, PageAction(v) \/ \E id \in QuitIds : Poll(v, id)
        PROVE  FALSE
    <2>1. UNCHANGED app /\ app = "running"
      BY <1>6, PageActionIsQuiet DEF Poll, Hears
    <2> QED BY <2>1
  <1>7. CASE Coordinates
    <2>1. app = "running" /\ UNCHANGED <<life, early, cut, shot, marked>>
      BY <1>7, CoordinatesOutcome DEF Coordinates, Prompt, TimesOut, HandleCall, quitPages, quitStore
    <2>2. PICK c \in calls : c.kind = "ready" /\ c.value = TRUE
      <3>1. app' # app /\ exit'.why = "ready"
        BY <2>1
      <3>2. ~Asks(run.id, heard) /\ ~Drops(heard) /\ ~ShowsDialog /\ ~Waits(heard) /\ ~Stays(heard)
        BY <3>1 DEF Asks, Drops, ShowsDialog, Waits, Stays
      <3>3. /\ \A agreed : ~Commits(run.id, Alive, heard, agreed)
            /\ \A id : ~CallsOff(id)
            /\ \A why \in {"empty", "timeout"}, agreed \in BOOLEAN : ~Leaves(why, agreed, heard)
        BY <3>1 DEF Commits, CallsOff, Leaves
      <3> QED BY <1>7, <3>2, <3>3, InTurn
    <2>3. c \in Answers
      BY <1>1, <2>1, <2>2, AnswersAreMain
    <2>4. OneOut
      BY <1>1, <1>2, <2>1 DEF CutKept
    <2>5. CutIsSaved
      BY <2>2, <2>3, <2>4 DEF OneOut
    <2> QED BY <1>2, <2>1, <2>5 DEF CutIsSaved
  <1> QED BY <1>0, <1>3, <1>4, <1>5, <1>6, <1>7, AllSteps

\* What the app leaves behind, at the start and after every step.
LEMMA LeavesBegins == QuitInit => LeavesBehind
  <1> SUFFICES ASSUME QuitInit PROVE LeavesBehind
    OBVIOUS
  <1>0. Main \in AppWindows
    BY QuitAssumption
  <1>1. PagesWrite
    BY DEF QuitInit, PagesWrite, PageOf
  <1>2. TableKept
    BY <1>0 DEF QuitInit, TableKept
  <1>3. CutKept
    BY <1>0 DEF QuitInit, CutKept, OneOut, Answers
  <1>4. KeptForReopening
    BY DEF QuitInit, KeptForReopening
  <1> QED BY <1>1, <1>2, <1>3, <1>4 DEF LeavesBehind

LEMMA LeavesStep ==
    ASSUME TInv, Recalled, LeavesBehind, [QuitNext]_quitVars
    PROVE  LeavesBehind'
  BY PagesWriteStep, TableKeptStep, CutKeptStep, ReopeningStep DEF LeavesBehind

LEMMA TableSuffices ==
    ASSUME TInv, LeavesBehind
    PROVE  TableFollows
  <1> SUFFICES ASSUME NEW w \in AppWindows, app = "running", Alone, w \notin torn, rowWrites[w] = <<>>,
                      rowKey[w] # None
               PROVE  rows = busy[w]
    BY DEF TableFollows
  <1>1. w = Main
    <2>1. life[w] = "open"
      BY DEF LeavesBehind, PagesWrite, PageOf
    <2> QED BY <2>1 DEF Alone
  <1>2. PICK k \in 0..Len(rowWrites[Main]) : Since(k)
    BY <1>1 DEF LeavesBehind, TableKept
  <1>3. k = 0
    BY <1>1, <1>2
  <1> QED BY <1>1, <1>2, <1>3 DEF Since

-----------------------------------------------------------------------------
(* The theorems *)

IInv == TInv /\ Agreed /\ Kept /\ Recalled /\ LeavesBehind

\* What is stated of the pages, their queues and the coordinator is what the
\* module calls its types.
LEMMA TypesSuffice == TInv => AppTypeOK
  <1> SUFFICES ASSUME TInv PROVE AppTypeOK
    OBVIOUS
  <1>1. PagesOK /\ QueuesOK /\ CoreOK
    BY DEF TInv
  <1>2. ASSUME NEW w \in AppWindows
        PROVE  /\ rowKey[w] = None \/ rowKey[w] \subseteq Chats
               /\ \A i \in DOMAIN rowWrites[w] : rowWrites[w][i].refs \subseteq Chats
               /\ \A i \in DOMAIN heard[w] : heard[w][i].kind \in {"poll", "confirm", "commit", "aborted"}
               /\ \A s \in saving[w] : s.at \in {"boot", "transcripts", "rows"}
               /\ dialog[w] = None \/ dialog[w] \in QuitIds
    <2>1. rowKey[w] \in (SUBSET Chats) \cup {None} /\ dialog[w] \in QuitIds \cup {None}
      BY <1>1 DEF PagesOK, QueuesOK
    <2>2. rowWrites[w] \in Seq(Writes) /\ heard[w] \in Seq(Events) /\ saving[w] \subseteq Saves
      BY <1>1 DEF QueuesOK
    <2>3. \A i \in DOMAIN rowWrites[w] : rowWrites[w][i] \in Writes
      BY <2>2
    <2>4. \A i \in DOMAIN heard[w] : heard[w][i] \in Events
      BY <2>2
    <2> QED BY <2>1, <2>2, <2>3, <2>4 DEF Writes, Events, EventKind, Saves
  <1>3. /\ app \in {"running", "exited"} /\ run \in QuitRuns \cup {None}
        /\ run # None => StageOK(run)
    BY <1>1 DEF CoreOK
  <1>4. run # None =>
          /\ run.stage \in {"polling", "committing"} <=> run.pending # {}
          /\ run.stage = "polling" => run.pending \cap run.replied = {}
    BY <1>3 DEF StageOK
  <1>5. \A w \in AppWindows : busy[w] \cup owing[w] \subseteq tabs[w] /\ busy[w] \cap owing[w] = {}
    BY <1>1 DEF PagesOK
  <1> QED BY <1>1, <1>2, <1>3, <1>4, <1>5 DEF AppTypeOK, PagesOK, QueuesOK, Lives

\* The inductive invariant holds at the start, and every step keeps it.
LEMMA InvariantBegins == QuitInit => IInv
  <1> SUFFICES ASSUME QuitInit PROVE IInv
    OBVIOUS
  <1>1. TInv
    BY TypesBegin
  <1>2. Agreed
    BY DEF QuitInit, Agreed, ExitIsAgreed
  <1>3. Kept
    BY DEF QuitInit, Kept, ExitIsSaved
  <1>4. Recalled
    BY PromiseNone DEF QuitInit, Recalled, RecalledAt
  <1> QED BY <1>1, <1>2, <1>3, <1>4, LeavesBegins DEF IInv

\* Every step keeps the invariant.
LEMMA InvariantStays == IInv /\ [QuitNext]_quitVars => IInv'
  BY TypesStay, AgreedStep, KeptStep, RecalledStep, LeavesStep DEF IInv

\* The invariant holds in every behaviour.
LEMMA QuitInvariant == QuitSpec => []IInv
  BY InvariantBegins, InvariantStays, PTL DEF QuitSpec

\* The app exits with the user's consent and with everybody's work saved: a
\* turn still running at an exit without a yes began after its window had
\* answered the poll, and an exit that waited for the saves waited for those
\* of every window still there (window.rs, start_confirm and quit_ready).
THEOREM ExitsSafely == QuitSpec => []ExitIsSafe
  <1>1. IInv => ExitIsSafe
    BY DEF IInv, Agreed, Kept, ExitIsSafe
  <1> QED BY <1>1, QuitInvariant, PTL

\* The coordinator and the pages agree about the quit under way, and a page
\* that is still there when no quit is goes back to saving on unload, or is
\* still to hear that the quit was called off (appLifecycle.ts, abortQuit).
THEOREM StayingPagesPersist == QuitSpec => []QuitConsistent
  <1>1. ASSUME IInv PROVE QuitConsistent
    <2>1. AppTypeOK
      BY <1>1, TypesSuffice DEF IInv
    <2>2. ASSUME NEW w \in AppWindows, app = "running", run = None, quitting[w], w \notin early
          PROVE  \E i \in DOMAIN heard[w] : heard[w][i].kind = "aborted"
      <3>1. RecalledAt(w) /\ ~Committing
        BY <1>1, <2>2 DEF IInv, Recalled, Committing
      <3> QED BY <2>2, <3>1 DEF RecalledAt, ToldBack
    <2> QED BY <2>1, <2>2 DEF QuitConsistent, StaysMeansPersisting
  <1> QED BY <1>1, QuitInvariant, PTL

\* What the app leaves behind names the chats the next start must continue: with
\* one window, an exit that waited for its save left what that save cut short
\* in the snapshot with the interruption note, and whenever the writes of the
\* table have landed the table lists exactly the chats in flight, so that a
\* crash loses none (inFlight.ts, inFlightRefs and markTurnInterrupted).
THEOREM WhatWasCutReopens == QuitSpec => []ReopensWhatWasCut
  <1>1. ASSUME IInv PROVE ReopensWhatWasCut
    BY <1>1, TableSuffices DEF IInv, LeavesBehind, ReopensWhatWasCut
  <1> QED BY <1>1, QuitInvariant, PTL

=============================================================================

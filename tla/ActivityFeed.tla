----------------------------- MODULE ActivityFeed -----------------------------
(***************************************************************************)
(* The activity log and what is told from it: the lines a run writes when  *)
(* it starts and closes (startRun and the closes of server/index.js), the  *)
(* reconcile, at boot and by hand, of runs that a dead server left open    *)
(* (ops/reconcile-core.mjs), and the notifications, which are folded from  *)
(* the log and from what changed on the boards since the bell was opened.  *)
(*                                                                         *)
(* Abstractions.  A launch that fails is a run that fails in its next      *)
(* step.  The clock need not move between two steps.  The log is shorter   *)
(* than the tail the feed reads.  Failed sign-ins are in AuthFailures, and *)
(* when the bell fetches the feed in LiveView: the feed is its contents.   *)
(***************************************************************************)
EXTENDS Integers, Sequences, FiniteSets

CONSTANTS
  Runs, BatchRuns,  \* runs, and among them the members of a batch
  Tickets,          \* ids of tickets and of projects, which are never done
  HasLogFile,       \* FileStore: PgStore has no activityFile to reconcile
  MaxRunning,       \* slots
  Tolerance,        \* INFLIGHT_TOLERANCE_MS
  MaxTicks, MaxBoots, MaxLost, MaxChanges, MaxReconciles, MaxReads   \* bounds

VARIABLES
  memory,   \* the runs Map and the batch queue of the server, if it is up
  log,      \* activity-log.jsonl, its lines of runs
  now,      \* the clock
  board,    \* tasks.yaml and portfolio.yaml: the status per id
  notify,   \* notify-state.json
  cli,      \* the reconcile by hand: the orphans it found
  read,     \* history: when the bell was last read, and the boards then
  count     \* bounds

feedVars == <<memory, log, now, board, notify, cli, read, count>>

Terminal == {"done", "failed", "stopped"}
Missing == "missing"
Singles == Runs \ BatchRuns
Line(r, status) == [run |-> r, status |-> status, at |-> now]
Spend(counter, most) == count[counter] < most /\ count' = [count EXCEPT ![counter] = @ + 1]

-----------------------------------------------------------------------------
(***************************************************************************)
(* What the log says.                                                      *)
(***************************************************************************)
Logged(l) == {l[i].run : i \in DOMAIN l}

\* The last line of a run that has one.
NewestOf(l, r) == CHOOSE i \in DOMAIN l : l[i].run = r /\ \A j \in DOMAIN l : l[j].run = r => j <= i

\* Mutant: an event is dated by its first line.
TellFromStart(l, r) ==
  [status |-> l[NewestOf(l, r)].status,
   at |-> l[CHOOSE i \in DOMAIN l : l[i].run = r /\ \A j \in DOMAIN l : l[j].run = r => i <= j].at]

\* byRun of deriveActivityEvents: the last status, and the latest time.
Tell(l, r) == [status |-> l[NewestOf(l, r)].status, at |-> l[NewestOf(l, r)].at]

Told(l, r) == IF r \in Logged(l) THEN Tell(l, r).status ELSE Missing

\* A reconciled run is found by its start line and the lack of a terminal one.
StartedBefore(l, age) ==
  {r \in Runs : \E i \in DOMAIN l : l[i].run = r /\ l[i].status = "running" /\ now - l[i].at >= age}

Unended(l) == {r \in Runs : \A i \in DOMAIN l : l[i].run = r => l[i].status = "running"}

\* Mutant: the boot spares young runs too, like the reconcile by hand.
FindOldOrphans(l, age) == StartedBefore(l, Tolerance) \cap Unended(l)

FindOrphanedRuns(l, age) == StartedBefore(l, age) \cap Unended(l)

\* reconcileOrphanedRuns appends a line per orphan, in some order; an append
\* that throws ends it.
Closes(orphans) ==
  UNION {{[i \in 1..n |-> Line(order[i], "stopped")] :
            order \in {o \in [1..n -> orphans] : \A i, j \in 1..n : o[i] = o[j] => i = j}} :
         n \in 0..Cardinality(orphans)}

-----------------------------------------------------------------------------
(***************************************************************************)
(* Runs.                                                                   *)
(***************************************************************************)
RunningCount(m) == Cardinality({r \in Runs : m.status[r] = "running"})

\* processQueue: the items that get a slot.
Launched(m) ==
  LET free == MaxRunning - RunningCount(m)
  IN  SubSeq(m.queue, 1, IF free < Len(m.queue) THEN free ELSE Len(m.queue))

\* appendActivity swallows an error: the lines of a step may be lost.
Logs(lines) ==
  \/ log' = log \o lines /\ UNCHANGED count
  \/ lines # <<>> /\ Spend("lost", MaxLost) /\ UNCHANGED log

\* The step of a handler that leaves m and wrote lines, and then drains the queue:
\* each item launched writes its start line.
Drained(m, lines) ==
  LET gone == Launched(m)
      starts == [i \in DOMAIN gone |-> Line(gone[i], "running")]
      running == {gone[i] : i \in DOMAIN gone}
  IN  /\ memory' = [m EXCEPT !.queue = SubSeq(@, Len(gone) + 1, Len(@)),
                             !.status = [r \in Runs |-> IF r \in running THEN "running" ELSE @[r]]]
      /\ Logs(lines \o starts)
  /\ UNCHANGED <<now, board, notify, cli, read>>

StartRun(r) ==
  /\ memory.up /\ r \in Singles /\ memory.status[r] = "none"
  /\ memory' = [memory EXCEPT !.status[r] = "running"]
  /\ Logs(<<Line(r, "running")>>)
  /\ UNCHANGED <<now, board, notify, cli, read>>

StartBatch ==
  /\ memory.up /\ BatchRuns # {} /\ \A r \in BatchRuns : memory.status[r] = "none"
  /\ \E order \in [1..Cardinality(BatchRuns) -> BatchRuns] :
       /\ {order[i] : i \in DOMAIN order} = BatchRuns
       /\ Drained([memory EXCEPT !.queue = order,
                     !.status = [r \in Runs |-> IF r \in BatchRuns THEN "queued" ELSE @[r]]], <<>>)

\* A run closes, by itself or stopped.
CloseRun(r) ==
  /\ memory.up /\ memory.status[r] = "running"
  /\ \E status \in Terminal :
       Drained([memory EXCEPT !.status[r] = status], <<Line(r, status)>>)

-----------------------------------------------------------------------------
(***************************************************************************)
(* Restarts and the reconcile.                                             *)
(***************************************************************************)
\* The process ends: its runs are known to nobody.
ServerStops ==
  /\ memory.up /\ Spend("boots", MaxBoots)
  /\ memory' = [memory EXCEPT !.up = FALSE, !.queue = <<>>,
                  !.status = [r \in Runs |-> IF @[r] = "none" THEN "none" ELSE "gone"]]
  /\ UNCHANGED <<log, now, board, notify, cli, read>>

\* Boot closes every run left open, whatever its age, before it accepts runs;
\* an error is logged and startup goes on.
Boot ==
  /\ ~memory.up
  /\ \E lines \in IF HasLogFile THEN Closes(FindOrphanedRuns(log, 0)) ELSE {<<>>} :
       LET whole == Len(lines) = Cardinality(FindOrphanedRuns(log, 0))
       IN  /\ log' = log \o lines
           /\ memory' = [memory EXCEPT !.up = TRUE, !.reconciled = whole]
           /\ IF whole \/ ~HasLogFile THEN UNCHANGED count ELSE Spend("lost", MaxLost)
  /\ UNCHANGED <<now, board, notify, cli, read>>

\* activity-log-reconcile --apply, beside a server that may be up: it reads,
\* and then appends.
CliReads ==
  /\ HasLogFile /\ cli = {} /\ FindOrphanedRuns(log, Tolerance) # {}
  /\ Spend("reconciles", MaxReconciles)
  /\ cli' = FindOrphanedRuns(log, Tolerance)
  /\ UNCHANGED <<memory, log, now, board, notify, read>>

CliCloses(r) ==
  /\ r \in cli
  /\ log' = Append(log, Line(r, "stopped")) /\ cli' = cli \ {r}
  /\ UNCHANGED <<memory, now, board, notify, read, count>>

-----------------------------------------------------------------------------
(***************************************************************************)
(* The boards and the notifications.                                       *)
(***************************************************************************)
\* A ticket or project appears, is done, is reopened or is taken out.
ChangeBoard(t, status) ==
  /\ board[t] # status /\ (board[t] = Missing => status = "open")
  /\ board' = [board EXCEPT ![t] = status] /\ Spend("changes", MaxChanges)
  /\ UNCHANGED <<memory, log, now, notify, cli, read>>

Seen == [at |-> now, board |-> board]

\* GET /api/notifications, the first time.
Seed ==
  /\ memory.up /\ notify.cursor < 0
  /\ notify' = [cursor |-> now, baseline |-> board] /\ read' = Seen
  /\ UNCHANGED <<memory, log, now, board, cli, count>>

\* Mutant: the baseline stays when the cursor moves.
ReadKeepingBaseline == [notify EXCEPT !.cursor = now]

\* POST /api/notifications/read with an empty body, as the bell sends it.
ReadState == [cursor |-> now, baseline |-> board]

Read ==
  /\ memory.up /\ Spend("reads", MaxReads)
  /\ notify' = ReadState /\ read' = Seen
  /\ UNCHANGED <<memory, log, now, board, cli>>

\* deriveActivityEvents: a single run that is over, and the batch once each of
\* its runs in the log is.
InBatch == BatchRuns \cap Logged(log)
WaveDone == InBatch # {} /\ \A r \in InBatch : Told(log, r) \in Terminal
Finished == {r \in Singles : Told(log, r) \in Terminal}

\* deriveDiffEvents.
Added == {t \in Tickets : notify.baseline[t] = Missing /\ board[t] # Missing}
DoneNow == {t \in Tickets : notify.baseline[t] \notin {Missing, "done"} /\ board[t] = "done"}

\* buildNotifications: the unread events.
UnreadRuns == {r \in Finished : Tell(log, r).at > notify.cursor}
UnreadWave == WaveDone /\ \E r \in InBatch : Tell(log, r).at > notify.cursor

Tick == now < MaxTicks /\ now' = now + 1
        /\ UNCHANGED <<memory, log, board, notify, cli, read, count>>

-----------------------------------------------------------------------------
FeedInit ==
  /\ memory = [up |-> TRUE, reconciled |-> TRUE, queue |-> <<>>, status |-> [r \in Runs |-> "none"]]
  /\ log = <<>> /\ now = 0 /\ board = [t \in Tickets |-> Missing] /\ cli = {}
  /\ notify = [cursor |-> -1, baseline |-> [t \in Tickets |-> Missing]]
  /\ read = [at |-> -1, board |-> [t \in Tickets |-> Missing]]
  /\ count = [lost |-> 0, boots |-> 0, changes |-> 0, reconciles |-> 0, reads |-> 0]

FeedNext ==
  \/ \E r \in Runs : StartRun(r) \/ CloseRun(r) \/ CliCloses(r)
  \/ StartBatch \/ ServerStops \/ Boot \/ CliReads
  \/ \E t \in Tickets, status \in {Missing, "open", "done"} : ChangeBoard(t, status)
  \/ Seed \/ Read \/ Tick

FeedSpec == FeedInit /\ [][FeedNext]_feedVars

-----------------------------------------------------------------------------
(***************************************************************************)
(* Properties.                                                             *)
(***************************************************************************)
\* Everything keeps its type, the slots hold, and the log is in order of time.
FeedTypeOK ==
  /\ memory.up \in BOOLEAN /\ memory.reconciled \in BOOLEAN
  /\ memory.status \in [Runs -> {"none", "queued", "running", "gone"} \cup Terminal]
  /\ RunningCount(memory) <= MaxRunning + Cardinality(Singles)
  /\ \A i, j \in DOMAIN log : i < j => log[i].at <= log[j].at
  /\ cli \subseteq Runs /\ board \in [Tickets -> {Missing, "open", "done"}]

\* No run is told to be running that no server knows of, once a boot has
\* reconciled: a dead process leaves nothing open.
NothingDangles ==
  HasLogFile /\ memory.up /\ memory.reconciled =>
    \A r \in Runs : Told(log, r) = "running" => memory.status[r] # "gone"

\* An outcome that was told stays, through restarts and reconciles; only a
\* reconcile by hand, over a run of this server, may cover one up.
OutcomeStands ==
  cli' # cli \/ \A r \in Runs : Told(log, r) \in {"done", "failed"} => Told(log', r) = Told(log, r)

\* The feed marks as unread what came to an end, appeared or was done after the
\* bell was last read, and nothing else.
BellTellsNews ==
  notify.cursor >= 0 =>
    /\ UnreadRuns = {r \in Singles : \E i \in DOMAIN log :
                       log[i].run = r /\ log[i].status \in Terminal /\ log[i].at > read.at}
    /\ UnreadWave => \E i \in DOMAIN log : log[i].run \in BatchRuns /\ log[i].status \in Terminal
                                           /\ log[i].at > read.at
    /\ Added = {t \in Tickets : read.board[t] = Missing /\ board[t] # Missing}
    /\ DoneNow = {t \in Tickets : read.board[t] = "open" /\ board[t] = "done"}

\* Why these hold: a run that was not launched has no line, one that runs has no outcome,
\* and after a line that ends a run there is none that starts it.
Memories == [up : BOOLEAN, reconciled : BOOLEAN, queue : Seq(Runs),
             status : [Runs -> {"none", "queued", "running", "gone"} \cup Terminal]]
LogLines == [run : Runs, status : {"running"} \cup Terminal, at : Nat]

LogInOrder ==
  /\ \A i \in DOMAIN log : log[i].at <= now
  /\ \A i, j \in DOMAIN log : i < j => log[i].at <= log[j].at
  /\ \A i, j \in DOMAIN log : i < j /\ log[i].run = log[j].run /\ log[j].status = "running" =>
                             log[i].status = "running"
QueueIsQueued(m) ==
  /\ \A i, j \in DOMAIN m.queue : m.queue[i] = m.queue[j] => i = j
  /\ \A i \in DOMAIN m.queue : m.status[m.queue[i]] = "queued"
HasOutcome(r) == \E i \in DOMAIN log : log[i].run = r /\ log[i].status \in {"done", "failed"}
LinesFitRuns ==
  \A r \in Runs : /\ memory.status[r] \in {"none", "queued"} => r \notin Logged(log)
                  /\ memory.status[r] = "running" => ~HasOutcome(r)
BellRemembers ==
  /\ notify.cursor \in Nat \cup {-1}
  /\ notify.baseline \in [Tickets -> {Missing, "open", "done"}]
  /\ notify.cursor \in Nat => read = [at |-> notify.cursor, board |-> notify.baseline]

FeedInv ==
  /\ memory \in Memories /\ log \in Seq(LogLines) /\ now \in Nat /\ cli \subseteq Logged(log)
  /\ board \in [Tickets -> {Missing, "open", "done"}]
  /\ LogInOrder /\ QueueIsQueued(memory) /\ LinesFitRuns /\ BellRemembers /\ NothingDangles

\* "wave_done - every run of a batch reached terminal" (server/index.js:2692).
WaveIsOver == WaveDone => \A r \in BatchRuns : memory.status[r] \in Terminal \cup {"gone"}

\* "a genuinely mid-flight run (a live process still owns it) is NEVER closed"
\* (ops/reconcile-core.mjs:12).
NeverClosedAlive ==
  \A r \in Runs : memory.up /\ memory.status[r] = "running" => Told(log, r) # "stopped"
=============================================================================

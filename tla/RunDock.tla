------------------------------- MODULE RunDock -------------------------------
(***************************************************************************)
(* What a tab shows of the runs it launched: the panels and chips of       *)
(* lib/runDock.ts and hooks/useRunDock.ts, the poll of each                *)
(* (hooks/useRunPolling.ts), BatchPanel.tsx, and behind them GET, stop and *)
(* requeue of /api/routines/run/:runId and GET /api/routines/batch of      *)
(* server/index.js with their view of the laptop.                          *)
(*                                                                         *)
(* A run is a process of the server ("local"), a row of the agent queue    *)
(* with an entry in the runs Map ("runner", a job's), or a row alone       *)
(* ("source"); a restart empties the Map.                                  *)
(*                                                                         *)
(* Abstractions.  The lines of a run are in RunProgress, slots, locks and  *)
(* what follows a run in RunPanel, attempts and leases in AgentQueue: a    *)
(* laptop that dies leaves a dead row.  A request is served when it is     *)
(* sent; its answer may be late, and finds nobody when the panel that sent *)
(* it has gone.  The order of panels and chips is layout.                  *)
(***************************************************************************)
EXTENDS Integers, FiniteSets

CONSTANTS
  Runs, BatchRuns,    \* the tab's runs, and among them the members of a batch
  Vias,               \* how a run may be dispatched: "local", "runner", "source"
  NotFoundStreak,     \* answers of 404 in a row after which a record is given up
  MaxBoots, MaxFails, MaxRequeues   \* bounds

VARIABLES
  runs,     \* per run: how it is dispatched, its entry in the runs Map, its row of
            \* agent_jobs and whether that has waited too long; history: how it ended
  seen,     \* lastRunnerPollAt: never, fresh, or older than RUNNER_POLL_STALE_MS
  laptop,   \* away, idle, or the run it works on
  dock,     \* state.runs: per run, whether it is tracked, what it shows, and the
            \* answer under way to its poll
  batch,    \* state.batch: what the batch panel says
  count     \* bounds

dockVars == <<runs, seen, laptop, dock, batch, count>>

Terminal == {"done", "failed", "stopped"}
Pending == {"none", "running", "waiting-for-runner", "stalled"}
IsRunPending(shown) == shown \in Pending
Spend(counter, most) == count[counter] < most /\ count' = [count EXCEPT ![counter] = @ + 1]

Unlaunched == [via |-> "none", map |-> "none", row |-> "none", old |-> FALSE, fate |-> "none"]

-----------------------------------------------------------------------------
(***************************************************************************)
(* The server's view.                                                      *)
(***************************************************************************)
Settled(run) == run.row \in {"done", "failed", "dead"}
RowOutcome(run) == IF run.row = "done" THEN "done" ELSE "failed"

\* syncRunnerRoutedRun: an entry whose row is over is closed.
Synced(run) ==
  IF run.map = "running" /\ Settled(run) THEN [run EXCEPT !.map = RowOutcome(run)] ELSE run

RunnerConnected == seen = "fresh"

QueuedRunnerView(run) ==
  IF run.old THEN "stalled" ELSE IF RunnerConnected THEN "running" ELSE "waiting-for-runner"

\* synthesizeRunnerRun: a run the Map does not know, from its row.
SynthesizeRunnerRun(run) ==
  CASE run.row = "queued" -> QueuedRunnerView(run)
    [] run.row = "claimed" -> "running"
    [] OTHER -> RowOutcome(run)

\* The answer of GET /api/routines/run/:runId; only the id of a source's run is
\* that of its row.
View(run) ==
  CASE run.map = "none" -> IF run.via = "source" THEN SynthesizeRunnerRun(run) ELSE "not found"
    [] run.map = "running" /\ run.row = "queued" -> QueuedRunnerView(run)
    [] OTHER -> run.map

\* The endpoints of a run find it by its id in the Map, or as a row.
Found(run) == run.map # "none" \/ run.via = "source"

-----------------------------------------------------------------------------
(***************************************************************************)
(* The dock.                                                               *)
(***************************************************************************)
Untracked == [on |-> FALSE, minimized |-> FALSE, shown |-> "none", misses |-> 0, answer |-> "none"]

\* A panel or chip mounts, knows nothing yet, and polls.
Mounted(minimized) == [Untracked EXCEPT !.on = TRUE, !.minimized = minimized]

Launched(via) ==
  [Unlaunched EXCEPT !.via = via, !.fate = "pending",
     !.map = IF via = "source" THEN "none" ELSE "running",
     !.row = IF via = "local" THEN "none" ELSE "queued"]

\* A run is launched, and its answer reaches registerRun or does not.
Launch(r) ==
  /\ runs[r] = Unlaunched /\ r \notin BatchRuns
  /\ \E via \in Vias : runs' = [runs EXCEPT ![r] = Launched(via)]
  /\ \/ dock' = [dock EXCEPT ![r] = Mounted(FALSE)] /\ UNCHANGED count
     \/ UNCHANGED dock /\ Spend("fails", MaxFails)
  /\ UNCHANGED <<seen, laptop, batch>>

\* Draft queued, Finalize queued or Discover due: the members start together.
LaunchBatch ==
  /\ BatchRuns # {} /\ \A r \in BatchRuns : runs[r] = Unlaunched
  /\ \E via \in Vias : runs' = [r \in Runs |-> IF r \in BatchRuns THEN Launched(via) ELSE runs[r]]
  /\ batch' = "active"
  /\ UNCHANGED <<seen, laptop, dock, count>>

\* minimizeTrackedRun and restoreTrackedRun: one consumer of the poll goes and
\* the other mounts.
Toggle(r) ==
  /\ dock[r].on /\ dock' = [dock EXCEPT ![r] = Mounted(~dock[r].minimized)]
  /\ UNCHANGED <<runs, seen, laptop, batch, count>>

\* Close of a panel at any time, dismiss of a chip once its run is over.
Dismiss(r) ==
  /\ dock[r].on /\ (dock[r].minimized => ~IsRunPending(dock[r].shown))
  /\ dock' = [dock EXCEPT ![r] = Untracked]
  /\ UNCHANGED <<runs, seen, laptop, batch, count>>

CloseBatch ==
  /\ batch # "closed" /\ batch' = "closed"
  /\ UNCHANGED <<runs, seen, laptop, dock, count>>

-----------------------------------------------------------------------------
(***************************************************************************)
(* The polls.                                                              *)
(***************************************************************************)
Asks(r) == dock[r].on /\ IsRunPending(dock[r].shown) /\ dock[r].answer = "none"

\* The poll of a panel or chip is served.
Poll(r) ==
  /\ Asks(r)
  /\ runs' = [runs EXCEPT ![r] = Synced(@)]
  /\ dock' = [dock EXCEPT ![r].answer = View(runs'[r])]
  /\ UNCHANGED <<seen, laptop, batch, count>>

\* It is not: the timer is set again.
PollFails(r) ==
  /\ Asks(r) /\ Spend("fails", MaxFails)
  /\ UNCHANGED <<runs, seen, laptop, dock, batch>>

\* "run not found": after a streak the panel says that the record is gone.
Missed(t) ==
  [t EXCEPT !.misses = @ + 1, !.shown = IF t.misses + 1 >= NotFoundStreak THEN "gone" ELSE @]

\* setRun.
Arrives(r) ==
  /\ dock[r].answer # "none"
  /\ LET t == [dock[r] EXCEPT !.answer = "none"]
     IN  dock' = [dock EXCEPT ![r] =
           IF dock[r].answer = "not found" THEN Missed(t)
           ELSE [t EXCEPT !.misses = 0, !.shown = dock[r].answer]]
  /\ UNCHANGED <<runs, seen, laptop, batch, count>>

\* reconcileRunnerRoutedRuns, and the members that GET /api/routines/batch/:batchId
\* counts: those in the Map.
BatchRunning(all) == {r \in BatchRuns : all[r].map = "running"}

\* The poll of the batch panel, which ends when nothing runs.
PollBatch ==
  /\ batch = "active"
  /\ runs' = [r \in Runs |-> Synced(runs[r])]
  /\ batch' = IF BatchRunning(runs') = {} THEN "complete" ELSE "active"
  /\ UNCHANGED <<seen, laptop, dock, count>>

-----------------------------------------------------------------------------
(***************************************************************************)
(* Stop and Re-queue.                                                      *)
(***************************************************************************)
\* A process is killed; a row that waits is canceled; what has ended keeps its end.
Stopped(run) ==
  LET now == Synced(run)
  IN  IF ~Found(run) THEN run
      ELSE CASE now.via = "local" /\ now.map = "running" ->
                  [now EXCEPT !.map = "stopped", !.fate = "stopped"]
             [] now.via = "runner" /\ now.row = "queued" ->
                  [now EXCEPT !.map = "stopped", !.row = "failed", !.fate = "stopped"]
             [] now.via = "source" /\ now.row = "queued" ->
                  [now EXCEPT !.row = "failed", !.fate = "failed"]
             [] OTHER -> now

Stop(r) ==
  /\ dock[r].on /\ ~dock[r].minimized /\ IsRunPending(dock[r].shown)
  /\ runs' = [runs EXCEPT ![r] = Stopped(@)]
  /\ UNCHANGED <<seen, laptop, dock, batch, count>>

\* Offered while the run is shown as stalled; the wait of a queued row begins anew.
Requeue(r) ==
  /\ dock[r].on /\ ~dock[r].minimized /\ dock[r].shown = "stalled"
  /\ Found(runs[r]) /\ runs[r].row = "queued" /\ Spend("requeues", MaxRequeues)
  /\ runs' = [runs EXCEPT ![r].old = FALSE]
  /\ UNCHANGED <<seen, laptop, dock, batch>>

-----------------------------------------------------------------------------
(***************************************************************************)
(* What goes on meanwhile.                                                 *)
(***************************************************************************)
LocalEnds(r) ==
  /\ runs[r].via = "local" /\ runs[r].map = "running"
  /\ \E end \in {"done", "failed"} : runs' = [runs EXCEPT ![r].map = end, ![r].fate = end]
  /\ UNCHANGED <<seen, laptop, dock, batch, count>>

LaptopStarts ==
  /\ laptop = "away" /\ laptop' = "idle"
  /\ UNCHANGED <<runs, seen, dock, batch, count>>

\* It polls, and claims what is queued.
LaptopPolls ==
  /\ laptop = "idle" /\ seen' = "fresh"
  /\ LET queued == {r \in Runs : runs[r].row = "queued"}
     IN  IF queued = {} THEN UNCHANGED <<runs, laptop>>
         ELSE \E r \in queued :
                laptop' = r /\ runs' = [runs EXCEPT ![r].row = "claimed", ![r].old = FALSE]
  /\ UNCHANGED <<dock, batch, count>>

\* The end of a row, and of the run it belongs to.
Ends(r, row) ==
  runs' = [runs EXCEPT ![r].row = row,
                       ![r].fate = IF row = "done" THEN "done" ELSE "failed"]

\* The result endpoint closes the run too.
LaptopReports ==
  /\ laptop \in Runs /\ laptop' = "idle"
  /\ \E end \in {"done", "failed"} :
       runs' = [runs EXCEPT ![laptop] = Synced([@ EXCEPT !.row = end, !.fate = end])]
  /\ UNCHANGED <<seen, dock, batch, count>>

\* It goes away; what it worked on is dead after its leases.
LaptopStops ==
  /\ laptop # "away" /\ laptop' = "away"
  /\ IF laptop \in Runs THEN Ends(laptop, "dead") ELSE UNCHANGED runs
  /\ UNCHANGED <<seen, dock, batch, count>>

\* RUNNER_POLL_STALE_MS and RUNNER_STALLED_MS pass; an idle laptop polls before.
PollAges ==
  /\ laptop # "idle" /\ seen = "fresh" /\ seen' = "stale"
  /\ UNCHANGED <<runs, laptop, dock, batch, count>>

RowAges(r) ==
  /\ laptop # "idle" /\ runs[r].row = "queued" /\ ~runs[r].old
  /\ runs' = [runs EXCEPT ![r].old = TRUE]
  /\ UNCHANGED <<seen, laptop, dock, batch, count>>

\* The Map is lost, and with it whatever becomes of the processes.
Lost(run) ==
  [run EXCEPT !.map = "none",
     !.fate = IF run.via = "local" /\ @ = "pending" THEN "unknown" ELSE @]

Restart ==
  /\ Spend("boots", MaxBoots)
  /\ runs' = [r \in Runs |-> Lost(runs[r])] /\ seen' = "never"
  /\ UNCHANGED <<laptop, dock, batch>>

-----------------------------------------------------------------------------
DockInit ==
  /\ runs = [r \in Runs |-> Unlaunched] /\ seen = "never" /\ laptop = "away"
  /\ dock = [r \in Runs |-> Untracked] /\ batch = "closed"
  /\ count = [boots |-> 0, fails |-> 0, requeues |-> 0]

DockNext ==
  \/ \E r \in Runs :
       \/ Launch(r) \/ Toggle(r) \/ Dismiss(r) \/ Stop(r) \/ Requeue(r)
       \/ Poll(r) \/ PollFails(r) \/ Arrives(r) \/ LocalEnds(r) \/ RowAges(r)
  \/ LaunchBatch \/ PollBatch \/ CloseBatch
  \/ LaptopStarts \/ LaptopPolls \/ LaptopReports \/ LaptopStops \/ PollAges \/ Restart

\* A timer that is set fires, and an answer arrives.
DockFairness == \A r \in Runs : WF_dockVars(Poll(r)) /\ WF_dockVars(Arrives(r))

DockSpec == DockInit /\ [][DockNext]_dockVars

-----------------------------------------------------------------------------
(***************************************************************************)
(* Properties.                                                             *)
(***************************************************************************)
\* Everything keeps its type, and an entry of the Map is never ahead of its run.
DockTypeOK ==
  /\ \A r \in Runs : runs[r].map \in {"none", "running"} \cup Terminal
  /\ \A r \in Runs : runs[r].old => runs[r].row \in {"queued", "failed"}
  /\ \A r \in Runs : dock[r].shown \in Pending \cup Terminal \cup {"gone"}
  /\ laptop \in Runs => runs[laptop].row = "claimed"
  /\ batch \in {"closed", "active", "complete"}

\* A panel that shows the end of a run shows how it ended; one that says that its
\* record is gone is right, which takes a restart and is never so of a source's; and
\* a batch panel that says it is complete is, unless the server was restarted or the
\* members are rows alone.
PanelTellsRun ==
  /\ \A r \in Runs :
       /\ dock[r].shown \in Terminal => runs[r].fate = dock[r].shown
       /\ dock[r].shown = "gone" => count.boots > 0 /\ ~Found(runs[r])
  /\ batch = "complete" /\ count.boots = 0 =>
       \A r \in BatchRuns : runs[r].via = "source" \/ runs[r].fate \in Terminal

\* The panel of a run that is over, or that no server knows, still says otherwise; it
\* must not for ever.
ShownPending(r) ==
  dock[r].on /\ IsRunPending(dock[r].shown) /\ runs[r].fate \in Terminal \cup {"unknown"}

\* "the RunPanel / batch endpoint stay exact" (server/index.js:2713): a batch panel
\* that says it is complete is.
BatchIsExact == batch = "complete" => \A r \in BatchRuns : runs[r].fate \in Terminal

\* "is a runner connected RIGHT NOW" (server/index.js:759): no answer given now says
\* that no runner is connected while one is at work.
WaitingIsHonest ==
  \A r \in Runs : Found(runs[r]) /\ View(runs[r]) = "waiting-for-runner" /\ seen = "stale" =>
                    laptop = "away"

\* "any runner-routed JOB run after a container restart wiped the Map"
\* (server/index.js:4103) is synthesized from its row: no such run is unknown.
JobRunIsSynthesized ==
  \A r \in Runs : runs[r].via = "runner" => View(runs[r]) # "not found"
=============================================================================

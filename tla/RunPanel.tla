------------------------------- MODULE RunPanel -------------------------------
(***************************************************************************)
(* The run panel of server/index.js: the in-memory `runs` Map and batch    *)
(* `queue` behind /api/routines, the two ways a run of a job routine is    *)
(* executed (a local claude process, or a row of agent_jobs for the laptop *)
(* runner), and the job status a finished run advances.                    *)
(*                                                                         *)
(* Every handler runs to completion in one turn of the event loop, so each *)
(* is one action, with all it calls: the reconcile, the close bookkeeping  *)
(* and the draining of the queue.  They are composed as functions on the   *)
(* record `panel`, in the order of the code.                               *)
(*                                                                         *)
(* Abstractions.  The agent_jobs queue enters by what AgentQueue shows of  *)
(* it: a row waits, is held, and settles once or goes back to waiting.     *)
(* Re-queueing a waiting row only moves its clock and is left out.  Of a   *)
(* job folder there are its status, the state of its CV and cover letter,  *)
(* taken as one, and who wrote the gaps note last if that was after the    *)
(* CV.  The routines are the two whose end advances a job.                 *)
(***************************************************************************)
EXTENDS Integers, Sequences, FiniteSets, SequencesExt

CONSTANTS
  Jobs,
  Dispatch,      \* agentRunDispatch(): "runner" or "local"
  MaxRunning,    \* MAX_CONCURRENT_RUNS
  MaxInflight,   \* RUNNER_QUEUE_MAX_INFLIGHT
  MaxAttempts,   \* RUNNER_MAX_ATTEMPTS
  BatchSizes,    \* bound: the lengths of batch requests
  MaxRuns,       \* bound: runs and queued items of one server process
  MaxRows,       \* bound: agent_jobs rows
  OwnerEdits,    \* bound: the statuses the owner sets by hand
  DraftGaps      \* bound: whether a draft's gaps note comes out "older" than its CV, or is
                 \* the "agent"'s and newer

VARIABLES
  panel,   \* runs: the Map, in insertion order; queue: items waiting for a slot;
           \* rows: agent_jobs; jobs: the job folders
  launched \* history: rows that a run of the panel was created for

vars == <<panel, launched>>

Routines == {"first-draft-job", "finalize-job"}
Statuses == {"lead", "queued", "drafted", "ready", "submitted"}
Pending == {"queued", "held"}    \* held: claimed or running

PanelAssumption ==
  /\ Dispatch \in {"runner", "local"}
  /\ MaxRunning \in Nat \ {0} /\ MaxInflight \in Nat \ {0} /\ MaxAttempts \in Nat \ {0}
  /\ BatchSizes \subseteq Nat /\ DraftGaps \subseteq {"older", "agent"} /\ OwnerEdits \subseteq Statuses

Run(routine, job, status, row, proc) ==
  [routine |-> routine, job |-> job, status |-> status, row |-> row, proc |-> proc]
Row(routine, job) == [routine |-> routine, job |-> job, status |-> "queued", attempts |-> 0]

-----------------------------------------------------------------------------
(***************************************************************************)
(* What the handlers are made of.                                          *)
(***************************************************************************)
RunningCount(P) == Cardinality({i \in DOMAIN P.runs : P.runs[i].status = "running"})

Inflight(P) == Cardinality({k \in DOMAIN P.rows : P.rows[k].status \in Pending})

\* Mutant: an item still in the queue is overlooked.
HasActiveRun(P, routine, job) ==
  \E i \in DOMAIN P.runs : /\ P.runs[i].routine = routine /\ P.runs[i].job = job
                           /\ P.runs[i].status = "running"

\* hasPendingOrActiveRun: reads the memory of this server process only.
HasPendingOrActiveRun(P, routine, job) ==
  \/ \E i \in DOMAIN P.runs : /\ P.runs[i].routine = routine /\ P.runs[i].job = job
                              /\ P.runs[i].status = "running"
  \/ \E i \in DOMAIN P.queue : P.queue[i] = [routine |-> routine, job |-> job]

HasPendingAgentJob(P, job, routine) ==
  \E k \in DOMAIN P.rows : /\ P.rows[k].job = job /\ P.rows[k].routine = routine
                           /\ P.rows[k].status \in Pending

DraftDone(job) == job.materials # "none"

\* The gaps note counts as answered when it is newer than the CV, whoever wrote it.
GapsAnswered(job) == job.gaps # "older"
FinalizeReady(job) == job.status = "drafted" /\ DraftDone(job) /\ GapsAnswered(job)

\* Mutant: the exit code is overlooked.
NextStatusOfMaterials(routine, exit0, job) ==
  IF job.materials # "good" THEN job.status
  ELSE IF routine = "first-draft-job" /\ job.status \in {"lead", "queued"} THEN "drafted"
  ELSE IF routine = "finalize-job" /\ job.status = "drafted" THEN "ready"
  ELSE job.status

\* nextStatusAfterRun and the quality gate in front of its write.
NextStatusAfterRun(routine, exit0, job) ==
  IF ~exit0 \/ ~DraftDone(job) \/ job.materials = "overlong" THEN job.status
  ELSE IF routine = "first-draft-job" /\ job.status \in {"lead", "queued"} THEN "drafted"
  ELSE IF routine = "finalize-job" /\ job.status = "drafted" THEN "ready"
  ELSE job.status

MaybeAutoAdvanceJob(P, routine, exit0, job) ==
  [P EXCEPT !.jobs[job].status = NextStatusAfterRun(routine, exit0, P.jobs[job])]

\* startRun: a full runner queue fails the run at once; else it is running.
StartRun(P, routine, job) ==
  IF Dispatch = "local"
  THEN [P EXCEPT !.runs = Append(@, Run(routine, job, "running", 0, TRUE))]
  ELSE IF Inflight(P) >= MaxInflight
  THEN [P EXCEPT !.runs = Append(@, Run(routine, job, "failed", 0, FALSE))]
  ELSE [P EXCEPT !.rows = Append(@, Row(routine, job)),
                 !.runs = Append(@, Run(routine, job, "running", Len(P.rows) + 1, FALSE))]

\* processQueue: items leave the queue in order while there is a free slot.
ProcessQueue(P) ==
  LET drained[n \in 0 .. Len(P.queue)] ==
        IF n = 0 THEN P
        ELSE LET Q == drained[n - 1] IN
             IF RunningCount(Q) < MaxRunning
             THEN StartRun([Q EXCEPT !.queue = Tail(@)], P.queue[n].routine, P.queue[n].job)
             ELSE Q
  IN drained[Len(P.queue)]

\* Mutant: a row that died closes no run.
SyncReportedRun(P, i) ==
  LET run == P.runs[i] IN
  IF run.row = 0 \/ run.status # "running" \/ P.rows[run.row].status \notin {"done", "failed"} THEN P
  ELSE LET ok == P.rows[run.row].status = "done"
           closed == [P EXCEPT !.runs[i].status = IF ok THEN "done" ELSE "failed"]
       IN ProcessQueue(MaybeAutoAdvanceJob(closed, run.routine, ok, run.job))

\* syncRunnerRoutedRun: a run whose row has settled closes.
SyncRun(P, i) ==
  LET run == P.runs[i] IN
  IF run.row = 0 \/ run.status # "running" \/ P.rows[run.row].status \in Pending THEN P
  ELSE LET ok == P.rows[run.row].status = "done"
           closed == [P EXCEPT !.runs[i].status = IF ok THEN "done" ELSE "failed"]
       IN ProcessQueue(MaybeAutoAdvanceJob(closed, run.routine, ok, run.job))

\* Those of the Map's runs that `which` names, one after the other.
SyncRuns(P, which) ==
  LET synced[n \in 0 .. Len(P.runs)] ==
        IF n = 0 THEN P ELSE IF n \in which THEN SyncRun(synced[n - 1], n) ELSE synced[n - 1]
  IN synced[Len(P.runs)]

ReconcileRunnerRoutedRuns(P) == SyncRuns(P, DOMAIN P.runs)

\* A panel step, and the rows it adds for runs.
Becomes(P) ==
  /\ panel' = P
  /\ launched' = launched \cup ({P.runs[i].row : i \in DOMAIN P.runs} \ {0})

Room(n) == /\ Len(panel.runs) + Len(panel.queue) + n <= MaxRuns
           /\ Len(panel.rows) + Len(panel.queue) + n <= MaxRows

-----------------------------------------------------------------------------
(***************************************************************************)
(* The owner's requests.                                                   *)
(***************************************************************************)
\* POST /api/routines/run.
PostRun(routine, job) ==
  /\ Room(1)
  /\ LET P == ReconcileRunnerRoutedRuns(panel) IN
     IF HasPendingOrActiveRun(P, routine, job) \/ RunningCount(P) >= MaxRunning
     THEN Becomes(P)
     ELSE Becomes(StartRun(P, routine, job))

\* Duplicates, of what runs or waits and of the request itself, and jobs not ready to
\* be finalized, are skipped.
Valid(P, routine, job) ==
  /\ ~HasPendingOrActiveRun(P, routine, job)
  /\ routine = "finalize-job" => FinalizeReady(P.jobs[job])

Queued(P, routine, jobIds) ==
  LET queued[n \in 0 .. Len(jobIds)] ==
        IF n = 0 THEN P
        ELSE LET Q == queued[n - 1] IN
             IF Valid(Q, routine, jobIds[n])
             THEN [Q EXCEPT !.queue = Append(@, [routine |-> routine, job |-> jobIds[n]])]
             ELSE Q
  IN queued[Len(jobIds)]

\* POST /api/routines/batch.
PostBatch(routine, jobIds) ==
  /\ Room(Len(jobIds))
  /\ Becomes(ProcessQueue(Queued(ReconcileRunnerRoutedRuns(panel), routine, jobIds)))

\* GET /api/routines/run/:id refreshes one run, GET .../batch/:id all of them.
PollRun(i) == Becomes(SyncRun(panel, i))
PollBatch == Becomes(ReconcileRunnerRoutedRuns(panel))

\* POST /api/routines/run/:id/stop.  A run on the runner is synced first and is
\* stopped only by cancelling a row still queued; a local process is killed.
StopRun(i) ==
  LET P == SyncRun(panel, i) run == P.runs[i] IN
  IF run.row # 0 /\ run.status = "running"
  THEN IF P.rows[run.row].status = "queued"
       THEN Becomes(ProcessQueue([P EXCEPT !.rows[run.row].status = "failed",
                                           !.runs[i].status = "stopped"]))
       ELSE Becomes(P)
  ELSE IF run.proc THEN Becomes([P EXCEPT !.runs[i].status = "stopped"]) ELSE Becomes(P)

\* POST /api/agent-jobs: an agent job with no run in the panel.
PostAgentJob(routine, job) ==
  /\ Dispatch = "runner"
  /\ Room(1)
  /\ Inflight(panel) < MaxInflight
  /\ Becomes([panel EXCEPT !.rows = Append(@, Row(routine, job))])

\* runAutoDraftScheduler: of the queued jobs without materials, those with a close
\* deadline are drafted, unless their draft is pending.  It looks at no cap on the
\* runner queue.
AutoDraft ==
  /\ Dispatch = "runner"
  /\ LET eligible == {job \in Jobs : /\ panel.jobs[job].status = "queued"
                                     /\ ~DraftDone(panel.jobs[job])
                                     /\ ~HasPendingAgentJob(panel, job, "first-draft-job")}
     IN \E selected \in SUBSET eligible \ {{}} :
          /\ Room(Cardinality(selected))
          /\ \E order \in SetToSeqs(selected) :
               Becomes([panel EXCEPT !.rows =
                 @ \o [n \in DOMAIN order |-> Row("first-draft-job", order[n])]])

\* PATCH /api/jobs/:id; and the owner saves the gaps note.
OwnerSetsStatus(job, status) ==
  /\ panel.jobs[job].status # status
  /\ Becomes([panel EXCEPT !.jobs[job].status = status])

OwnerAnswersGaps(job) ==
  /\ DraftDone(panel.jobs[job]) /\ panel.jobs[job].gaps # "owner"
  /\ Becomes([panel EXCEPT !.jobs[job].gaps = "owner"])

-----------------------------------------------------------------------------
(***************************************************************************)
(* The agents: a laptop runner that holds a row, or a local process.       *)
(***************************************************************************)
\* A draft brings a gaps note for the owner to answer, before the CV or after it; the
\* runner delivers what is new in the order of the folder.
GapsAfter(routine) == IF routine = "first-draft-job" THEN DraftGaps ELSE {"older"}

NewMaterials(P, job, routine, quality) ==
  \E gaps \in GapsAfter(routine) :
    Becomes([P EXCEPT !.jobs[job].materials = quality, !.jobs[job].gaps = gaps])

RunnerClaims(k) ==
  /\ panel.rows[k].status = "queued"
  /\ Becomes([panel EXCEPT !.rows[k].status = "held", !.rows[k].attempts = @ + 1])

\* The artifact endpoint refuses an artifact over the page cap.
RunnerUploads(k) ==
  /\ panel.rows[k].status = "held"
  /\ NewMaterials(panel, panel.rows[k].job, panel.rows[k].routine, "good")

\* The result endpoint: the fail-closed backstop, then the sync of the row's run.
RunnerReports(k, done) ==
  LET row == panel.rows[k]
      ok == done /\ DraftDone(panel.jobs[row.job])
      P == [panel EXCEPT !.rows[k].status = IF ok THEN "done" ELSE "failed"]
  IN /\ row.status = "held"
     /\ Becomes(SyncRuns(P, {i \in DOMAIN P.runs : P.runs[i].row = k}))

\* Mutant: the sweep forgets the attempts cap.
LeaseSweptToQueue(k) ==
  /\ panel.rows[k].status = "held"
  /\ Becomes([panel EXCEPT !.rows[k].status = "queued"])

\* The sweep of a later claim finds the lease expired.
LeaseSwept(k) ==
  /\ panel.rows[k].status = "held"
  /\ Becomes([panel EXCEPT !.rows[k].status =
       IF panel.rows[k].attempts >= MaxAttempts THEN "dead" ELSE "queued"])

\* Nothing checks what a local agent writes.
ProcWrites(i) ==
  /\ panel.runs[i].proc
  /\ \E quality \in {"good", "overlong"} :
       NewMaterials(panel, panel.runs[i].job, panel.runs[i].routine, quality)

\* Mutant: the close does not kick the queue.
ProcClosesQuietly(i, exit0) ==
  LET run == panel.runs[i]
      status == IF run.status # "running" THEN run.status ELSE IF exit0 THEN "done" ELSE "failed"
      closed == [panel EXCEPT !.runs[i].status = status, !.runs[i].proc = FALSE]
  IN /\ run.proc
     /\ Becomes(MaybeAutoAdvanceJob(closed, run.routine, exit0, run.job))

\* The close of a local process, also after a spawn error or a kill.
ProcCloses(i, exit0) ==
  LET run == panel.runs[i]
      status == IF run.status # "running" THEN run.status ELSE IF exit0 THEN "done" ELSE "failed"
      closed == [panel EXCEPT !.runs[i].status = status, !.runs[i].proc = FALSE]
  IN /\ run.proc
     /\ Becomes(ProcessQueue(MaybeAutoAdvanceJob(closed, run.routine, exit0, run.job)))

\* The server process restarts: the Map, the queue and its processes are gone.
Restart ==
  /\ panel.runs # <<>> \/ panel.queue # <<>>
  /\ Becomes([panel EXCEPT !.runs = <<>>, !.queue = <<>>])

-----------------------------------------------------------------------------
Init ==
  /\ \E given \in [Jobs -> {"lead", "queued"}] :
       panel = [runs |-> <<>>, queue |-> <<>>, rows |-> <<>>,
                jobs |-> [job \in Jobs |-> [status |-> given[job], materials |-> "none",
                                            gaps |-> "older"]]]
  /\ launched = {}

Agents ==
  \/ \E k \in DOMAIN panel.rows :
       \/ RunnerClaims(k)
       \/ RunnerUploads(k)
       \/ LeaseSwept(k)
       \/ \E done \in BOOLEAN : RunnerReports(k, done)
  \/ \E i \in DOMAIN panel.runs :
       \/ ProcWrites(i)
       \/ \E exit0 \in BOOLEAN : ProcCloses(i, exit0)

Batches == UNION {[1 .. n -> Jobs] : n \in BatchSizes}

Owner ==
  \/ \E routine \in Routines :
       \/ \E job \in Jobs : PostRun(routine, job) \/ PostAgentJob(routine, job)
       \/ \E jobIds \in Batches : PostBatch(routine, jobIds)
  \/ \E i \in DOMAIN panel.runs : PollRun(i) \/ StopRun(i)
  \/ PollBatch
  \/ \E job \in Jobs : OwnerAnswersGaps(job) \/ \E s \in OwnerEdits : OwnerSetsStatus(job, s)

Next == Agents \/ Owner \/ AutoDraft \/ Restart

Spec == Init /\ [][Next]_vars

\* Somebody polls while the dock shows a run or a batch; a laptop claims what waits
\* and what it holds settles or is swept; a local process ends.
Fairness ==
  /\ WF_vars(PollBatch)
  /\ \A k \in 1 .. MaxRows :
       /\ WF_vars(k \in DOMAIN panel.rows /\ RunnerClaims(k))
       /\ WF_vars(k \in DOMAIN panel.rows /\ (LeaseSwept(k) \/ \E done \in BOOLEAN : RunnerReports(k, done)))
  /\ \A i \in 1 .. MaxRuns :
       WF_vars(i \in DOMAIN panel.runs /\ \E exit0 \in BOOLEAN : ProcCloses(i, exit0))

FairSpec == Spec /\ Fairness
-----------------------------------------------------------------------------
(***************************************************************************)
(* Properties.                                                             *)
(***************************************************************************)

\* The Map, the queue, the rows and the job folders have the shape the code gives
\* them; a run that has an agent job has no local process.
PanelTypeOK ==
  /\ \A i \in DOMAIN panel.runs :
       /\ panel.runs[i] \in [routine : Routines, job : Jobs, row : 0 .. Len(panel.rows),
                             status : {"running", "done", "failed", "stopped"}, proc : BOOLEAN]
       /\ panel.runs[i].proc => panel.runs[i].row = 0 /\ panel.runs[i].status \in {"running", "stopped"}
  /\ panel.queue \in Seq([routine : Routines, job : Jobs])
  /\ \A k \in DOMAIN panel.rows :
       panel.rows[k] \in [routine : Routines, job : Jobs, attempts : 0 .. MaxAttempts,
                          status : Pending \cup {"done", "failed", "dead"}]
  /\ panel.jobs \in [Jobs -> [status : Statuses, materials : {"none", "good", "overlong"},
                              gaps : {"older", "agent", "owner"}]]
  /\ launched \subseteq DOMAIN panel.rows

\* At most one instance of a routine and a job across the queue and the running
\* runs, although items are drained from the queue without a second look: single
\* runs, batches, stops, polls and late results in any order keep it.
OneInstance ==
  \A routine \in Routines, job \in Jobs :
    Cardinality({i \in DOMAIN panel.runs :
                   panel.runs[i].routine = routine /\ panel.runs[i].job = job
                     /\ panel.runs[i].status = "running"})
      + Cardinality({i \in DOMAIN panel.queue :
                       panel.queue[i] = [routine |-> routine, job |-> job]}) <= 1

\* No more runs at once than the limit, however single runs, batches and the closes
\* that drain the queue fall together; and an item waits in the queue only while all
\* slots are taken.  The one exception lasts until a stopped local process has closed,
\* whose close drains the queue: no refused enqueue, cancel, failed run or poll ever
\* leaves an item behind with nothing to wake it.
NoIdleSlot ==
  /\ RunningCount(panel) <= MaxRunning
  /\ panel.queue # <<>> =>
       \/ RunningCount(panel) = MaxRunning
       \/ \E i \in DOMAIN panel.runs : panel.runs[i].status = "stopped" /\ panel.runs[i].proc

\* A closed run tells what became of its agent job: a stop is a cancel that took, and
\* never hides that the row was delivered or died before it.
RunTellsOutcome ==
  \A i \in DOMAIN panel.runs :
    LET run == panel.runs[i] row == panel.rows[run.row] IN
    run.row # 0 /\ run.status # "running" =>
      /\ run.status = "done" <=> row.status = "done"
      /\ run.status = "stopped" => row.status = "failed"
      /\ row.status \notin Pending

\* The automation moves a job's status only forward, within the statuses before
\* submission, and only on evidence: in the step in which a run of the routine
\* closes or leaves with exit code 0, on a job whose materials are there and keep to
\* the page cap.
MovesOnEvidence ==
  \A job \in Jobs :
    LET before == panel.jobs[job].status after == panel'.jobs[job].status IN
    before # after /\ ~OwnerSetsStatus(job, after) =>
      /\ <<before, after>> \in {<<"lead", "drafted">>, <<"queued", "drafted">>,
                                <<"drafted", "ready">>, <<"lead", "ready">>, <<"queued", "ready">>}
      /\ panel'.jobs[job].materials = "good"
      /\ \E i \in DOMAIN panel.runs :
           /\ panel.runs[i].job = job
           /\ panel.runs[i].routine = IF after = "ready" THEN "finalize-job" ELSE "first-draft-job"
           /\ panel.runs[i] # panel'.runs[i] /\ panel'.runs[i].status \in {"done", "stopped"}

AdvancesOnEvidence == [][MovesOnEvidence]_vars

\* Every run ends, and with it every wait for a slot: whatever is queued behind it is
\* started.  A restart, which forgets both, ends them too.
Underway(i) == i \in DOMAIN panel.runs /\ panel.runs[i].status = "running"
ItemsWait == panel.queue # <<>>
EveryRunEnds == (\A i \in 1 .. MaxRuns : []<>~Underway(i)) /\ []<>~ItemsWait

\* "a batch can NEVER finalize a job whose gaps note has not been answered"
\* (server/index.js:4280-4281), and a job is let into one when it is finalize-ready.
ReadyMeansAnswered ==
  \A job \in Jobs : FinalizeReady(panel.jobs[job]) => panel.jobs[job].gaps = "owner"

\* One live run per routine and job, so that two agents never write one job folder
\* at a time: the comment on the run lock gives two overlapping finalize-job runs as
\* its reason.  Counted where the agents are: runs launched whose row is not settled
\* or whose process has not closed.
OneLiveAgent ==
  \A routine \in Routines, job \in Jobs :
    Cardinality({k \in launched :
                   panel.rows[k].routine = routine /\ panel.rows[k].job = job
                     /\ panel.rows[k].status \in Pending})
      + Cardinality({i \in DOMAIN panel.runs :
                       panel.runs[i].routine = routine /\ panel.runs[i].job = job
                         /\ panel.runs[i].proc}) <= 1

-----------------------------------------------------------------------------
(***************************************************************************)
(* What the properties rest on: the invariant of the proofs.               *)
(***************************************************************************)
RunRecords ==
  [routine : Routines, job : Jobs, row : Nat, proc : BOOLEAN,
   status : {"running", "done", "failed", "stopped"}]

Items == [routine : Routines, job : Jobs]

RowRecords ==
  [routine : Routines, job : Jobs, attempts : 0 .. MaxAttempts,
   status : Pending \cup {"done", "failed", "dead"}]

JobRecords ==
  [status : Statuses, materials : {"none", "good", "overlong"}, gaps : {"older", "agent", "owner"}]

States ==
  [runs : Seq(RunRecords), queue : Seq(Items), rows : Seq(RowRecords), jobs : [Jobs -> JobRecords]]

\* A run with a row has no process, and once closed tells what became of the row.
RunSound(run, rows) ==
  /\ run.row \in DOMAIN rows \cup {0}
  /\ run.proc => run.row = 0 /\ run.status \in {"running", "stopped"}
  /\ run.row # 0 /\ run.status # "running" =>
       /\ run.status = "done" <=> rows[run.row].status = "done"
       /\ run.status = "stopped" => rows[run.row].status = "failed"
       /\ rows[run.row].status \notin Pending

\* What runs or waits is there once: runs, runs and items, items.
Unique(P) ==
  /\ \A i, j \in DOMAIN P.runs :
       /\ P.runs[i].status = "running" /\ P.runs[j].status = "running"
       /\ P.runs[i].routine = P.runs[j].routine /\ P.runs[i].job = P.runs[j].job
       => i = j
  /\ \A i \in DOMAIN P.runs, n \in DOMAIN P.queue :
       P.runs[i].status = "running" =>
         P.queue[n] # [routine |-> P.runs[i].routine, job |-> P.runs[i].job]
  /\ \A m, n \in DOMAIN P.queue : P.queue[m] = P.queue[n] => m = n

\* A row that waits to be claimed has an attempt left.
Sound(P) ==
  /\ P \in States
  /\ \A i \in DOMAIN P.runs : RunSound(P.runs[i], P.rows)
  /\ \A k \in DOMAIN P.rows : P.rows[k].status = "queued" => P.rows[k].attempts < MaxAttempts
  /\ Unique(P)
  /\ RunningCount(P) <= MaxRunning

PanelInv == Sound(panel) /\ NoIdleSlot /\ launched \subseteq DOMAIN panel.rows
=============================================================================

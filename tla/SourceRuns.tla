------------------------------ MODULE SourceRuns ------------------------------
(***************************************************************************)
(* Discovery runs of one source (server/index.js): the run records of the  *)
(* source registry, which say "running" from the launch until somebody     *)
(* closes them; the agents behind them, a laptop with a row of agent_jobs  *)
(* or a local process; "run all due" with the queue it fills; and the      *)
(* leads filed from what a laptop found.                                   *)
(*                                                                         *)
(* Locally a launch, a close and "run all due" first read the workbook in  *)
(* a child process, and go on in its callback; on the cloud the finds are  *)
(* in the database and nothing comes between.  A handler, or a callback,   *)
(* is one action, composed of functions on the record `state`.             *)
(*                                                                         *)
(* Abstractions.  A scrape is its record together with its agent: both     *)
(* have one id, or one in the other's field.  Attempts and leases are left *)
(* to AgentQueue: a held row whose lease is swept waits again or is dead.  *)
(* Which sources are due, and not paused, when "run all due" is asked for  *)
(* is any set of them.  A lead is its link, by which the server knows it   *)
(* again.  Run history is not trimmed: MaxScrapes is far below its cap.    *)
(***************************************************************************)
EXTENDS Integers, Sequences, FiniteSets, SequencesExt

CONSTANTS
  Sources,
  Links,        \* links of postings
  Dispatches,   \* what agentRunDispatch() may say: "runner", "local"
  MaxRunning,   \* MAX_CONCURRENT_RUNS
  MaxInflight,  \* RUNNER_QUEUE_MAX_INFLIGHT
  MaxScrapes    \* bound: scrapes launched, or about to be

VARIABLES
  dispatch,    \* how this instance executes runs
  state        \* scrapes, leads: on disk; queue, pending, reads: in memory

vars == <<dispatch, state>>

Waiting == {"queued", "held"}          \* a row nobody settled
RowEnds == {"done", "failed", "dead"}
Outcomes == {"succeeded", "failed", "incomplete"}
Rejected == {"rejected"}               \* a finds payload that does not validate
Results == {Rejected} \cup SUBSET Links

Scrape(s, agent, proc) ==
  [source |-> s, outcome |-> "running", reason |-> "none", old |-> FALSE,
   agent |-> agent, proc |-> proc, result |-> {}]

-----------------------------------------------------------------------------
(***************************************************************************)
(* Records.                                                                *)
(***************************************************************************)
HasRunningRecord(S, s) ==
  \E i \in DOMAIN S.scrapes : S.scrapes[i].source = s /\ S.scrapes[i].outcome = "running"

FinalizeRunRecord(scrape, outcome, reason) ==
  [scrape EXCEPT !.outcome = outcome, !.old = FALSE,
                 !.reason = IF reason = "none" THEN @ ELSE reason]

\* Mutant: every find becomes a job.
FileAllLeads(S, finds) ==
  [S EXCEPT !.leads = [l \in Links |-> IF l \in finds THEN @[l] + 1 ELSE @[l]]]

\* The finds become jobs, unless a job has the link already.
FileLeads(S, finds) ==
  [S EXCEPT !.leads = [l \in Links |-> IF l \in finds /\ @[l] = 0 THEN 1 ELSE @[l]]]

\* What ingestSourceRunResult makes of the record, and what it files.
Ingested(scrape) ==
  IF scrape.agent # "done" THEN FinalizeRunRecord(scrape, "failed", "agent")
  ELSE IF scrape.result = Rejected THEN FinalizeRunRecord(scrape, "incomplete", "rejected")
  ELSE FinalizeRunRecord(scrape, "succeeded", "none")

FindsOf(scrape) == IF scrape.agent = "done" /\ scrape.result # Rejected THEN scrape.result ELSE {}

IngestSourceRunResult(S, i) ==
  [FileLeads(S, FindsOf(S.scrapes[i])) EXCEPT !.scrapes[i] = Ingested(@)]

\* Results that came in without flipping their record are ingested; a row that
\* failed or died fails its record.  A row still waiting leaves it alone.
ReconcileRunnerSourceRuns(S) ==
  LET unflipped == {i \in DOMAIN S.scrapes : /\ dispatch = "runner"
                                             /\ S.scrapes[i].outcome = "running"
                                             /\ S.scrapes[i].agent \in RowEnds}
  IN [FileLeads(S, UNION {FindsOf(S.scrapes[i]) : i \in unflipped}) EXCEPT
        !.scrapes = [i \in DOMAIN @ |-> IF i \in unflipped THEN Ingested(@[i]) ELSE @[i]]]

\* Mutant: a record with an agent job behind it is left to that.
StalledWithoutRow(S) ==
  [S EXCEPT !.scrapes = [i \in DOMAIN @ |->
     IF @[i].old /\ @[i].agent \notin Waiting
     THEN FinalizeRunRecord(@[i], "incomplete", "stalled") ELSE @[i]]]

\* Half an hour after its start a running record is given up, whatever its agent does.
ReconcileStalledSourceRuns(S) ==
  [S EXCEPT !.scrapes = [i \in DOMAIN @ |->
     IF @[i].old THEN FinalizeRunRecord(@[i], "incomplete", "stalled") ELSE @[i]]]

\* Mutant: the other way round.
SweepStalledFirst(S) == ReconcileRunnerSourceRuns(ReconcileStalledSourceRuns(S))

Sweep(S) == ReconcileStalledSourceRuns(ReconcileRunnerSourceRuns(S))

-----------------------------------------------------------------------------
(***************************************************************************)
(* Launches.                                                               *)
(***************************************************************************)
RunningCount(S) ==
  IF dispatch = "local" THEN Cardinality({i \in DOMAIN S.scrapes : S.scrapes[i].agent = "running"}) ELSE 0

Inflight(S) == Cardinality({i \in DOMAIN S.scrapes : S.scrapes[i].agent \in Waiting})

\* Mutant: the check before the read is trusted.
LaunchUnchecked(S, s) ==
  IF dispatch = "runner" /\ Inflight(S) >= MaxInflight THEN S
  ELSE [S EXCEPT !.scrapes = Append(@, IF dispatch = "runner" THEN Scrape(s, "queued", FALSE)
                                                              ELSE Scrape(s, "running", TRUE))]

\* What launchSourceRun does in its callback, on registry and rows read afresh.
LaunchTail(S, s) ==
  IF HasRunningRecord(S, s) \/ (dispatch = "runner" /\ Inflight(S) >= MaxInflight) THEN S
  ELSE [S EXCEPT !.scrapes = Append(@, IF dispatch = "runner" THEN Scrape(s, "queued", FALSE)
                                                              ELSE Scrape(s, "running", TRUE))]

Read(op, what, fromQueue) == [op |-> op, what |-> what, fromQueue |-> fromQueue]

\* A launch out of the queue holds a slot until its callback.
LaunchSourceRun(S, s, fromQueue) ==
  IF dispatch = "runner" THEN LaunchTail(Sweep(S), s)
  ELSE [Sweep(S) EXCEPT !.reads = Append(@, Read("launch", s, fromQueue)),
                        !.pending = IF fromQueue THEN @ + 1 ELSE @]

ProcessQueue(S) ==
  LET drained[n \in 0 .. Len(S.queue)] ==
        IF n = 0 THEN S
        ELSE LET Q == drained[n - 1] IN
             IF RunningCount(Q) + Q.pending < MaxRunning
             THEN LaunchSourceRun([Q EXCEPT !.queue = Tail(@)], S.queue[n], TRUE)
             ELSE Q
  IN drained[Len(S.queue)]

FanOut(S, order) == ProcessQueue([S EXCEPT !.queue = @ \o order])

Eligible(S, due) == {s \in due : ~HasRunningRecord(S, s)}

Becomes(S) == state' = S /\ UNCHANGED dispatch

Room(n) == Len(state.scrapes) + Len(state.queue) + Len(state.reads) + n <= MaxScrapes

-----------------------------------------------------------------------------
(***************************************************************************)
(* The owner's requests.                                                   *)
(***************************************************************************)
\* POST /api/discovery/sources/:id/run, which checks before the sweep of the launch.
PostSourceRun(s) ==
  /\ Room(1)
  /\ ~HasRunningRecord(state, s)
  /\ RunningCount(state) < MaxRunning
  /\ Becomes(LaunchSourceRun(state, s, FALSE))

\* POST /api/discovery/run-all-due: whether a source has a running record is read
\* before the finds, whether it is in the queue after.
RunAllDue(due) ==
  /\ Room(Cardinality(due) + 1)
  /\ Eligible(state, due) # {}
  /\ IF dispatch = "local"
     THEN Becomes([state EXCEPT !.reads = Append(@, Read("fan-out", Eligible(state, due), FALSE))])
     ELSE \E order \in SetToSeqs(Eligible(state, due) \ ToSet(state.queue)) :
            Becomes(FanOut(state, order))

\* GET of the registry or of a source; GET of a run the panel does not know.
GetSources == Becomes(Sweep(state))
PollRun == Becomes(ReconcileRunnerSourceRuns(state))

\* POST /api/routines/run/:id/stop: a row still queued is cancelled, a held one is
\* refused, and of a settled one the record is reconciled; a process is killed.
StopRun(i) ==
  LET agent == state.scrapes[i].agent IN
  \/ /\ agent = "queued"
     /\ Becomes(ReconcileRunnerSourceRuns([state EXCEPT !.scrapes[i].agent = "failed"]))
  \/ /\ dispatch = "runner" /\ agent \in RowEnds
     /\ Becomes(ReconcileRunnerSourceRuns(state))
  \/ /\ state.scrapes[i].proc
     /\ Becomes([state EXCEPT !.scrapes[i].agent = "stopped"])

-----------------------------------------------------------------------------
(***************************************************************************)
(* Callbacks and agents.                                                   *)
(***************************************************************************)
\* Mutant: a stop is taken for a failure.
OutcomeOfExit(agent) == IF agent = "done" THEN "succeeded" ELSE "failed"

OutcomeOf(agent) ==
  CASE agent = "stopped" -> "incomplete" [] agent = "done" -> "succeeded" [] OTHER -> "failed"

\* Mutant: the slot of a skipped launch is not filled again.
AfterLaunchQuietly(S) == [S EXCEPT !.pending = @ - 1]

\* The callback of a launch out of the queue gives its slot back, and fills it.
AfterLaunch(S) == ProcessQueue([S EXCEPT !.pending = @ - 1])

\* A workbook read returns: the launch, the close or the fan-out goes on.
DiscoveryRead(n) ==
  LET read == state.reads[n]
      S == [state EXCEPT !.reads = RemoveAt(@, n)]
  IN \/ /\ read.op = "launch"
        /\ LET T == LaunchTail(S, read.what) IN
           Becomes(IF read.fromQueue THEN AfterLaunch(T) ELSE T)
     \/ /\ read.op = "fan-out"
        /\ \E order \in SetToSeqs(read.what \ ToSet(S.queue)) : Becomes(FanOut(S, order))
     \/ /\ read.op = "finalize"
        /\ Becomes([S EXCEPT !.scrapes[read.what] = FinalizeRunRecord(@, OutcomeOf(@.agent), "none")])

\* The close of a local process: finalizeSourceRun reads the workbook first.
ProcCloses(i, exit0) ==
  LET scrape == state.scrapes[i]
      agent == IF scrape.agent = "stopped" THEN "stopped" ELSE IF exit0 THEN "done" ELSE "failed"
  IN /\ scrape.proc
     /\ Becomes(ProcessQueue([state EXCEPT !.scrapes[i].agent = agent, !.scrapes[i].proc = FALSE,
                                           !.reads = Append(@, Read("finalize", i, FALSE))]))

RunnerClaims(i) ==
  /\ state.scrapes[i].agent = "queued"
  /\ Becomes([state EXCEPT !.scrapes[i].agent = "held"])

LeaseSwept(i) ==
  /\ state.scrapes[i].agent = "held"
  /\ \E agent \in {"queued", "dead"} : Becomes([state EXCEPT !.scrapes[i].agent = agent])

\* The result endpoint: the row is settled, then the result ingested.
Settled(i, agent, result) ==
  [state EXCEPT !.scrapes[i].agent = agent, !.scrapes[i].result = result]

RunnerReports(i) ==
  /\ state.scrapes[i].agent = "held"
  /\ \/ \E result \in Results : Becomes(IngestSourceRunResult(Settled(i, "done", result), i))
     \/ Becomes(IngestSourceRunResult(Settled(i, "failed", {}), i))

Forgotten(S) ==
  [S EXCEPT !.queue = <<>>, !.pending = 0, !.reads = <<>>,
            !.scrapes = [i \in DOMAIN @ |-> IF @[i].proc THEN [@[i] EXCEPT !.agent = "gone", !.proc = FALSE]
                                                         ELSE @[i]]]

\* The server dies while it ingests: the row is settled and some leads are filed.
DiesInIngest(i) ==
  /\ state.scrapes[i].agent = "held"
  /\ \E finds \in SUBSET Links : \E filed \in SUBSET finds :
       Becomes(Forgotten(FileLeads(Settled(i, "done", finds), filed)))

Restart ==
  /\ Forgotten(state) # state
  /\ Becomes(Forgotten(state))

GetsOld(i) ==
  /\ state.scrapes[i].outcome = "running" /\ ~state.scrapes[i].old
  /\ Becomes([state EXCEPT !.scrapes[i].old = TRUE])

-----------------------------------------------------------------------------
Init ==
  /\ dispatch \in Dispatches
  /\ state = [scrapes |-> <<>>, leads |-> [l \in Links |-> 0],
              queue |-> <<>>, pending |-> 0, reads |-> <<>>]

Owner ==
  \/ \E s \in Sources : PostSourceRun(s)
  \/ \E due \in SUBSET Sources : RunAllDue(due)
  \/ GetSources \/ PollRun
  \/ \E i \in DOMAIN state.scrapes : StopRun(i)

Agents ==
  \E i \in DOMAIN state.scrapes :
    \/ RunnerClaims(i) \/ LeaseSwept(i) \/ RunnerReports(i) \/ DiesInIngest(i)
    \/ \E exit0 \in BOOLEAN : ProcCloses(i, exit0)

Next ==
  \/ Owner \/ Agents \/ Restart
  \/ \E n \in DOMAIN state.reads : DiscoveryRead(n)
  \/ \E i \in DOMAIN state.scrapes : GetsOld(i)

Spec == Init /\ [][Next]_vars

\* The registry is looked at, time passes, a process ends and a read returns; the
\* laptop and the owner's other requests owe nothing.
Fairness ==
  /\ WF_vars(GetSources)
  /\ WF_vars(state.reads # <<>> /\ DiscoveryRead(1))
  /\ \A i \in 1 .. MaxScrapes :
       /\ WF_vars(i \in DOMAIN state.scrapes /\ GetsOld(i))
       /\ WF_vars(i \in DOMAIN state.scrapes /\ \E exit0 \in BOOLEAN : ProcCloses(i, exit0))

FairSpec == Spec /\ Fairness

-----------------------------------------------------------------------------
(***************************************************************************)
(* Properties.                                                             *)
(***************************************************************************)
AgentStates ==
  IF dispatch = "runner" THEN Waiting \cup RowEnds ELSE {"running", "done", "failed", "stopped", "gone"}

ScrapeRecords ==
  [source : Sources, outcome : {"running"} \cup Outcomes, old : BOOLEAN, proc : BOOLEAN,
   reason : {"none", "agent", "rejected", "stalled"}, result : Results, agent : AgentStates]

FromQueue(S) == Cardinality({n \in DOMAIN S.reads : S.reads[n].fromQueue})

\* Records, agents and the memory of the server have the shape the code gives them;
\* the slots held by launches out of the queue are those of the reads under way.
SourceTypeOK ==
  /\ \A i \in DOMAIN state.scrapes : state.scrapes[i] \in ScrapeRecords
  /\ state.queue \in Seq(Sources)
  /\ state.pending = FromQueue(state)
  /\ state.leads \in [Links -> Nat]

\* A source has at most one running record, although launches wait for the workbook
\* between their check and their record, from clicks, from the queue and from a fan-out
\* computed before.
OneRunningRecord ==
  \A s \in Sources :
    Cardinality({i \in DOMAIN state.scrapes :
                   state.scrapes[i].source = s /\ state.scrapes[i].outcome = "running"}) <= 1

\* A posting becomes a job once, however often results repeat it and although a crash
\* makes an ingest start again on what it has half filed.
LeadFiledOnce == \A l \in Links : state.leads[l] <= 1

\* A record that says running over a delivered result is closed only with its finds filed:
\* a crash between the row and the record, or in the midst of filing, loses none, and the
\* record is never given up as stalled before its result was looked for.
ClosesWithFinds ==
  \A i \in DOMAIN state.scrapes :
    LET scrape == state'.scrapes[i] IN
    /\ state.scrapes[i].outcome = "running" /\ scrape.outcome # "running"
    /\ scrape.agent = "done" /\ scrape.result # Rejected
    => \A l \in scrape.result : state'.leads[l] > 0

FindsNotLost == [][ClosesWithFinds]_vars

TellsOutcome(scrape) ==
  /\ scrape.outcome = "succeeded" => scrape.agent = "done" /\ scrape.result # Rejected
  /\ scrape.outcome = "failed" => scrape.agent \in {"failed", "dead"}

\* A closed record tells what became of its agent: succeeded only for a result that was
\* taken or an exit with code 0, failed only for an agent that did fail or die; a stop, a
\* restart, a rejected payload or a stall never counts as either.
RecordTellsOutcome == \A i \in DOMAIN state.scrapes : TellsOutcome(state.scrapes[i])

\* A due source waits in the queue only while the slots are taken, by runs or by launches
\* that read the workbook; a process that was stopped wakes the queue when it closes.
NoIdleSlot ==
  state.queue # <<>> =>
    \/ RunningCount(state) + state.pending >= MaxRunning
    \/ \E i \in DOMAIN state.scrapes : state.scrapes[i].agent = "stopped" /\ state.scrapes[i].proc

\* No record says running for ever, although the server may restart, the laptop stay away
\* and a row wait, as long as the registry is looked at; and what is queued is launched or
\* skipped.
SaysRunning(i) == i \in DOMAIN state.scrapes /\ state.scrapes[i].outcome = "running"
SourcesWait == state.queue # <<>>
EveryRecordCloses == (\A i \in 1 .. MaxScrapes : []<>~SaysRunning(i)) /\ []<>~SourcesWait

\* data-schema.md, section 2.2: one scrape run per source at a time, a second launch is
\* answered 409.  Counted where the agents are.
OneScrapePerSource ==
  \A s \in Sources :
    Cardinality({i \in DOMAIN state.scrapes :
                   /\ state.scrapes[i].source = s
                   /\ state.scrapes[i].agent \in Waiting \/ state.scrapes[i].proc}) <= 1

-----------------------------------------------------------------------------
(***************************************************************************)
(* What the properties rest on: the invariant of the proofs.               *)
(***************************************************************************)
ReadRecords ==
  [op : {"launch"}, what : Sources, fromQueue : BOOLEAN]
    \cup [op : {"fan-out"}, what : SUBSET Sources, fromQueue : {FALSE}]
    \cup [op : {"finalize"}, what : Nat, fromQueue : {FALSE}]

States ==
  [scrapes : Seq(ScrapeRecords), leads : [Links -> Nat], queue : Seq(Sources), pending : Int,
   reads : Seq(ReadRecords)]

\* A local process has no row, hence no finds, and has not ended.
ScrapeSound(scrape) ==
  /\ TellsOutcome(scrape)
  /\ scrape.proc => dispatch = "local" /\ scrape.agent \in {"running", "stopped"}
  /\ dispatch = "local" => scrape.result = {}

\* A record about to be finalized is that of a local process that closed.
FinalizesEnded(S) ==
  \A n \in DOMAIN S.reads : S.reads[n].op = "finalize" =>
    LET i == S.reads[n].what IN
    dispatch = "local" /\ i \in DOMAIN S.scrapes /\ ~S.scrapes[i].proc /\ S.scrapes[i].agent \in {"done", "failed", "stopped"}

OneRunning(S) ==
  \A i, j \in DOMAIN S.scrapes :
    S.scrapes[i].source = S.scrapes[j].source /\ S.scrapes[i].outcome = "running"
      /\ S.scrapes[j].outcome = "running" => i = j

Sound(S) ==
  /\ S \in States
  /\ OneRunning(S)
  /\ \A l \in Links : S.leads[l] <= 1
  /\ \A i \in DOMAIN S.scrapes : ScrapeSound(S.scrapes[i])
  /\ FinalizesEnded(S)

SourcesInv ==
  /\ dispatch \in {"runner", "local"} /\ Sound(state)
  /\ state.pending = FromQueue(state) /\ NoIdleSlot
=============================================================================

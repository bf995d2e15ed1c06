---------------------------- MODULE SourceRegistry ----------------------------
(***************************************************************************)
(* The registry of discovery sources (server/index.js): what the owner     *)
(* adds, edits, pauses and deletes, the record of each run, the sweep that *)
(* runs all that is due, and what is derived of a source for its pill.     *)
(*                                                                         *)
(* Abstractions.  The reads of the workbook that come between the steps of *)
(* a launch or a close are left to SourceRuns: here each is one step.  An  *)
(* id is a name and the suffix that makes it unique, time is in days, a    *)
(* cadence is daily or manual.  A scrape is the agent behind a record.     *)
(***************************************************************************)
EXTENDS Integers, Sequences, FiniteSetsExt

CONSTANTS
  Names,
  RunCap,        \* MAX_SOURCE_RUNS
  MaxRunning,    \* MAX_CONCURRENT_RUNS
  NoSource,
  Endings,       \* of a run: succeeded, failed, incomplete
  MaxScrapes, MaxEdits, MaxReports, MaxDays   \* bounds

VARIABLES
  today,
  registry,   \* id -> its source, or none
  queue,      \* the ids a sweep has queued
  scrapes,    \* what really ran, in the order of the launches
  edits       \* bounds

registryVars == <<today, registry, queue, scrapes, edits>>

Ids == Names \X (1..2)
Here == {id \in Ids : registry[id] # NoSource}
Edits(n) == edits + n <= MaxEdits /\ edits' = edits + n

\* The two settings that decide when a source runs; maybe is as yes.
Actives == {"yes", "no"}
Cadences == {"daily", "manual"}

\* validateSourceInput: what a body may change; one with a bad value is refused whole,
\* and runs and lastRunAt are not taken from a body.
Accepted == [active : Actives, cadence : Cadences]

Record(no) == [no |-> no, outcome |-> "running", leads |-> 0, reviewed |-> -1]
NewSource(no, cadence) ==
  [no |-> no, active |-> "yes", cadence |-> cadence, lastRun |-> 0, runs |-> <<>>]

\* capRuns: the newest are kept.
CapRuns(runs) ==
  IF Len(runs) > RunCap THEN SubSeq(runs, Len(runs) - RunCap + 1, Len(runs)) ELSE runs

-----------------------------------------------------------------------------
(***************************************************************************)
(* What is derived, and never stored.                                      *)
(***************************************************************************)
Interval == 1

IsRunning(source) == \E n \in DOMAIN source.runs : source.runs[n].outcome = "running"
TerminalAt(source) == {n \in DOMAIN source.runs : source.runs[n].outcome # "running"}
LastTerminal(source) == source.runs[Max(TerminalAt(source))]

Overdue(source, intervals) ==
  source.cadence # "manual" /\ source.lastRun # 0 /\ today >= source.lastRun + intervals * Interval
Due(source) == source.cadence # "manual" /\ (source.lastRun = 0 \/ Overdue(source, 1))

DeriveStatus(source) ==
  CASE source.active = "no" -> "paused"
    [] source.active # "no" /\ IsRunning(source) -> "running"
    [] OTHER ->
         IF TerminalAt(source) # {} /\ LastTerminal(source).outcome = "failed" THEN "failed"
         ELSE IF TerminalAt(source) = {} /\ source.lastRun = 0 THEN "never-run"
         ELSE IF Overdue(source, 2) THEN "stale"
         ELSE IF Due(source) THEN "due" ELSE "healthy"

\* deriveLastRunSignal: what the newest closed run came to, if it succeeded.
LastRunSignal(source) ==
  LET last == LastTerminal(source)
  IN  IF TerminalAt(source) = {} \/ last.outcome # "succeeded" THEN "none"
      ELSE IF last.leads > 0 THEN "leads"
      ELSE IF last.reviewed = -1 THEN "unverified"
      ELSE IF last.reviewed > 0 THEN "dedup" ELSE "quiet"

-----------------------------------------------------------------------------
(***************************************************************************)
(* The owner's edits.                                                      *)
(***************************************************************************)
UniqueId(name, id) == /\ id \notin Here /\ id[1] = name
                      /\ \A n \in 1..(id[2] - 1) : <<name, n>> \in Here

AddSource(name, cadence) ==
  /\ Edits(1)
  /\ \E id \in Ids :
       /\ UniqueId(name, id)
       /\ registry' = [registry EXCEPT ![id] = NewSource(edits, cadence)]
  /\ UNCHANGED <<today, queue, scrapes>>

PatchSource(id, fields) ==
  /\ id \in Here /\ Edits(1)
  /\ registry' = [registry EXCEPT ![id].active = fields.active, ![id].cadence = fields.cadence]
  /\ UNCHANGED <<today, queue, scrapes>>

\* The queue and what runs are left alone.
DeleteSource(id) ==
  /\ id \in Here /\ Edits(1)
  /\ registry' = [registry EXCEPT ![id] = NoSource]
  /\ UNCHANGED <<today, queue, scrapes>>

-----------------------------------------------------------------------------
(***************************************************************************)
(* Runs.                                                                   *)
(***************************************************************************)
UnderWay == {n \in DOMAIN scrapes : scrapes[n].outcome = "running"}

\* launchSourceRun, as long as no record of the source is running: the state of the
\* source is not looked at again.
Launched(id) ==
  LET no == Len(scrapes) + 1
  IN  /\ registry' = [registry EXCEPT ![id].runs = CapRuns(Append(@, Record(no))), ![id].lastRun = today]
      /\ scrapes' = Append(scrapes, [id |-> id, source |-> registry[id].no, outcome |-> "running",
                                     leads |-> 0, reviewed |-> -1])

RunNow(id) ==
  /\ id \in Here /\ ~IsRunning(registry[id])
  /\ Cardinality(UnderWay) < MaxRunning /\ Len(scrapes) < MaxScrapes
  /\ Launched(id)
  /\ UNCHANGED <<today, queue, edits>>

\* What a sweep queues: due, not paused, not queued and not running.
Eligible(id) ==
  /\ DeriveStatus(registry[id]) # "paused" /\ Due(registry[id])
  /\ id \notin Range(queue) /\ ~IsRunning(registry[id])

RunAllDue ==
  LET eligible == {id \in Here : Eligible(id)}
  IN  /\ eligible # {}
      /\ \E order \in Bijection(1..Cardinality(eligible), eligible) : queue' = queue \o order
      /\ UNCHANGED <<today, registry, scrapes, edits>>

\* A slot takes the next of the queue; a source that is gone, or runs already, is
\* skipped.
Drain ==
  /\ queue # <<>> /\ Cardinality(UnderWay) < MaxRunning
  /\ queue' = Tail(queue)
  /\ IF Head(queue) \in Here /\ ~IsRunning(registry[Head(queue)])
     THEN Len(scrapes) < MaxScrapes /\ Launched(Head(queue))
     ELSE UNCHANGED <<registry, scrapes>>
  /\ UNCHANGED <<today, edits>>

\* finalizeRunRecord: the record of the run, or else the one that is running.
RecordOf(source, no) ==
  IF \E n \in DOMAIN source.runs : source.runs[n].no = no
  THEN {n \in DOMAIN source.runs : source.runs[n].no = no}
  ELSE {n \in DOMAIN source.runs : source.runs[n].outcome = "running"}

Closed(source, no, outcome, leads) ==
  LET closed(run) == [run EXCEPT !.outcome = outcome, !.leads = leads]
  IN  [source EXCEPT !.runs =
         [n \in DOMAIN @ |-> IF n \in RecordOf(source, no) THEN closed(@[n]) ELSE @[n]]]

\* No new leads, or some; a workbook that cannot be read counts as none.
Closes(no) ==
  /\ no \in UnderWay
  /\ \E outcome \in Endings, leads \in 0..1 :
       /\ scrapes' = [scrapes EXCEPT ![no].outcome = outcome, ![no].leads = leads]
       /\ LET id == scrapes[no].id
          IN  registry' = IF id \in Here
                          THEN [registry EXCEPT ![id] = Closed(@, no, outcome, leads)] ELSE registry
  /\ UNCHANGED <<today, queue, edits>>

\* The scout reports what it reviewed, before its run closes or after, and perhaps again.
Report(no) ==
  LET id == scrapes[no].id
      at == {n \in DOMAIN registry[id].runs : registry[id].runs[n].no = no}
  IN  /\ no \in DOMAIN scrapes /\ id \in Here /\ at # {}
      /\ Cardinality({n \in DOMAIN scrapes \ {no} : scrapes[n].reviewed # -1}) < MaxReports
      /\ \E reviewed \in 0..1 :
           /\ scrapes' = [scrapes EXCEPT ![no].reviewed = reviewed]
           /\ registry' = [registry EXCEPT ![id].runs =
                [n \in DOMAIN @ |-> IF n \in at THEN [@[n] EXCEPT !.reviewed = reviewed] ELSE @[n]]]
      /\ UNCHANGED <<today, queue, edits>>

Tick == today < MaxDays /\ today' = today + 1 /\ UNCHANGED <<registry, queue, scrapes, edits>>

RegistryInit ==
  /\ today = 1 /\ registry = [id \in Ids |-> NoSource] /\ queue = <<>> /\ scrapes = <<>> /\ edits = 0

RegistryNext ==
  \/ \E name \in Names, cadence \in Cadences : AddSource(name, cadence)
  \/ \E id \in Ids :
       \/ DeleteSource(id) \/ RunNow(id)
       \/ \E fields \in Accepted : PatchSource(id, fields)
  \/ RunAllDue \/ Drain \/ Tick
  \/ \E no \in 1..MaxScrapes : Closes(no) \/ Report(no)

RegistrySpec == RegistryInit /\ [][RegistryNext]_registryVars

-----------------------------------------------------------------------------
(***************************************************************************)
(* Properties.                                                             *)
(***************************************************************************)
RegistryTypeOK ==
  /\ Range(queue) \subseteq Ids /\ IsInjective(queue)
  /\ \A id \in Here :
       /\ registry[id].active \in Actives /\ registry[id].cadence \in Cadences
       /\ Len(registry[id].runs) <= RunCap /\ registry[id].lastRun <= today

\* The scrapes of a source since it was added; whether one of a source
\* that had its id before it was deleted may have closed a record of this one.
OwnAt(id) == {n \in DOMAIN scrapes : scrapes[n].id = id /\ scrapes[n].source = registry[id].no}
EndedAt(id) == {n \in OwnAt(id) : scrapes[n].outcome # "running"}
Inherited(id) == \E s \in Range(scrapes) : s.id = id /\ s.source # registry[id].no

\* What the pill of a source says is what became of its scrapes, though only the newest
\* records are kept: it runs while one is under way; it failed if the last did; it never
\* ran if there was none; and the signal tells leads, or what the scout reported.
PillTellsScrapes ==
  \A id \in Here : ~Inherited(id) =>
    LET source == registry[id]
        own == OwnAt(id)
        ended == EndedAt(id)
        last == scrapes[Max(ended)]
    IN  /\ source.active # "no" =>
             /\ DeriveStatus(source) = "running" <=> own # {} /\ scrapes[Max(own)].outcome = "running"
             /\ DeriveStatus(source) = "failed" => ended = {} \/ last.outcome = "failed"
             /\ DeriveStatus(source) = "never-run" <=> own = {}
        /\ ended # {} =>
             LastRunSignal(source) =
               (IF last.outcome # "succeeded" THEN "none"
                ELSE IF last.leads = 1 THEN "leads"
                ELSE IF last.reviewed = -1 THEN "unverified"
                ELSE IF last.reviewed = 1 THEN "dedup" ELSE "quiet")

\* The agent of a source that is still there has a record, which runs while it does.
NoScrapeUnseen ==
  \A n \in UnderWay :
    LET id == scrapes[n].id
    IN  id \in Here /\ registry[id].no = scrapes[n].source /\ ~Inherited(id) =>
          \E r \in Range(registry[id].runs) : r.no = n /\ r.outcome = "running"

\* "a truthy check let PAUSED sources through and the fan-out launched them, defeating
\* the pause control" (server/index.js:6568-6570): it launches none that is paused.
SweepSparesPaused ==
  [][queue # <<>> /\ queue' = Tail(queue) /\ scrapes' # scrapes =>
       registry[Head(queue)].active # "no"]_registryVars

\* "flip a source's optimistic "running" run record to its terminal outcome"
\* (server/index.js:5604): the record tells the outcome of its own run.
RecordTellsRun ==
  \A id \in Here : \A r \in Range(registry[id].runs) : r.outcome = scrapes[r.no].outcome
=============================================================================

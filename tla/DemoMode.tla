------------------------------- MODULE DemoMode -------------------------------
(***************************************************************************)
(* The public demo: the gate it must pass to boot (server/app-mode.js), the *)
(* fictional seed (demo/seed.mjs) at boot and at every reset, the visitors' *)
(* writes under their limiter, the finds they triage, and the replays that  *)
(* stand for runs (runDemoReplay, demo/replay.mjs).                        *)
(*                                                                         *)
(* Abstractions.  A seeded job is queued or drafted with its files; what   *)
(* else is seeded (tasks, requests, sources, chats, the activity log) is   *)
(* one part, written after the jobs.  The finds are generated on each read,*)
(* so only the decisions on them are state.  A replay has Lines lines.     *)
(***************************************************************************)
EXTENDS Integers, Sequences, FiniteSets

CONSTANTS
  JobOrder,      \* the seeded jobs, in order
  Drafted,       \* those the seed makes drafted
  Finds, Runs, Lines,
  WriteCap,      \* writes an address has in a window of the limiter
  Absent, NoRun, \* no such job; no run yet
  MaxWindows, MaxResets, MaxKills   \* bounds

VARIABLES
  env,       \* what the process finds at boot
  up,        \* whether a process runs
  db,        \* the demo's Postgres: the jobs, and whether the rest is seeded
  run,       \* the runs Map of the process
  decided,   \* the decisions on finds, in the process
  writes,    \* writes of the window, by the limiter
  since,     \* history: the jobs visitors touched since the last reset, and those a
             \* replay was at work on when it came
  tally      \* bounds

demoVars == <<env, up, db, run, decided, writes, since, tally>>

SeedJobs == {JobOrder[k] : k \in DOMAIN JobOrder}
Spend(counter, most) == tally[counter] < most /\ tally' = [tally EXCEPT ![counter] = @ + 1]

-----------------------------------------------------------------------------
(***************************************************************************)
(* The boot gate and the seed.                                             *)
(***************************************************************************)
Environments ==
  [mode : {"real", "demo", "Demo"}, pg : BOOLEAN, marked : BOOLEAN,
   secrets : SUBSET {"runner", "sync", "export", "apify"}]

\* resolveRuntime: a mode that is not known, a demo on another store or on a database
\* without its marker, and a demo that sees any real credential do not boot.
Boots(e) ==
  /\ e.mode \in {"real", "demo"}
  /\ e.mode = "demo" => e.pg /\ e.marked /\ e.secrets = {}

\* What reaches real data: by mode, and by its credential.
Lanes(e) == IF e.mode = "real" THEN e.secrets ELSE {}

Seeded(j) == IF j \in Drafted THEN [status |-> "drafted", files |-> TRUE]
             ELSE [status |-> "queued", files |-> FALSE]
Empty == [jobs |-> [j \in SeedJobs |-> Absent], rest |-> FALSE]

\* applySeed, up to some part: the jobs in their order (one that is there is left
\* alone), then the rest.
SeededUpTo(from, n) ==
  [jobs |-> [j \in SeedJobs |->
     IF from.jobs[j] = Absent /\ \E k \in 1..n : k \in DOMAIN JobOrder /\ JobOrder[k] = j
     THEN Seeded(j) ELSE from.jobs[j]],
   rest |-> from.rest \/ n > Len(JobOrder)]
FullSeed == SeededUpTo(Empty, Len(JobOrder) + 1)

NoRuns == [r \in Runs |-> NoRun]
FreshProcess == /\ run' = NoRuns /\ decided' = [f \in Finds |-> ""] /\ writes' = 0

\* The boot: an empty demo database is seeded.
Boot ==
  /\ ~up /\ Boots(env) /\ up' = TRUE /\ FreshProcess
  /\ db' = IF env.mode = "demo" /\ \A j \in SeedJobs : db.jobs[j] = Absent
           THEN SeededUpTo(db, Len(JobOrder) + 1) ELSE db
  /\ UNCHANGED <<env, since, tally>>

Live(j) == \E r \in Runs : run[r] # NoRun /\ run[r].job = j /\ run[r].status = "running"

Serving == up /\ env.mode = "demo"

\* resetDemoData, by the interval or by a POST with the secret: truncate, forget the
\* decisions, seed.  The process does nothing else meanwhile.
Reset ==
  /\ Serving /\ Spend("resets", MaxResets)
  /\ db' = FullSeed /\ decided' = [f \in Finds |-> ""]
  /\ since' = [since EXCEPT !.touched = {}, !.older = {j \in SeedJobs : Live(j)}]
  /\ UNCHANGED <<env, up, run, writes>>

\* A kill, which may come in the middle of a reset or of the seed at boot.
Killed ==
  /\ up /\ Spend("kills", MaxKills) /\ up' = FALSE
  /\ \/ db' = db /\ since' = since
     \/ /\ Serving /\ \E n \in 0..Len(JobOrder) : db' = SeededUpTo(Empty, n)
        /\ since' = [since EXCEPT !.touched = {}, !.older = {}]
  /\ UNCHANGED <<env, run, decided, writes>>

-----------------------------------------------------------------------------
(***************************************************************************)
(* Visitors.                                                               *)
(***************************************************************************)
\* createDemoWriteLimiter: over the cap a write is answered 429.
MayWrite == Serving /\ writes < WriteCap /\ writes' = writes + 1
NextWindow == /\ Serving /\ writes > 0 /\ writes' = 0 /\ Spend("windows", MaxWindows)
              /\ UNCHANGED <<env, up, db, run, decided, since>>

\* A visitor changes the status of a job.
Edit(j) ==
  /\ MayWrite /\ db.jobs[j] # Absent /\ db' = [db EXCEPT !.jobs[j].status = "submitted"]
  /\ since' = [since EXCEPT !.touched = @ \cup {j}]
  /\ UNCHANGED <<env, up, run, decided, tally>>

\* POST /api/discovery/decide.
Decide(f) ==
  /\ MayWrite /\ \E d \in {"skip", ""} : decided' = [decided EXCEPT ![f] = d]
  /\ UNCHANGED <<env, up, db, run, since, tally>>

\* POST /api/routines/run, of a draft: no second live run on the job.
Launch(r, j) ==
  /\ MayWrite /\ run[r] = NoRun /\ db.jobs[j] # Absent /\ ~Live(j)
  /\ run' = [run EXCEPT ![r] = [job |-> j, status |-> "running", left |-> Lines, stopped |-> FALSE]]
  /\ since' = [since EXCEPT !.touched = @ \cup {j}]
  /\ UNCHANGED <<env, up, db, decided, tally>>

\* POST .../stop: a replay has no process to kill, and is answered ok.
Stop(r) ==
  /\ MayWrite /\ run[r] # NoRun /\ run[r].status = "running" /\ ~run[r].stopped
  /\ run' = [run EXCEPT ![r].stopped = TRUE]
  /\ UNCHANGED <<env, up, db, decided, since, tally>>

-----------------------------------------------------------------------------
(***************************************************************************)
(* The replay.                                                             *)
(***************************************************************************)
Replays(r) == Serving /\ run[r] # NoRun /\ run[r].status = "running"

Step(r) ==
  /\ Replays(r) /\ run[r].left > 0 /\ run' = [run EXCEPT ![r].left = @ - 1]
  /\ UNCHANGED <<env, up, db, decided, writes, since, tally>>

\* What the end of a replay makes of its job: the files, and the advance of
\* nextStatusAfterRun, without the quality gate.
Drafts(job) == [status |-> IF job.status = "queued" THEN "drafted" ELSE job.status, files |-> TRUE]

Finish(r) ==
  LET j == run[r].job
  IN  /\ Replays(r) /\ run[r].left = 0
      /\ run' = [run EXCEPT ![r].status = "done"]
      /\ db' = IF db.jobs[j] = Absent THEN db ELSE [db EXCEPT !.jobs[j] = Drafts(@)]
      /\ UNCHANGED <<env, up, decided, writes, since, tally>>

-----------------------------------------------------------------------------
DemoInit ==
  /\ env \in Environments /\ up = FALSE /\ db = Empty
  /\ run = NoRuns /\ decided = [f \in Finds |-> ""] /\ writes = 0
  /\ since = [touched |-> {}, older |-> {}] /\ tally = [windows |-> 0, resets |-> 0, kills |-> 0]

DemoNext ==
  \/ Boot \/ Reset \/ Killed \/ NextWindow
  \/ \E j \in SeedJobs : Edit(j) \/ \E r \in Runs : Launch(r, j)
  \/ \E f \in Finds : Decide(f)
  \/ \E r \in Runs : Stop(r) \/ Step(r) \/ Finish(r)

DemoSpec == DemoInit /\ [][DemoNext]_demoVars

-----------------------------------------------------------------------------
(***************************************************************************)
(* Properties.                                                             *)
(***************************************************************************)
\* A process that runs as a demo has a marked database of its own and no lane.
DemoTypeOK ==
  /\ db \in [jobs : [SeedJobs -> {Absent} \cup [status : {"queued", "drafted", "submitted"}, files : BOOLEAN]],
             rest : BOOLEAN]
  /\ writes \in 0..WriteCap
  /\ Serving => env.pg /\ env.marked /\ Lanes(env) = {}

\* A job that no visitor edited or drafted since the last reset is as it was seeded,
\* if it is there, unless a replay that began before the reset worked on it.
UntouchedIsSeeded ==
  \A j \in SeedJobs : db.jobs[j] \in {Absent, Seeded(j)} \/ j \in since.touched
                  \/ j \in since.older

\* Why it is: a replay that is under way works on a job of which that is known.
Replayed == [job : SeedJobs, status : {"running", "done"}, left : Nat, stopped : BOOLEAN]

DemoInv ==
  /\ db \in [jobs : [SeedJobs -> {Absent} \cup [status : {"queued", "drafted", "submitted"}, files : BOOLEAN]],
             rest : BOOLEAN]
  /\ run \in [Runs -> {NoRun} \cup Replayed]
  /\ since \in [touched : SUBSET SeedJobs, older : SUBSET SeedJobs]
  /\ UntouchedIsSeeded
  /\ up => \A r \in Runs : run[r] # NoRun /\ run[r].status = "running" =>
                           run[r].job \in since.touched \cup since.older

\* "so visitor edits ... vanish and the demo is always pristine" (server/index.js:650).
AlwaysPristine ==
  \A j \in SeedJobs : db.jobs[j] \in {Absent, Seeded(j)} \/ j \in since.touched

\* "a Stop from the UI wins" (server/index.js:3619).
StopWins == \A r \in Runs : run[r] # NoRun /\ run[r].stopped => run[r].status # "done"

\* "Seed a fresh demo DB on boot ... so a just-provisioned demo instance comes up
\* populated" (server/index.js:7389).
ComesUpPopulated == Serving => db.rest /\ \A j \in SeedJobs : db.jobs[j] # Absent
=============================================================================

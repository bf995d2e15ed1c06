------------------------------ MODULE ServerParts ------------------------------
(***************************************************************************)
(* Parts of the server that share no state with each other, side by side:  *)
(* what MCServer checks and ServerParts_proofs proves about.               *)
(***************************************************************************)
EXTENDS Integers, FiniteSets, ServerVars

CONSTANTS
  Absent,                                                                     \* no such value
  None,                                                                       \* nobody, and no run
  Kinds, Docs, Tracks, PackRows, MaxSignals, MaxPuts, MaxAttempts, MaxLookups,
  MaxRestarts,                                                                \* TrackPacks
  Addresses, Quiet, MaxFailures, Threshold, DurableCap, TailLines, WindowTicks,
  MaxBad, MaxWindows, MaxOther, MaxBoots,                                     \* AuthFailures
  Proposals, Scouts, MaxClicks, MaxDesk,                                      \* SourceDesk
  FeedRuns, BatchRuns, Tickets, HasLogFile, MaxRunning, Tolerance, MaxTicks, MaxLost,
  MaxChanges, MaxReconciles, MaxReads,                                        \* ActivityFeed
  DemoDrafted, DemoFinds, DemoRuns, Lines, WriteCap, MaxResets, MaxKills,     \* DemoMode
  Stores, Images, ImageCap, Spawned, MaxPosts, MaxWrites, MaxMishaps, MaxTime, \* TaskBoard
  LocalRoutines, DemoCap, MaxStored, MaxLaunches, MaxDays                     \* JobFiles

ASSUME PartsAssumption ==
  /\ Absent \notin [hits : Nat, misses : Nat] /\ Lines \in Nat
  /\ IsFiniteSet(FeedRuns) /\ BatchRuns \subseteq FeedRuns /\ MaxRunning \in Nat
  /\ MaxWindows \in Nat /\ WindowTicks \in Nat /\ TailLines \in Nat
  /\ Stores \subseteq {"file", "pg"} /\ MaxTime \in Nat
  /\ LocalRoutines \subseteq {"first-draft-job", "interview-prep", "interview-prep-refine"}

Packs == INSTANCE TrackPacks WITH
  Rows <- PackRows, facts <- v1, packs <- v2, signal <- v3, attempt <- v4,
  result <- v5, agents <- v6, count <- v7, truth <- v8

Auth == INSTANCE AuthFailures WITH
  gate <- v1, monitor <- v2, log <- v3, waiting <- v4, real <- v5, spent <- v6

Desk == INSTANCE SourceDesk WITH
  source <- v1, proposals <- v2, scouts <- v3, console <- v4, form <- v5,
  sending <- v6, typed <- v7, deskUsed <- v8

Feed == INSTANCE ActivityFeed WITH
  Runs <- FeedRuns, memory <- v1, log <- v2, now <- v3, board <- v4, notify <- v5,
  cli <- v6, read <- v7, count <- v8

\* The seeded jobs.
DemoJobs == <<"fresh", "far">>

Demo == INSTANCE DemoMode WITH
  JobOrder <- DemoJobs, Drafted <- DemoDrafted, Finds <- DemoFinds, Runs <- DemoRuns, NoRun <- None,
  env <- v1, up <- v2, db <- v3, run <- v4, decided <- v5, writes <- v6, since <- v7, tally <- v8

TaskList == INSTANCE TaskBoard WITH
  Links <- Spawned, MaxEvents <- MaxWrites, MaxFaults <- MaxMishaps,
  store <- v1, clock <- v2, board <- v3, ledger <- v4, blobs <- v5, gone <- v6, count <- v7

\* The owner uploads a CV, or a dated copy of it, and answers a prep sheet.
FileUploads == {[doc |-> "cv", marks |-> <<>>], [doc |-> "cv", marks |-> <<-1>>]}
FileNotes == {[doc |-> "feedback", marks |-> <<>>]}

Folder == INSTANCE JobFiles WITH
  Uploaded <- FileUploads, Noted <- FileNotes, env <- v1, today <- v2, files <- v3,
  agents <- v4, uncopied <- v5, stored <- v6, launches <- v7
=============================================================================

-------------------------------- MODULE MCRuns --------------------------------
(***************************************************************************)
(* The run panel and the source runs, whose queues, slots and locks are    *)
(* built alike, checked in one run: the panel with local processes, the    *)
(* sources with two of them and one slot.  A behaviour is one of the       *)
(* machine chosen in RunsInit.  No name of a job is singled out.           *)
(***************************************************************************)
EXTENDS Integers, FiniteSets, ServerVars, TLC

CONSTANTS
  PanelSlots,                                                                \* MAX_CONCURRENT_RUNS
  PanelJobs, Dispatch, PanelInflight, RowAttempts, BatchSizes, MaxRuns, MaxRows,
  OwnerEdits, DraftGaps,                                                     \* RunPanel
  Sources, Links, Dispatches, SourceInflight, MaxScrapes                     \* SourceRuns

Panel == INSTANCE RunPanel WITH
  Jobs <- PanelJobs, MaxRunning <- PanelSlots, MaxInflight <- PanelInflight,
  MaxAttempts <- RowAttempts, panel <- v1, launched <- v2

Src == INSTANCE SourceRuns WITH
  MaxRunning <- PanelSlots, MaxInflight <- SourceInflight, dispatch <- v1, state <- v2

ASSUME RunsAssumption ==
  /\ Panel!PanelAssumption
  /\ IsFiniteSet(PanelJobs) /\ IsFiniteSet(Sources) /\ Dispatches \subseteq {"runner", "local"}

runsVars == <<machine, v1, v2, v3, v4, v5, v6, v7, v8, v9>>

Unused == <<v3, v4, v5, v6, v7, v8, v9>>

RunsInit ==
  /\ \/ machine = "panel" /\ Panel!Init
     \/ machine = "sources" /\ Src!Init
  /\ v3 = 0 /\ v4 = 0 /\ v5 = 0 /\ v6 = 0 /\ v7 = 0 /\ v8 = 0 /\ v9 = 0

RunsNext ==
  \/ machine = "panel" /\ Panel!Next /\ UNCHANGED <<machine, Unused>>
  \/ machine = "sources" /\ Src!Next /\ UNCHANGED <<machine, Unused>>

RunsSpec == RunsInit /\ [][RunsNext]_runsVars

RunsSymmetry == Permutations(PanelJobs)

\* At most one run of a routine on a job (RunPanel) and one running record of a
\* source (SourceRuns) is live or promised at a time.
OneAtATime ==
  /\ machine = "panel" => Panel!OneInstance
  /\ machine = "sources" => Src!OneRunningRecord

\* No queued item (RunPanel) and no due source (SourceRuns) waits behind an idle slot.
NoneWaitsIdle ==
  /\ machine = "panel" => Panel!NoIdleSlot
  /\ machine = "sources" => Src!NoIdleSlot
=============================================================================

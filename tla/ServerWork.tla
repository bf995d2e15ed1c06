------------------------------- MODULE ServerWork -------------------------------
(***************************************************************************)
(* What the server does on its own, a part beside the other: the scrapes   *)
(* it pays for, its calls of the database's thread, the drafts of the      *)
(* night, the transcripts it shows, and the move into its database.        *)
(* Checked by MCServer; ServerWork_proofs proves about it.                 *)
(***************************************************************************)
EXTENDS Integers, FiniteSets, ServerVars

CONSTANTS
  Feeds, MonthlyCap, SweepCap, MaxSlots, MaxHistory, MaxPaid, MaxRemoved,     \* ApifyRuns
  Handlers, Nobody, Transactions, MaxTimeouts, MaxRefused, MaxDeaths,         \* PgBridge
  NightJobs, Deadlines, DraftCap, WindowDays, ServerOffset, Changes, ChangeDay,
  FirstHour, LastHour, MaxFires, MaxUps, MaxFailed,                           \* NightlyDraft
  LastLine, LongLines, Capped, Cap,                                           \* RunProgress
  Migrations, Order, Streams, Inventoried, Unwritten, Broken, MaxMoves, MaxBreaks \* MigrateData

ASSUME SpendAssumption == IsFiniteSet(Feeds) /\ MonthlyCap \in Nat /\ MaxHistory \in Nat \ {0}

ASSUME LinesAssumption ==
  /\ LastLine \in Nat /\ LongLines \subseteq 1..LastLine /\ Capped \in BOOLEAN /\ Cap \in Nat \ {0}

ASSUME NightAssumption ==
  /\ Changes \subseteq {"none", "spring", "fall"}
  /\ ChangeDay \in Int /\ FirstHour \in Int /\ ServerOffset \in Int

Apify == INSTANCE ApifyRuns WITH
  feeds <- v1, waitQueue <- v2, reading <- v3, flows <- v4, enabled <- v5,
  paid <- v6, forgotten <- v7, removed <- v8

Bridge == INSTANCE PgBridge WITH
  MaxFailures <- MaxRefused, MaxKills <- MaxDeaths, main <- v1, signal <- v2, calls <- v3,
  answers <- v4, posted <- v5, base <- v6, told <- v7, crossed <- v8, tally <- v9

Night == INSTANCE NightlyDraft WITH
  Jobs <- NightJobs, MaxBoots <- MaxUps, MaxFaults <- MaxFailed, change <- v1, now <- v2,
  server <- v3, jobs <- v4, log <- v5, tally <- v6

Transcript == INSTANCE RunProgress WITH
  written <- v1, underway <- v2, progress <- v3, settled <- v4, cursor <- v5,
  shown <- v6, closed <- v7, economics <- v8

Mig == INSTANCE MigrateData WITH
  Runs <- Migrations, Missing <- Unwritten, MaxChanges <- MaxMoves, MaxFaults <- MaxBreaks,
  source <- v1, schema <- v2, target <- v3, run <- v4, dirty <- v5, count <- v6

\* The domain that is read first is always there, and has ids.
ASSUME MoveAssumption == Mig!Movable
=================================================================================

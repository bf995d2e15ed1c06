------------------------------- MODULE MCServer -------------------------------
(***************************************************************************)
(* The parts of the server, and the programs around it, that share no      *)
(* state with each other, checked in one run.  A behaviour is one of the   *)
(* machine chosen in ServerInit; v1, v2, ... are that machine's variables, *)
(* in the order of its module (the instances are here, in MCRuns, in       *)
(* ServerParts and in ServerWork).  So the reachable states are those of   *)
(* each machine by itself, and a property says of each machine what its    *)
(* module says of it.  The run is for safety; liveness is checked by       *)
(* MCLiveness.                                                             *)
(***************************************************************************)
EXTENDS ServerParts, ServerWork, MCRuns

CONSTANTS
  Runs, Task, Jobs, Names, Bytes, UnsafeNames, RowText, MaxCopies, MaxEdits,
  MaxFaults, MaxByHand,                                                       \* VaultSync
  SnapRows, SnapFiles, Domains, Tasks, Blobs, Keep, MaxSnapEdits, MaxSnapshots \* ExportSnapshot

ASSUME ServerAssumption ==
  /\ Task \in Runs /\ UnsafeNames \subseteq Names /\ MaxCopies \in Nat
  /\ Absent \notin Bytes \cup Runs /\ RowText \notin Names
  /\ SnapRows \cap SnapFiles = {} /\ (SnapRows \cup SnapFiles) \cap Domains = {}
  /\ Blobs \cap (SnapRows \cup SnapFiles \cup Domains) = {} /\ Tasks \in Domains
  /\ Absent \notin Nat /\ Keep \in Nat \ {0} /\ MaxSnapEdits \in Nat

serverVars == <<machine, v1, v2, v3, v4, v5, v6, v7, v8, v9>>

Sync == INSTANCE VaultSync WITH
  vaultRow <- v1, vault <- v2, cloudRow <- v3, cloud <- v4, lock <- v5, run <- v6,
  edits <- v7, faults <- v8, byHand <- v9

Snap == INSTANCE ExportSnapshot WITH
  Rows <- SnapRows, Files <- SnapFiles, MaxEdits <- MaxSnapEdits, cloud <- v1,
  snapshots <- v2, export <- v3, prune <- v4, past <- v5, edits <- v6,
  faults <- v7

\* The domains in the order of ops/migrate-data.mjs, one of each kind.
MigrateOrder == <<"jobs", "tasks", "activity">>

ServerInit ==
  \/ machine = "sync" /\ Sync!Init
  \/ machine = "transcript" /\ Transcript!Init /\ v9 = 0
  \/ machine = "snapshot" /\ Snap!Init /\ v8 = 0 /\ v9 = 0
  \/ machine = "packs" /\ Packs!Init /\ v9 = 0
  \/ machine = "auth" /\ Auth!AuthInit /\ v7 = 0 /\ v8 = 0 /\ v9 = 0
  \/ machine = "desk" /\ Desk!SrcInit /\ v9 = 0
  \/ machine = "apify" /\ Apify!ApifyInit /\ v9 = 0
  \/ RunsInit
  \/ machine = "feed" /\ Feed!FeedInit /\ v9 = 0
  \/ machine = "migrate" /\ Mig!MigrateInit /\ v7 = 0 /\ v8 = 0 /\ v9 = 0
  \/ machine = "demo" /\ Demo!DemoInit /\ v9 = 0
  \/ machine = "bridge" /\ Bridge!BridgeInit
  \/ machine = "tickets" /\ TaskList!BoardInit /\ v8 = 0 /\ v9 = 0
  \/ machine = "files" /\ Folder!FilesInit /\ v8 = 0 /\ v9 = 0
  \/ machine = "night" /\ Night!NightInit /\ v7 = 0 /\ v8 = 0 /\ v9 = 0

ServerNext ==
  \/ machine = "sync" /\ Sync!Next /\ UNCHANGED <<machine>>
  \/ machine = "transcript" /\ Transcript!Next /\ UNCHANGED <<machine, v9>>
  \/ machine = "snapshot" /\ Snap!Next /\ UNCHANGED <<machine, v8, v9>>
  \/ machine = "packs" /\ Packs!Next /\ UNCHANGED <<machine, v9>>
  \/ machine = "auth" /\ Auth!AuthNext /\ UNCHANGED <<machine, v7, v8, v9>>
  \/ machine = "desk" /\ Desk!SrcNext /\ UNCHANGED <<machine, v9>>
  \/ machine = "apify" /\ Apify!ApifyNext /\ UNCHANGED <<machine, v9>>
  \/ RunsNext
  \/ machine = "feed" /\ Feed!FeedNext /\ UNCHANGED <<machine, v9>>
  \/ machine = "migrate" /\ Mig!MigrateNext /\ UNCHANGED <<machine, v7, v8, v9>>
  \/ machine = "demo" /\ Demo!DemoNext /\ UNCHANGED <<machine, v9>>
  \/ machine = "bridge" /\ Bridge!BridgeNext /\ UNCHANGED machine
  \/ machine = "tickets" /\ TaskList!BoardNext /\ UNCHANGED <<machine, v8, v9>>
  \/ machine = "files" /\ Folder!FilesNext /\ UNCHANGED <<machine, v8, v9>>
  \/ machine = "night" /\ Night!NightNext /\ UNCHANGED <<machine, v7, v8, v9>>

ServerSpec == ServerInit /\ [][ServerNext]_serverVars

-----------------------------------------------------------------------------
(***************************************************************************)
(* What the run checks.                                                    *)
(***************************************************************************)
\* The states of all machines have the shape the code gives them.
ServerTypeOK ==
  /\ machine = "sync" => Sync!SyncTypeOK
  /\ machine = "transcript" => Transcript!ProgressTypeOK
  /\ machine = "snapshot" => Snap!SnapshotTypeOK
  /\ machine = "packs" => Packs!PacksTypeOK
  /\ machine = "auth" => Auth!AuthTypeOK
  /\ machine = "desk" => Desk!SrcTypeOK
  /\ machine = "apify" => Apify!ApifyTypeOK
  /\ machine = "panel" => Panel!PanelTypeOK
  /\ machine = "sources" => Src!SourceTypeOK
  /\ machine = "feed" => Feed!FeedTypeOK
  /\ machine = "migrate" => Mig!MigrateTypeOK
  /\ machine = "demo" => Demo!DemoTypeOK
  /\ machine = "bridge" => Bridge!BridgeTypeOK
  /\ machine = "tickets" => TaskList!BoardTypeOK
  /\ machine = "files" => Folder!FilesTypeOK
  /\ machine = "night" => Night!NightTypeOK

\* VaultSync and MigrateData: the exit code of a push, and of a move into Postgres,
\* tells the truth.
SyncTellsTruth ==
  /\ machine = "sync" => Sync!ExitTellsTruth
  /\ machine = "migrate" => Mig!MatchIsTrue

\* VaultSync, SourceDesk, ActivityFeed, TaskBoard and JobFiles: a sync never changes or
\* removes what the cloud holds, a proposal that was approved or rejected stays so, the
\* outcome of a run that was logged stays its outcome, tickets, their comments and requests
\* stay until they are deleted, and a job's files are replaced only by what may replace them.
NothingTakenBack ==
  [][ /\ machine = "sync" => Sync!OnlyInserts
      /\ machine = "desk" => Desk!StaysResolved
      /\ machine = "feed" => Feed!OutcomeStands
      /\ machine = "tickets" => TaskList!HistoryKept
      /\ machine = "files" => Folder!FilesStand ]_serverVars

\* RunProgress: no line is shown twice, and a closed run shows every line of its row.
TranscriptIsWhole ==
  machine = "transcript" => Transcript!NoLineTwice /\ Transcript!ClosedRunShowsRow

\* ExportSnapshot: a directory marked VERIFIED is one moment of the cloud, and
\* those that pruning must keep are whole.
SnapshotsAreMoments ==
  machine = "snapshot" => Snap!VerifiedIsMoment /\ Snap!NewestVerifiedWhole

\* TrackPacks: the reuse a result records is that of its own row's lookups.
ReuseIsTold == machine = "packs" => Packs!ReuseIsTold

\* AuthFailures and ActivityFeed: the bell tells of the failures there were, and of
\* what ended, appeared or was done after it was last read, and of nothing else.
BellTellsTruth ==
  /\ machine = "auth" => Auth!BellTellsFailures
  /\ machine = "feed" => Feed!BellTellsNews

\* ActivityFeed: after a boot no run of a dead process is told to be running.
NothingDangles == machine = "feed" => Feed!NothingDangles

\* SourceDesk: instructions said to be those of a proposal are, and it was approved.
\* DemoMode: what a job of the demo holds is of the seed, a visitor or a replay.
ProvenanceIsTrue ==
  /\ machine = "desk" => Desk!ProvenanceIsTrue
  /\ machine = "demo" => Demo!UntouchedIsSeeded

\* ApifyRuns: the month's cap holds, and no source is paid for twice at a time.
SpendWithinCap == machine = "apify" => Apify!SpendWithinCap /\ Apify!OnePaidRun

\* RunPanel: a closed run tells what became of its agent job.  SourceRuns: a
\* closed record tells what became of its agent, and is the only one that ran.
\* PgBridge: until a call times out a handler is told what happened to its writes,
\* and a transaction is stored whole or not at all.  NightlyDraft: a night the server
\* saw is run and told, once unless the clocks changed.
OutcomesAreTold ==
  /\ machine = "panel" => Panel!RunTellsOutcome
  /\ machine = "sources" => Src!RecordTellsOutcome /\ Src!OneRunningRecord
  /\ machine = "bridge" => Bridge!TruthUntilTimeout /\ Bridge!TransactionsAreWhole
  /\ machine = "night" => Night!EveryNightIsRun

\* RunPanel: the automation moves a job's status forward only, and on evidence.
AdvancesOnEvidence == [][machine = "panel" => Panel!MovesOnEvidence]_serverVars

\* SourceRuns: a posting becomes a job once.  MigrateData: a domain is imported once,
\* and with all the others.  NightlyDraft: a job waits for one draft at a time.
FiledOnce ==
  /\ machine = "sources" => Src!LeadFiledOnce
  /\ machine = "migrate" => Mig!ImportedOnce
  /\ machine = "night" => Night!OneDraftPending

\* TaskBoard: a ticket is completed when it is done, and its images can be shown.
TicketsAreWhole == machine = "tickets" => TaskList!TicketsAreWhole

\* SourceRuns: no record is closed over finds that were delivered and not filed.
FindsNotLost == [][machine = "sources" => Src!ClosesWithFinds]_serverVars
=============================================================================

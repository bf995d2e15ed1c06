----------------------------- MODULE MCServer_proofs -----------------------------
(***************************************************************************)
(* The properties that the run of MCServer states of several machines at   *)
(* once, for every value of the constants: each follows from what is       *)
(* proved of its machines, whose modules are instantiated once more with   *)
(* their proofs.  The two instances of a machine are the same formulas     *)
(* (Same...), so an invariant of one is an invariant of the other.         *)
(***************************************************************************)
EXTENDS MCServer, ServerParts_proofs, ServerWork_proofs, MCRuns_proofs, TLAPS

SnapP == INSTANCE ExportSnapshot_proofs WITH
  Rows <- SnapRows, Files <- SnapFiles, MaxEdits <- MaxSnapEdits, cloud <- v1,
  snapshots <- v2, export <- v3, prune <- v4, past <- v5, edits <- v6, faults <- v7

SyncP == INSTANCE VaultSync_proofs WITH
  vaultRow <- v1, vault <- v2, cloudRow <- v3, cloud <- v4, lock <- v5, run <- v6,
  edits <- v7, faults <- v8, byHand <- v9

-----------------------------------------------------------------------------
\* ExportSnapshot, with its proofs and without.
LEMMA SameSnapInit == Snap!Init <=> SnapP!Init
  BY DEF Snap!Init, SnapP!Init, Snap!Listed, SnapP!Listed, Snap!Items, SnapP!Items,
     Snap!Off, SnapP!Off, Snap!Nothing, SnapP!Nothing

\* A step of ExportSnapshot is the same step in both copies.
LEMMA SameSnapNext == Snap!Next <=> SnapP!Next
  <1>1. Snap!CreateSnapshotDir <=> SnapP!CreateSnapshotDir
    BY DEF Snap!CreateSnapshotDir, SnapP!CreateSnapshotDir, Snap!Directory, SnapP!Directory,
       Snap!Nothing, SnapP!Nothing, Snap!Items, SnapP!Items, Snap!Listed, SnapP!Listed,
       Snap!Off, SnapP!Off, Snap!Present, SnapP!Present
  <1>2. Snap!PullListed <=> SnapP!PullListed
    BY DEF Snap!PullListed, SnapP!PullListed, Snap!Call, SnapP!Call, Snap!OnDisk,
       SnapP!OnDisk
  <1>3. Snap!PullDomain <=> SnapP!PullDomain
    BY DEF Snap!PullDomain, SnapP!PullDomain, Snap!Call, SnapP!Call, Snap!OnDisk,
       SnapP!OnDisk, Snap!Off, SnapP!Off, Snap!Nothing, SnapP!Nothing, Snap!Items,
       SnapP!Items, Snap!Listed, SnapP!Listed
  <1>4. Snap!PullBlob <=> SnapP!PullBlob
    BY DEF Snap!PullBlob, SnapP!PullBlob, Snap!Call, SnapP!Call, Snap!OnDisk, SnapP!OnDisk
  <1>5. Snap!FetchManifestAgain <=> SnapP!FetchManifestAgain
    BY SMTT(30) DEF Snap!FetchManifestAgain, SnapP!FetchManifestAgain, Snap!Present, SnapP!Present,
       Snap!Disk, SnapP!Disk, Snap!Call, SnapP!Call, Snap!Cardinality, SnapP!Cardinality
  <1>6. Snap!FetchRowAgain <=> SnapP!FetchRowAgain
    BY DEF Snap!FetchRowAgain, SnapP!FetchRowAgain, Snap!Call, SnapP!Call, Snap!Disk,
       SnapP!Disk
  <1>7. Snap!FetchDomainAgain <=> SnapP!FetchDomainAgain
    BY DEF Snap!FetchDomainAgain, SnapP!FetchDomainAgain, Snap!Call, SnapP!Call, Snap!Disk,
       SnapP!Disk
  <1>8. Snap!NextPart <=> SnapP!NextPart
    BY DEF Snap!NextPart, SnapP!NextPart
  <1>9. Snap!MarkVerified <=> SnapP!MarkVerified
    BY SMTT(30) DEF Snap!MarkVerified, SnapP!MarkVerified, Snap!Disk, SnapP!Disk, Snap!Off,
       SnapP!Off, Snap!Nothing, SnapP!Nothing, Snap!Items, SnapP!Items, Snap!Listed,
       SnapP!Listed
  <1>10. Snap!ExportKilled <=> SnapP!ExportKilled
    BY SMTT(30) DEF Snap!ExportKilled, SnapP!ExportKilled, Snap!Call, SnapP!Call, Snap!Off,
       SnapP!Off, Snap!Nothing, SnapP!Nothing, Snap!Items, SnapP!Items, Snap!Listed,
       SnapP!Listed
  <1>11. Snap!PruneStarts <=> SnapP!PruneStarts
    BY DEF Snap!PruneStarts, SnapP!PruneStarts, Snap!Deletable, SnapP!Deletable,
       Snap!Marked, SnapP!Marked, Snap!NewerMarked, SnapP!NewerMarked, Snap!Cardinality,
       SnapP!Cardinality
  <1>12. Snap!PruneRemoves <=> SnapP!PruneRemoves
    BY DEF Snap!PruneRemoves, SnapP!PruneRemoves
  <1>13. Snap!PruneKilled <=> SnapP!PruneKilled
    BY SMTT(30) DEF Snap!PruneKilled, SnapP!PruneKilled, Snap!Call, SnapP!Call
  <1>14. Snap!Edit <=> SnapP!Edit
    BY DEF Snap!Edit, SnapP!Edit, Snap!Items, SnapP!Items, Snap!Listed, SnapP!Listed,
       Snap!Written, SnapP!Written
  <1> QED BY <1>1, <1>2, <1>3, <1>4, <1>5, <1>6, <1>7, <1>8, <1>9, <1>10, <1>11, <1>12, <1>13, <1>14
     DEF Snap!Next, SnapP!Next

\* What ExportSnapshot promises is the same in both copies.
LEMMA SameSnapPromise ==
  /\ Snap!SnapshotTypeOK <=> SnapP!SnapshotTypeOK
  /\ Snap!VerifiedIsMoment <=> SnapP!VerifiedIsMoment
  /\ Snap!NewestVerifiedWhole <=> SnapP!NewestVerifiedWhole
  <1>1. Snap!SnapshotTypeOK <=> SnapP!SnapshotTypeOK
    BY DEF Snap!SnapshotTypeOK, SnapP!SnapshotTypeOK, Snap!Items, SnapP!Items, Snap!Listed,
       SnapP!Listed
  <1>2. Snap!VerifiedIsMoment <=> SnapP!VerifiedIsMoment
    BY DEF Snap!VerifiedIsMoment, SnapP!VerifiedIsMoment
  <1>3. Snap!NewestVerifiedWhole <=> SnapP!NewestVerifiedWhole
    BY SMTT(30) DEF Snap!NewestVerifiedWhole, SnapP!NewestVerifiedWhole, Snap!Marked, SnapP!Marked,
       Snap!NewerMarked, SnapP!NewerMarked, Snap!Cardinality, SnapP!Cardinality
  <1> QED BY <1>1, <1>2, <1>3

\* VaultSync, with its proofs and without.
LEMMA SameSyncInit == Sync!Init <=> SyncP!Init
  BY SMTT(30) DEF Sync!Init, SyncP!Init, Sync!Files, SyncP!Files, Sync!Idle, SyncP!Idle

\* A step of VaultSync is the same step in both copies.
LEMMA SameSyncNext == Sync!Next <=> SyncP!Next
  BY DEF Sync!Next, SyncP!Next, Sync!StartTask, SyncP!StartTask, Sync!Start, SyncP!Start,
     Sync!Becomes, SyncP!Becomes, Sync!Idle, SyncP!Idle, Sync!Files, SyncP!Files,
     Sync!environment, SyncP!environment, Sync!StartByHand, SyncP!StartByHand, Sync!RunStep,
     SyncP!RunStep, Sync!ProbeLock, SyncP!ProbeLock, Sync!LockHeld, SyncP!LockHeld,
     Sync!Alive, SyncP!Alive, Sync!TakeLock, SyncP!TakeLock, Sync!ReadVault,
     SyncP!ReadVault, Sync!Diff, SyncP!Diff, Sync!Replies, SyncP!Replies, Sync!Faulty,
     SyncP!Faulty, Sync!Planned, SyncP!Planned, Sync!At, SyncP!At, Sync!AlreadyResolved,
     SyncP!AlreadyResolved, Sync!ResolvedAsCopy, SyncP!ResolvedAsCopy, Sync!DatedCopyName,
     SyncP!DatedCopyName, Sync!Aborted, SyncP!Aborted, Sync!PostJob, SyncP!PostJob,
     Sync!Acts, SyncP!Acts, Sync!Throws, SyncP!Throws, Sync!Disturb, SyncP!Disturb,
     Sync!PutFile, SyncP!PutFile, Sync!Put, SyncP!Put, Sync!AddJobFileIfAbsent,
     SyncP!AddJobFileIfAbsent, Sync!Answered, SyncP!Answered, Sync!Store, SyncP!Store,
     Sync!Held, SyncP!Held, Sync!PutCopy, SyncP!PutCopy, Sync!Pushed, SyncP!Pushed,
     Sync!Verify, SyncP!Verify, Sync!Contained, SyncP!Contained, Sync!ReportRun,
     SyncP!ReportRun, Sync!RemoveLock, SyncP!RemoveLock, Sync!Killed, SyncP!Killed,
     Sync!EditVault, SyncP!EditVault, Sync!Edit, SyncP!Edit, Sync!EditCloud, SyncP!EditCloud

\* What VaultSync promises is the same in both copies.
LEMMA SameSyncPromise ==
  /\ Sync!SyncTypeOK <=> SyncP!SyncTypeOK
  /\ Sync!ExitTellsTruth <=> SyncP!ExitTellsTruth
  <1>1. Sync!SyncTypeOK <=> SyncP!SyncTypeOK
    BY SMTT(30) DEF Sync!SyncTypeOK, SyncP!SyncTypeOK, Sync!Files, SyncP!Files, Sync!CloudFiles,
       SyncP!CloudFiles
  <1>2. Sync!ExitTellsTruth <=> SyncP!ExitTellsTruth
    BY DEF Sync!ExitTellsTruth, SyncP!ExitTellsTruth, Sync!Files, SyncP!Files, Sync!OnCloud,
       SyncP!OnCloud, Sync!At, SyncP!At, Sync!ResolvedAsCopy, SyncP!ResolvedAsCopy
  <1> QED BY <1>1, <1>2

\* What a step of VaultSync may not do is the same in both copies.
LEMMA SameOnlyInserts == Sync!OnlyInserts <=> SyncP!OnlyInserts
  BY DEF Sync!OnlyInserts, SyncP!OnlyInserts

-----------------------------------------------------------------------------
(***************************************************************************)
(* The invariant of each machine, as long as it is the one that runs.      *)
(***************************************************************************)
TranscriptHolds == machine = "transcript" => Transcript!ProgressInv
SnapHolds == machine = "snapshot" => SnapP!SnapshotInv
SyncHolds == machine = "sync" => SyncP!SyncInv /\ SyncP!EditsNatural
MigHolds == machine = "migrate" => Mig!MoveInv
PacksHold == machine = "packs" => Packs!ReuseInv
DeskHolds == machine = "desk" => Desk!DeskInv
DemoHolds == machine = "demo" => Demo!DemoInv
FeedHolds == machine = "feed" => Feed!FeedInv
AuthHolds == machine = "auth" => Auth!AuthInv
TicketsHold == machine = "tickets" => TaskList!BoardInv
FilesHold == machine = "files" => Folder!FilesInv
SpendHolds == machine = "apify" => Apify!SpendInv
BridgeHolds == machine = "bridge" => Bridge!BridgeInv
NightHolds == machine = "night" => Night!NightInv
PanelHolds == machine = "panel" => Panel!PanelInv
SrcHolds == machine = "sources" => Src!SourcesInv

\* What the modules' proofs assume is what ServerAssumption says.
LEMMA MachineAssumptions ==
  SnapP!SnapshotAssumption /\ SyncP!SyncAssumption
  <1>1. SnapP!SnapshotAssumption
    BY ServerAssumption DEF SnapP!SnapshotAssumption, SnapP!Listed
  <1>2. SyncP!SyncAssumption
    BY ServerAssumption DEF SyncP!SyncAssumption
  <1> QED BY <1>1, <1>2

\* A machine that runs starts as its module says, and the choice of machine stays.
LEMMA MachineInit ==
  ServerInit => /\ machine = "transcript" => Transcript!Init
                /\ machine = "snapshot" => Snap!Init
                /\ machine = "sync" => Sync!Init
                /\ machine = "migrate" => Mig!MigrateInit
                /\ machine = "packs" => Packs!Init
                /\ machine = "desk" => Desk!SrcInit
                /\ machine = "demo" => Demo!DemoInit
                /\ machine = "feed" => Feed!FeedInit
                /\ machine = "auth" => Auth!AuthInit
                /\ machine = "tickets" => TaskList!BoardInit
                /\ machine = "files" => Folder!FilesInit
                /\ machine = "apify" => Apify!ApifyInit
                /\ machine = "bridge" => Bridge!BridgeInit
                /\ machine = "night" => Night!NightInit
                /\ machine = "panel" => Panel!Init
                /\ machine = "sources" => Src!Init
  BY SMTT(30) DEF ServerInit, RunsInit

\* The machine that was chosen is the one that takes every step.
LEMMA MachineStep ==
  [ServerNext]_serverVars =>
    /\ machine' = machine
    /\ machine = "transcript" => [Transcript!Next]_(Transcript!vars)
    /\ machine = "snapshot" => [Snap!Next]_(SnapP!vars)
    /\ machine = "sync" => [Sync!Next]_(SyncP!vars)
    /\ machine = "migrate" => [Mig!MigrateNext]_(Mig!migrateVars)
    /\ machine = "packs" => [Packs!Next]_(Packs!packVars)
    /\ machine = "desk" => [Desk!SrcNext]_(Desk!srcVars)
    /\ machine = "demo" => [Demo!DemoNext]_(Demo!demoVars)
    /\ machine = "feed" => [Feed!FeedNext]_(Feed!feedVars)
    /\ machine = "auth" => [Auth!AuthNext]_(Auth!authVars)
    /\ machine = "tickets" => [TaskList!BoardNext]_(TaskList!boardVars)
    /\ machine = "files" => [Folder!FilesNext]_(Folder!filesVars)
    /\ machine = "apify" => [Apify!ApifyNext]_(Apify!apifyVars)
    /\ machine = "bridge" => [Bridge!BridgeNext]_(Bridge!bridgeVars)
    /\ machine = "night" => [Night!NightNext]_(Night!nightVars)
    /\ machine = "panel" => [Panel!Next]_(Panel!vars)
    /\ machine = "sources" => [Src!Next]_(Src!vars)
  BY DEF ServerNext, RunsNext, serverVars, Panel!vars, Src!vars, Transcript!vars, SnapP!vars, SyncP!vars, Mig!migrateVars,
     Packs!packVars, Desk!srcVars, Demo!demoVars, Feed!feedVars, Auth!authVars,
     TaskList!boardVars, Folder!filesVars, Apify!apifyVars, Bridge!bridgeVars, Night!nightVars

\* Every machine's invariant holds of the state it starts in.
LEMMA HoldsAtFirst ==
  ServerInit => /\ TranscriptHolds /\ SnapHolds /\ SyncHolds /\ MigHolds
                /\ PacksHold /\ DeskHolds /\ DemoHolds /\ FeedHolds /\ AuthHolds
                /\ TicketsHold /\ FilesHold /\ SpendHolds /\ BridgeHolds /\ NightHolds
                /\ PanelHolds /\ SrcHolds
  <1>1. ServerInit => TranscriptHolds /\ SnapHolds /\ SyncHolds /\ MigHolds
    BY MachineInit, MachineAssumptions, SameSnapInit, SameSyncInit, LinesAssumption, MoveAssumption,
       ProgressInitInv, SnapP!SnapshotInitInv, SyncP!SyncInitInv, SyncP!NoEditsAtFirst, MoveInitInv
       DEF TranscriptHolds, SnapHolds, SyncHolds, MigHolds
  <1>2. ServerInit => PacksHold /\ DeskHolds /\ DemoHolds
    BY MachineInit, ReuseAtFirst, DeskAtFirst, DemoAtFirst DEF PacksHold, DeskHolds, DemoHolds
  <1>3. ServerInit => FeedHolds /\ AuthHolds
    BY MachineInit, FeedAtFirst, AuthAtFirst DEF FeedHolds, AuthHolds
  <1>4. ServerInit => TicketsHold /\ FilesHold
    BY MachineInit, PartsAssumption, BoardAtFirst, FilesAtFirst DEF TicketsHold, FilesHold
  <1>5. ServerInit => SpendHolds /\ BridgeHolds /\ NightHolds
    BY MachineInit, SpendAtFirst, BridgeAtFirst, NightAtFirst DEF SpendHolds, BridgeHolds, NightHolds
  <1>6. ServerInit => PanelHolds /\ SrcHolds
    BY MachineInit, PanelStart, SourcesStart DEF PanelHolds, SrcHolds
  <1> QED BY <1>1, <1>2, <1>3, <1>4, <1>5, <1>6

\* The transcript's invariant outlives every step, while no line is dropped.
LEMMA TranscriptStays == ~Capped /\ TranscriptHolds /\ [ServerNext]_serverVars => TranscriptHolds'
  BY MachineStep, LinesAssumption, ProgressStepInv DEF TranscriptHolds

\* The invariant of the snapshots outlives every step.
LEMMA SnapStays == SnapHolds /\ [ServerNext]_serverVars => SnapHolds'
  BY MachineStep, MachineAssumptions, SameSnapNext, SnapP!SnapshotStepInv DEF SnapHolds

\* The invariant of the pushes outlives every step.
LEMMA SyncStays == SyncHolds /\ [ServerNext]_serverVars => SyncHolds'
  BY MachineStep, MachineAssumptions, SameSyncNext, SyncP!SyncStepInv, SyncP!EditsCounted DEF SyncHolds

\* The invariant of the moves outlives every step.
LEMMA MigStays == MigHolds /\ [ServerNext]_serverVars => MigHolds'
  BY MachineStep, MoveAssumption, MoveStepInv DEF MigHolds

\* The invariant of the track packs outlives every step.
LEMMA PacksStay == PacksHold /\ [ServerNext]_serverVars => PacksHold'
  BY MachineStep, PartsAssumption, ReuseStays DEF PacksHold, Packs!Counts

\* The invariant of a source and its desk outlives every step.
LEMMA DeskKeeps == DeskHolds /\ [ServerNext]_serverVars => DeskHolds'
  BY MachineStep, DeskStays DEF DeskHolds

\* The invariant of the demo outlives every step.
LEMMA DemoKeeps == DemoHolds /\ [ServerNext]_serverVars => DemoHolds'
  BY MachineStep, DemoStays DEF DemoHolds

\* The invariant of the activity log outlives every step.
LEMMA FeedKeeps == FeedHolds /\ [ServerNext]_serverVars => FeedHolds'
  BY MachineStep, FeedStays DEF FeedHolds

\* The invariant of the failed logins outlives every step.
LEMMA AuthKeeps == AuthHolds /\ [ServerNext]_serverVars => AuthHolds'
  BY MachineStep, AuthStays DEF AuthHolds

\* The invariant of the tickets outlives every step.
LEMMA TicketsStay == TicketsHold /\ [ServerNext]_serverVars => TicketsHold'
  BY MachineStep, PartsAssumption, BoardStays DEF TicketsHold

\* The invariant of a job's files outlives every step.
LEMMA FilesKeep == FilesHold /\ [ServerNext]_serverVars => FilesHold'
  <1>1. LocalRoutines \subseteq Folder!Routines
    BY PartsAssumption DEF Folder!Routines
  <1> QED BY <1>1, MachineStep, FilesStay DEF FilesHold

\* The invariant of the paid scrapes outlives every step.
LEMMA SpendKeeps == SpendHolds /\ [ServerNext]_serverVars => SpendHolds'
  BY MachineStep, SpendStays DEF SpendHolds

\* The invariant of the calls to the database's thread outlives every step.
LEMMA BridgeKeeps == BridgeHolds /\ [ServerNext]_serverVars => BridgeHolds'
  BY MachineStep, BridgeStays DEF BridgeHolds

\* The invariant of the nights outlives every step.
LEMMA NightKeeps == NightHolds /\ [ServerNext]_serverVars => NightHolds'
  BY MachineStep, NightStays DEF NightHolds

\* The invariant of the panel outlives every step.
LEMMA PanelKeeps == PanelHolds /\ [ServerNext]_serverVars => PanelHolds'
  BY MachineStep, PanelStays DEF PanelHolds

\* The invariant of the sources' runs outlives every step.
LEMMA SrcKeeps == SrcHolds /\ [ServerNext]_serverVars => SrcHolds'
  BY MachineStep, SourcesStay DEF SrcHolds

\* A step takes nothing back, in the machines that keep something.
LEMMA StepTakesNothingBack ==
  ASSUME SyncHolds, DeskHolds, FeedHolds, TicketsHold, FilesHold, [ServerNext]_serverVars
  PROVE  /\ machine = "sync" => Sync!OnlyInserts
         /\ machine = "desk" => Desk!StaysResolved
         /\ machine = "feed" => Feed!OutcomeStands
         /\ machine = "tickets" => TaskList!HistoryKept
         /\ machine = "files" => Folder!FilesStand
  <1>1. ASSUME machine = "sync" PROVE Sync!OnlyInserts
    <2>1. [SyncP!Next]_(SyncP!vars) /\ SyncP!SyncInv /\ SyncP!EditsNatural
      BY <1>1, MachineStep, SameSyncNext DEF SyncHolds
    <2>2. SyncP!OnlyInserts \/ UNCHANGED SyncP!vars
      BY <2>1, MachineAssumptions, SyncP!StepOnlyInserts
    <2>3. UNCHANGED SyncP!vars => SyncP!OnlyInserts
      BY DEF SyncP!vars, SyncP!OnlyInserts
    <2> QED BY <2>2, <2>3, SameOnlyInserts
  <1>2. ASSUME machine = "desk" PROVE Desk!StaysResolved
    BY <1>2, MachineStep, ResolvedStays DEF DeskHolds
  <1>3. ASSUME machine = "feed" PROVE Feed!OutcomeStands
    BY <1>3, MachineStep, FeedStays DEF FeedHolds
  <1>4. ASSUME machine = "tickets" PROVE TaskList!HistoryKept
    BY <1>4, MachineStep, PartsAssumption, BoardStays DEF TicketsHold
  <1>5. ASSUME machine = "files" PROVE Folder!FilesStand
    <2>1. LocalRoutines \subseteq Folder!Routines
      BY PartsAssumption DEF Folder!Routines
    <2> QED BY <1>5, <2>1, MachineStep, FilesStay DEF FilesHold
  <1> QED BY <1>1, <1>2, <1>3, <1>4, <1>5

-----------------------------------------------------------------------------
(***************************************************************************)
(* What the run checks, for every value of the constants.                  *)
(***************************************************************************)
\* No line of a transcript is shown twice, and a closed run shows every line of its
\* row, while the store keeps all lines (PgStore; appendAgentJobProgress and
\* foldRunnerProgress of server/index.js).
THEOREM TranscriptOfServer ==
  ASSUME ~Capped
  PROVE  ServerSpec => []TranscriptIsWhole
  <1>1. TranscriptHolds => TranscriptIsWhole
    BY LinesAssumption, TranscriptFacts DEF TranscriptHolds, TranscriptIsWhole
  <1> QED BY <1>1, HoldsAtFirst, TranscriptStays, PTL DEF ServerSpec

\* A snapshot marked VERIFIED is one moment of the cloud, and pruning leaves the newest
\* ones whole (runExportSnapshot and runPrune of ops/export-snapshot.mjs).
THEOREM SnapshotsOfServer == ServerSpec => []SnapshotsAreMoments
  <1>1. SnapHolds => SnapshotsAreMoments
    BY MachineAssumptions, SameSnapPromise, SnapP!SnapshotFacts DEF SnapHolds, SnapshotsAreMoments
  <1> QED BY <1>1, HoldsAtFirst, SnapStays, PTL DEF ServerSpec

\* The exit code of a push tells the truth (main of ops/sync-data.mjs), and so does the
\* match that a move into Postgres reports (main of ops/migrate-data.mjs).
THEOREM ExitCodesOfServer == ServerSpec => []SyncTellsTruth
  <1>1. SyncHolds /\ MigHolds => SyncTellsTruth
    BY MachineAssumptions, MoveAssumption, SameSyncPromise, SyncP!SyncFacts, MoveFacts
       DEF SyncHolds, MigHolds, SyncTellsTruth
  <1> QED BY <1>1, HoldsAtFirst, SyncStays, MigStays, PTL DEF ServerSpec

\* The reuse that a result records is that of the lookups its own row made, whatever
\* restarts, resets and late agents come between (noteTrackPackSignal and the posted
\* result of server/index.js).
THEOREM ReuseOfServer == ServerSpec => []ReuseIsTold
  <1>1. PacksHold => ReuseIsTold
    BY DEF PacksHold, ReuseIsTold, Packs!ReuseIsTold, Packs!ReuseInv, Packs!Within
  <1> QED BY <1>1, HoldsAtFirst, PacksStay, PTL DEF ServerSpec

\* Instructions said to be those of a proposal are, and it was approved (the proposals of
\* server/index.js), and what a job of the demo holds is of the seed, of a visitor or of a
\* replay (server/seed-demo.mjs, server/demo.js).
THEOREM ProvenanceOfServer == ServerSpec => []ProvenanceIsTrue
  <1>1. DeskHolds /\ DemoHolds => ProvenanceIsTrue
    BY DEF DeskHolds, DemoHolds, ProvenanceIsTrue, Desk!ProvenanceIsTrue, Desk!DeskInv,
       Demo!DemoInv
  <1> QED BY <1>1, HoldsAtFirst, DeskKeeps, DemoKeeps, PTL DEF ServerSpec

\* After a boot no run of a dead process is told to be running, however the process died,
\* lines were lost and a reconcile by hand raced it (the boot of server/index.js and
\* ops/reconcile-core.mjs).
THEOREM NothingDanglesOfServer == ServerSpec => []NothingDangles
  <1>1. FeedHolds => NothingDangles
    BY DEF FeedHolds, NothingDangles, Feed!FeedInv
  <1> QED BY <1>1, HoldsAtFirst, FeedKeeps, PTL DEF ServerSpec

\* The bell counts the failures there were (createFailedLoginMonitor of server/auth.js and
\* deriveAuthEvents), and marks what came after it was read, and nothing else (the
\* notifications of server/index.js).
THEOREM BellOfServer == ServerSpec => []BellTellsTruth
  <1>1. FeedHolds /\ AuthHolds => BellTellsTruth
    BY BellTold, FailuresTold DEF FeedHolds, AuthHolds, BellTellsTruth
  <1> QED BY <1>1, HoldsAtFirst, FeedKeeps, AuthKeeps, PTL DEF ServerSpec

\* A ticket is completed exactly when it is done, on a day that has come, and the images it
\* records are on disk or in the table (PATCH /api/tasks and the attachments of
\* server/index.js), whatever edits by hand and failed writes come between.
THEOREM TicketsOfServer == ServerSpec => []TicketsAreWhole
  <1>1. TicketsHold => TicketsAreWhole
    BY DEF TicketsHold, TicketsAreWhole, TaskList!BoardInv
  <1> QED BY <1>1, HoldsAtFirst, TicketsStay, PTL DEF ServerSpec

\* The paid scrapes of a month stay within its cap, but for those that the histories have
\* lost (countApifyRunsThisMonth and launchSourceRun of server/index.js), through restarts
\* and sources that are removed and added again; and until the first of those no source is
\* paid for twice at a time.
THEOREM SpendOfServer == ServerSpec => []SpendWithinCap
  <1>1. SpendHolds => SpendWithinCap
    BY DEF SpendHolds, SpendWithinCap, Apify!SpendInv, Apify!EveryRunIsCounted
  <1> QED BY <1>1, HoldsAtFirst, SpendKeeps, PTL DEF ServerSpec

\* A closed run of the panel tells what became of its agent job (syncRunnerRoutedRun, StopRun
\* and the closes of server/index.js), a record of a source what became of its agent; what a
\* handler is told became of its statements did, until a call times out, and a transaction is
\* stored whole or not at all, also after that (server/pg-sync.js, server/pg-worker.js); and a
\* night that the server saw from its midnight is run and told of, once unless the clocks
\* changed (runAutoDraftScheduler and its timer in server/index.js).
THEOREM OutcomesOfServer == ServerSpec => []OutcomesAreTold
  <1>1. PanelHolds /\ SrcHolds /\ BridgeHolds /\ NightHolds => OutcomesAreTold
    BY PanelHold, SourcesHold, BridgeFacts, NightFacts
       DEF PanelHolds, SrcHolds, BridgeHolds, NightHolds, OutcomesAreTold
  <1> QED BY <1>1, HoldsAtFirst, PanelKeeps, SrcKeeps, BridgeKeeps, NightKeeps, PTL DEF ServerSpec

\* A posting becomes a job once, however often results repeat it (ingestSourceRun of
\* server/index.js); a domain is imported once, with all the others (main of
\* ops/migrate-data.mjs); a job waits for one draft at a time (runAutoDraftScheduler).
THEOREM FiledOnceOfServer == ServerSpec => []FiledOnce
  <1>1. SrcHolds /\ MigHolds /\ NightHolds => FiledOnce
    BY SourcesHold, MoveAssumption, MoveFacts, NightFacts DEF SrcHolds, MigHolds, NightHolds, FiledOnce
  <1> QED BY <1>1, HoldsAtFirst, SrcKeeps, MigStays, NightKeeps, PTL DEF ServerSpec

\* No two moves fill the tables, the check for empty tables waived or not: what FiledOnce
\* says of the move, and more.
THEOREM MovesOfServer ==
  ServerSpec => [](machine = "migrate" => Mig!ImportedOnce /\ Mig!OneFills)
  <1>1. MigHolds => (machine = "migrate" => Mig!ImportedOnce /\ Mig!OneFills)
    BY MoveAssumption, MoveFacts DEF MigHolds
  <1> QED BY <1>1, HoldsAtFirst, MigStays, PTL DEF ServerSpec

\* A queued routine and a due source wait behind no idle slot, and neither runs twice at a
\* time, in the server as in the run of MCRuns.
THEOREM SlotsOfServer == ServerSpec => [](OneAtATime /\ NoneWaitsIdle)
  <1>1. PanelHolds /\ SrcHolds => OneAtATime /\ NoneWaitsIdle
    BY PanelHold, SourcesHold DEF PanelHolds, SrcHolds, OneAtATime, NoneWaitsIdle
  <1> QED BY <1>1, HoldsAtFirst, PanelKeeps, SrcKeeps, PTL DEF ServerSpec

\* The automation moves a job's status only forward, and on the evidence of a run that
\* closes with exit code 0 (maybeAutoAdvanceJob of server/index.js), through every drain of
\* the queue and every reconcile that closes several runs in one step.
THEOREM AdvancesOfServer == ServerSpec => AdvancesOnEvidence
  <1> DEFINE A == machine = "panel" => Panel!MovesOnEvidence
             Inv == PanelHolds
  <1>1. ServerInit => Inv
    BY HoldsAtFirst
  <1>2. Inv /\ [ServerNext]_serverVars => Inv'
    BY PanelKeeps
  <1>3. Inv /\ [ServerNext]_serverVars => [A]_serverVars
    BY MachineStep, PanelStays DEF PanelHolds
  <1>4. [][A]_serverVars => AdvancesOnEvidence
    BY DEF AdvancesOnEvidence
  <1> HIDE DEF A, Inv
  <1> QED BY <1>1, <1>2, <1>3, <1>4, PTL DEF ServerSpec

\* A record of a source that says running over a delivered result is closed only with its
\* finds filed (finalizeSourceRun and the sweep of server/index.js), whatever crashes between
\* the row and the record.
THEOREM FindsOfServer == ServerSpec => FindsNotLost
  <1> DEFINE A == machine = "sources" => Src!ClosesWithFinds
             Inv == SrcHolds
  <1>1. ServerInit => Inv
    BY HoldsAtFirst
  <1>2. Inv /\ [ServerNext]_serverVars => Inv'
    BY SrcKeeps
  <1>3. Inv /\ [ServerNext]_serverVars => [A]_serverVars
    BY MachineStep, SourcesStay DEF SrcHolds
  <1>4. [][A]_serverVars => FindsNotLost
    BY DEF FindsNotLost
  <1> HIDE DEF A, Inv
  <1> QED BY <1>1, <1>2, <1>3, <1>4, PTL DEF ServerSpec

\* A sync never changes or removes what the cloud holds (addJobFileIfAbsent and the posted
\* job), a proposal once approved or rejected stays so while its source exists, the outcome
\* of a run that was logged stays its outcome, tickets with their comments and requests stay
\* until they are deleted, and of a job's files only those are replaced that may be.
THEOREM NothingTakenBackOfServer == ServerSpec => NothingTakenBack
  <1> DEFINE A == /\ machine = "sync" => Sync!OnlyInserts
                  /\ machine = "desk" => Desk!StaysResolved
                  /\ machine = "feed" => Feed!OutcomeStands
                  /\ machine = "tickets" => TaskList!HistoryKept
                  /\ machine = "files" => Folder!FilesStand
             Inv == SyncHolds /\ DeskHolds /\ FeedHolds /\ TicketsHold /\ FilesHold
  <1>1. ServerInit => Inv
    BY HoldsAtFirst
  <1>2. Inv /\ [ServerNext]_serverVars => Inv'
    BY SyncStays, DeskKeeps, FeedKeeps, TicketsStay, FilesKeep
  <1>3. Inv /\ [ServerNext]_serverVars => [A]_serverVars
    BY StepTakesNothingBack
  <1>4. [][A]_serverVars => NothingTakenBack
    BY DEF NothingTakenBack
  <1> HIDE DEF A, Inv
  <1> QED BY <1>1, <1>2, <1>3, <1>4, PTL DEF ServerSpec

=============================================================================

------------------------------ MODULE MCLiveness ------------------------------
(***************************************************************************)
(* The parts that owe progress, each under the fairness its module states, *)
(* checked in one run.  As in MCServer, a behaviour is one of the machine  *)
(* chosen in LivenessInit, and v1, v2, ... are that machine's variables.   *)
(* Fairness and properties are those of the modules with the machine named *)
(* in every action and every state predicate: of another machine they say  *)
(* nothing.                                                                *)
(***************************************************************************)
EXTENDS Integers

CONSTANTS
  Runs, Task, Jobs, Names, Bytes, UnsafeNames, Absent, RowText, MaxCopies, MaxFaults,
  MaxByHand, MaxVaultEdits,                                     \* VaultSync
  Addresses, Quiet, MaxFailures, Threshold, DurableCap, TailLines, WindowTicks,
  MaxBad, MaxWindows, MaxOther, MaxBoots,                       \* AuthFailures
  Tabs, MinCredentials, MaxCredentials, MaxEnrolments,          \* SignIn
  DeskTabs, DeskTasks, NoTask, SnoozeDays, UnloadSurvived, MaxResolves, MaxEdits,
  MaxLoads, MaxFails, MaxDays,                                  \* Decisions
  MaxWrites, MaxDrops, MaxHides, MaxErrors,                     \* LiveView
  PanelJobs, Dispatch, MaxRunning, PanelInflight, MaxAttempts, BatchSizes, MaxRuns,
  MaxRows, OwnerEdits, DraftGaps,                               \* RunPanel
  Sources, Links, Dispatches, SourceInflight, MaxScrapes,       \* SourceRuns
  DockRuns, DockBatch, Vias, NotFoundStreak, MaxRequeues        \* RunDock

VARIABLES
  machine,   \* which one runs
  v1, v2, v3, v4, v5, v6, v7, v8, v9

livenessVars == <<machine, v1, v2, v3, v4, v5, v6, v7, v8, v9>>

Sync == INSTANCE VaultSync WITH
  MaxEdits <- MaxVaultEdits, vaultRow <- v1, vault <- v2, cloudRow <- v3, cloud <- v4,
  lock <- v5, run <- v6, edits <- v7, faults <- v8, byHand <- v9

Auth == INSTANCE AuthFailures WITH
  gate <- v1, monitor <- v2, log <- v3, waiting <- v4, real <- v5, spent <- v6

Sign == INSTANCE SignIn WITH
  cookies <- v1, credentials <- v2, challenges <- v3, gate <- v4, busy <- v5, doing <- v6,
  app <- v7, left <- v8

Desk == INSTANCE Decisions WITH
  Tabs <- DeskTabs, Tasks <- DeskTasks,
  board <- v1, tab <- v2, wire <- v3, today <- v4, fate <- v5, used <- v6

Live == INSTANCE LiveView WITH
  sse <- v1, stream <- v2, hidden <- v3, up <- v4, version <- v5, shown <- v6,
  answers <- v7, debounce <- v8, times <- v9

Panel == INSTANCE RunPanel WITH
  Jobs <- PanelJobs, MaxInflight <- PanelInflight, panel <- v1, launched <- v2

Src == INSTANCE SourceRuns WITH MaxInflight <- SourceInflight, dispatch <- v1, state <- v2

Dock == INSTANCE RunDock WITH
  Runs <- DockRuns, BatchRuns <- DockBatch,
  runs <- v1, seen <- v2, laptop <- v3, dock <- v4, batch <- v5, count <- v6

LivenessInit ==
  \/ machine = "sync" /\ Sync!Init
  \/ machine = "auth" /\ Auth!AuthInit /\ v7 = 0 /\ v8 = 0 /\ v9 = 0
  \/ machine = "sign" /\ Sign!SignInit /\ v9 = 0
  \/ machine = "desk" /\ Desk!DeskInit /\ v7 = 0 /\ v8 = 0 /\ v9 = 0
  \/ machine = "live" /\ Live!LiveInit
  \/ machine = "panel" /\ Panel!Init /\ v3 = 0 /\ v4 = 0 /\ v5 = 0 /\ v6 = 0 /\ v7 = 0 /\ v8 = 0 /\ v9 = 0
  \/ machine = "sources" /\ Src!Init /\ v3 = 0 /\ v4 = 0 /\ v5 = 0 /\ v6 = 0 /\ v7 = 0 /\ v8 = 0 /\ v9 = 0
  \/ machine = "dock" /\ Dock!DockInit /\ v7 = 0 /\ v8 = 0 /\ v9 = 0

LivenessNext ==
  \/ machine = "sync" /\ Sync!Next /\ UNCHANGED machine
  \/ machine = "auth" /\ Auth!AuthNext /\ UNCHANGED <<machine, v7, v8, v9>>
  \/ machine = "sign" /\ Sign!SignNext /\ UNCHANGED <<machine, v9>>
  \/ machine = "desk" /\ Desk!DeskNext /\ UNCHANGED <<machine, v7, v8, v9>>
  \/ machine = "live" /\ Live!LiveNext /\ UNCHANGED machine
  \/ machine = "panel" /\ Panel!Next /\ UNCHANGED <<machine, v3, v4, v5, v6, v7, v8, v9>>
  \/ machine = "sources" /\ Src!Next /\ UNCHANGED <<machine, v3, v4, v5, v6, v7, v8, v9>>
  \/ machine = "dock" /\ Dock!DockNext /\ UNCHANGED <<machine, v7, v8, v9>>

-----------------------------------------------------------------------------
(***************************************************************************)
(* The fairness of each module.                                            *)
(***************************************************************************)
SyncFairness ==
  /\ WF_<<v6>>(machine = "sync" /\ Sync!StartTask)
  /\ \A i \in Runs : WF_<<v6>>(machine = "sync" /\ Sync!RunStep(i))

AuthFairness ==
  /\ WF_<<v1, v2>>(machine = "auth" /\ Auth!Tick)
  /\ \A ip \in Addresses : WF_<<v4>>(machine = "auth" /\ Auth!Served(ip))

SignFairness ==
  /\ \A t \in Tabs :
       /\ WF_<<v4, v5, v7>>(machine = "sign" /\ Sign!Page(t))
       /\ SF_<<v4>>(machine = "sign" /\ Sign!StartOver(t))
       /\ SF_<<v6>>(machine = "sign" /\ Sign!Submit(<<t, 1>>))
       /\ SF_<<v6>>(machine = "sign" /\ Sign!UsePasskey(<<t, 1>>))
  /\ \A c \in Tabs \X {1, 2} : WF_<<v6>>(machine = "sign" /\ Sign!Ceremony(c))

DeskFairness ==
  /\ \A b \in DeskTabs, t \in DeskTasks : WF_<<v2>>(machine = "desk" /\ Desk!Flush(b, t))
  /\ WF_<<v3>>(machine = "desk" /\ \E m \in v3 : Desk!ServePatch(m) \/ Desk!PatchFails(m))
  /\ WF_<<v3>>(machine = "desk" /\ \E m \in v3 : Desk!ServeGet(m) \/ Desk!Arrives(m))

LiveFairness ==
  /\ WF_<<v2>>(machine = "live" /\ Live!SetStreamAvailability)
  /\ WF_<<v2>>(machine = "live" /\ Live!StreamOpens)
  /\ WF_<<v2>>(machine = "live" /\ Live!ReconnectTimer)
  /\ WF_<<v8>>(machine = "live" /\ Live!DebouncedReload)
  /\ \A c \in {"feed", "sources"} : SF_<<v7>>(machine = "live" /\ Live!Poll(c))
  /\ \A c \in {"feed", "sources"}, n \in 0..(MaxWrites + 1) :
       WF_<<v7>>(machine = "live" /\ Live!Arrives([of |-> c, version |-> n]))

PanelFairness ==
  /\ WF_<<v1, v2>>(machine = "panel" /\ Panel!PollBatch)
  /\ \A k \in 1..MaxRows :
       /\ WF_<<v1, v2>>(machine = "panel" /\ k \in DOMAIN v1.rows /\ Panel!RunnerClaims(k))
       /\ WF_<<v1, v2>>(machine = "panel" /\ k \in DOMAIN v1.rows
            /\ (Panel!LeaseSwept(k) \/ \E done \in BOOLEAN : Panel!RunnerReports(k, done)))

SourcesFairness ==
  /\ WF_<<v1, v2>>(machine = "sources" /\ Src!GetSources)
  /\ WF_<<v1, v2>>(machine = "sources" /\ v2.reads # <<>> /\ Src!DiscoveryRead(1))
  /\ \A i \in 1..MaxScrapes :
       /\ WF_<<v1, v2>>(machine = "sources" /\ i \in DOMAIN v2.scrapes /\ Src!GetsOld(i))
       /\ WF_<<v1, v2>>(machine = "sources" /\ i \in DOMAIN v2.scrapes
            /\ \E exit0 \in BOOLEAN : Src!ProcCloses(i, exit0))

DockFairness ==
  \A r \in DockRuns :
    /\ WF_<<v1, v4>>(machine = "dock" /\ Dock!Poll(r))
    /\ WF_<<v4>>(machine = "dock" /\ Dock!Arrives(r))

LivenessSpec == LivenessInit /\ [][LivenessNext]_livenessVars

-----------------------------------------------------------------------------
(***************************************************************************)
(* What the run checks, each under the fairness it rests on.               *)
(***************************************************************************)
\* VaultSync: again and again every file of the vault is on the cloud or reported,
\* whatever was killed, locked or lost in between.
SyncAccounts == SyncFairness => []<>(machine = "sync" => Sync!Accounted)

\* AuthFailures: a client with the right token is served in the end, though the
\* failures of others had its address blocked.
ServedAgain ==
  AuthFairness => \A ip \in Addresses : []<>(machine = "auth" => ~Auth!Waits(ip))

\* SignIn: no state of the gate is a dead end, whatever the tabs do to the cookies
\* they share and whenever these expire.
EveryTabGetsIn ==
  SignFairness => \A t \in Tabs : <>[](machine = "sign" => Sign!IsIn(t))

\* Decisions: what waits for the owner is in the list of every open tab in the end.
ParkedIsShown ==
  DeskFairness =>
    \A b \in DeskTabs, t \in DeskTasks : []<>(machine = "desk" => ~Desk!Unseen(b, t))

\* LiveView: a tab in the foreground gets its stream back, its bell the newest feed,
\* and a source that is over is not shown as running for ever.
TabCatchesUp ==
  LiveFairness =>
    /\ []<>(machine = "live" => ~Live!StreamMissing)
    /\ []<>(machine = "live" => ~Live!BellBehind)
    /\ []<>(machine = "live" => ~Live!SourceLags)

\* RunPanel and SourceRuns: no run and no record says running for ever, and what is
\* queued is started, although laptops stay away and the server restarts; and the
\* panel of a run that is over, or lost, tells so, unless it is folded for ever (RunDock).
EveryRunEnds ==
  /\ PanelFairness =>
       /\ \A i \in 1..MaxRuns : []<>(machine = "panel" => ~Panel!Underway(i))
       /\ []<>(machine = "panel" => ~Panel!ItemsWait)
  /\ SourcesFairness =>
       /\ \A i \in 1..MaxScrapes : []<>(machine = "sources" => ~Src!SaysRunning(i))
       /\ []<>(machine = "sources" => ~Src!SourcesWait)
  /\ DockFairness =>
       \A r \in DockRuns :
         []<>(machine = "dock" => ~Dock!ShownPending(r)) \/ []<><<machine = "dock" /\ Dock!Toggle(r)>>_<<v4>>
=============================================================================

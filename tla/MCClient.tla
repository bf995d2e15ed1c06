------------------------------- MODULE MCClient -------------------------------
(***************************************************************************)
(* The screens of the application, each with the endpoints it calls, or    *)
(* the state behind them that they show, checked in one run.  As in        *)
(* MCServer, a behaviour is one of the machine chosen in ClientInit, and   *)
(* v1, v2, ... are that machine's variables, in the order of its module.   *)
(***************************************************************************)
EXTENDS Integers, Sequences, FiniteSets

CONSTANTS
  None, MaxFails,
  Tabs, Tasks, SnoozeDays, UnloadSurvived, MaxResolves, MaxEdits, MaxLoads,
  MaxDays,                                              \* Decisions
  Images, MaxAttachments, Idle, MaxTexts, MaxTickets,   \* ChatCapture
  Jobs, MaxMoves, MaxTypes, MaxEvents, MaxCalls,        \* JobBoard
  Finds, MaxClicks,                                     \* TriageInbox
  CanSpawn, MaxSends, MaxFailures, MaxOpens, ChatJobs,  \* JobChat
  DockRuns, DockBatch, Vias, NotFoundStreak, MaxBoots,
  MaxRequeues,                                          \* RunDock
  Surfaces, FlushAt, MaxBatch, Window, InFiles, MaxMade, MaxTicks, MaxLost, MaxKills,
  MaxReloads,                                           \* TelemetryBeacon
  BookFinds, Calls, MaxBookWrites, MaxJobs, MaxHolds,   \* FindsCache
  SourceNames, RunCap, MaxRunning, Endings, MaxAgents, MaxSourceEdits, MaxReports,
  MaxRunDays                                            \* SourceRegistry

\* No job is the None of a chat that is closed, no find that of a toast that is gone, and
\* no call of ChatCapture the Idle of none; "none" is the surface of an event that is no
\* view; no run of the dock is a laptop that is "idle" or "away", and a batch is of runs.
ASSUME ClientAssumption ==
  /\ None \notin ChatJobs /\ None \notin Finds
  /\ Idle \notin [pc : {"post", "upload"}, text : Nat, next : {"queue", "delegate"},
                  left : Seq(Images), total : Nat, failed : Nat, ticket : Nat]
  /\ MaxAttachments \in Nat /\ MaxTexts \in Nat /\ MaxTickets \in Nat /\ MaxResolves \in Nat
  /\ MaxTypes \in Nat
  /\ FlushAt \in Nat \ {0} /\ MaxBatch \in Nat \ {0} /\ Window \in Nat \ {0}
  /\ "none" \notin Surfaces /\ Vias \subseteq {"local", "runner", "source"}
  /\ DockBatch \subseteq DockRuns /\ "away" \notin DockRuns /\ "idle" \notin DockRuns

VARIABLES
  machine,   \* which one runs
  v1, v2, v3, v4, v5, v6, v7, v8

clientVars == <<machine, v1, v2, v3, v4, v5, v6, v7, v8>>

Desk == INSTANCE Decisions WITH
  NoTask <- None,
  board <- v1, tab <- v2, wire <- v3, today <- v4, fate <- v5, used <- v6

Capture == INSTANCE ChatCapture WITH
  panel <- v1, call <- v2, side <- v3, tickets <- v4, ledger <- v5, typed <- v6, ghost <- v7

Board == INSTANCE JobBoard WITH
  rows <- v1, cards <- v2, asked <- v3, drawer <- v4, calls <- v5, swept <- v6, owed <- v7,
  tally <- v8

\* No job, text or status, and no job as the drawer shows it, is that of a field without one.
ASSUME BoardAssumption ==
  /\ None \notin Jobs /\ None \notin Nat /\ None \notin Board!Statuses
  /\ None \notin [id : Jobs, note : Nat, status : Board!Statuses]

Triage == INSTANCE TriageInbox WITH
  NoFind <- None,
  finds <- v1, jobs <- v2, data <- v3, inbox <- v4, requests <- v5, history <- v6, clicks <- v7

Chat == INSTANCE JobChat WITH
  Jobs <- ChatJobs, Nobody <- None,
  chats <- v1, posts <- v2, chat <- v3, gets <- v4, told <- v5, sends <- v6, failures <- v7,
  mounts <- v8

Dock == INSTANCE RunDock WITH
  Runs <- DockRuns, BatchRuns <- DockBatch,
  runs <- v1, seen <- v2, laptop <- v3, dock <- v4, batch <- v5, count <- v6

Beacon == INSTANCE TelemetryBeacon WITH
  MaxLoads <- MaxReloads,
  made <- v1, tab <- v2, net <- v3, lines <- v4, gone <- v5, tally <- v6

Workbook == INSTANCE FindsCache WITH
  Finds <- BookFinds, Nothing <- None, MaxWrites <- MaxBookWrites,
  book <- v1, tracked <- v2, watched <- v3, cache <- v4, dirty <- v5, calls <- v6, count <- v7

Registry == INSTANCE SourceRegistry WITH
  Names <- SourceNames, NoSource <- None, MaxScrapes <- MaxAgents, MaxEdits <- MaxSourceEdits,
  MaxDays <- MaxRunDays,
  today <- v1, registry <- v2, queue <- v3, scrapes <- v4, edits <- v5

\* MAX_SOURCE_RUNS keeps the run before the last, too.
ASSUME RegistryAssumption ==
  /\ RunCap \in Nat /\ RunCap >= 2
  /\ Endings \subseteq {"succeeded", "failed", "incomplete"}

ClientInit ==
  \/ machine = "desk" /\ Desk!DeskInit /\ v7 = 0 /\ v8 = 0
  \/ machine = "capture" /\ Capture!CaptureInit /\ v8 = 0
  \/ machine = "board" /\ Board!BoardInit
  \/ machine = "triage" /\ Triage!TriageInit /\ v8 = 0
  \/ machine = "chat" /\ Chat!ChatInit
  \/ machine = "dock" /\ Dock!DockInit /\ v7 = 0 /\ v8 = 0
  \/ machine = "beacon" /\ Beacon!BeaconInit /\ v7 = 0 /\ v8 = 0
  \/ machine = "workbook" /\ Workbook!FindsInit /\ v8 = 0
  \/ machine = "registry" /\ Registry!RegistryInit /\ v6 = 0 /\ v7 = 0 /\ v8 = 0

ClientNext ==
  \/ machine = "desk" /\ Desk!DeskNext /\ UNCHANGED <<machine, v7, v8>>
  \/ machine = "capture" /\ Capture!CaptureNext /\ UNCHANGED <<machine, v8>>
  \/ machine = "board" /\ Board!BoardNext /\ UNCHANGED machine
  \/ machine = "triage" /\ Triage!TriageNext /\ UNCHANGED <<machine, v8>>
  \/ machine = "chat" /\ Chat!ChatNext /\ UNCHANGED machine
  \/ machine = "dock" /\ Dock!DockNext /\ UNCHANGED <<machine, v7, v8>>
  \/ machine = "beacon" /\ Beacon!BeaconNext /\ UNCHANGED <<machine, v7, v8>>
  \/ machine = "workbook" /\ Workbook!FindsNext /\ UNCHANGED <<machine, v8>>
  \/ machine = "registry" /\ Registry!RegistryNext /\ UNCHANGED <<machine, v6, v7, v8>>

ClientSpec == ClientInit /\ [][ClientNext]_clientVars

-----------------------------------------------------------------------------
(***************************************************************************)
(* What the run checks.                                                    *)
(***************************************************************************)
\* The states of all screens have the shape the code gives them.
ClientTypeOK ==
  /\ machine = "desk" => Desk!DeskTypeOK
  /\ machine = "capture" => Capture!CaptureTypeOK
  /\ machine = "board" => Board!BoardTypeOK
  /\ machine = "triage" => Triage!TriageTypeOK
  /\ machine = "chat" => Chat!ChatTypeOK
  /\ machine = "dock" => Dock!DockTypeOK
  /\ machine = "beacon" => Beacon!BeaconTypeOK
  /\ machine = "workbook" => Workbook!FindsTypeOK
  /\ machine = "registry" => Registry!RegistryTypeOK

\* What the owner does once happens once: a decision resolved (Decisions), a find
\* pursued (TriageInbox), a question stored with its answer (JobChat); and what the
\* owner did is recorded at most once (TelemetryBeacon).
DoneOnce ==
  /\ machine = "desk" => Desk!ResolvedOnce
  /\ machine = "triage" => Triage!PursuedOnce
  /\ machine = "chat" => Chat!TurnsArePaired
  /\ machine = "beacon" => Beacon!EventsAccounted

\* ChatCapture: a report is filed once, and a request names the ticket it came from.
ReportsAreTrue ==
  machine = "capture" => Capture!FiledOnce /\ Capture!OriginIsTrue

\* What the owner gives is not lost without a word: images (ChatCapture), the text of
\* a job's fields (JobBoard).
NothingGivenIsLost ==
  /\ machine = "capture" => Capture!ImagesAccounted
  /\ machine = "board" => Board!TypedIsSaved

\* What a screen shows is what is stored, once nothing is under way: the columns of
\* the board (JobBoard), the verdicts of the inbox (TriageInbox); and a panel that
\* shows the end of a run shows how it ended (RunDock), and the summary of the usage
\* counts what was recorded (TelemetryBeacon).  The finds that are served without
\* reading the workbook are those it holds (FindsCache), and the pill of a source tells
\* what became of its scrapes, each of which has a record (SourceRegistry).
ScreenTellsStored ==
  /\ machine = "board" => Board!NoPhantomCard
  /\ machine = "triage" => Triage!RowTellsStored
  /\ machine = "dock" => Dock!PanelTellsRun
  /\ machine = "beacon" => Beacon!SummaryIsTrue
  /\ machine = "workbook" => Workbook!CacheIsNow
  /\ machine = "registry" => Registry!PillTellsScrapes /\ Registry!NoScrapeUnseen

-----------------------------------------------------------------------------
(***************************************************************************)
(* What each screen keeps.  Its invariant is stronger than what the run    *)
(* checks of it: the first state has it and every step keeps it, and from  *)
(* that MCClient_proofs proves the invariants above for every value of the *)
(* constants.                                                              *)
(***************************************************************************)
(***************************************************************************)
(* JobChat.  A POST writes all transcripts as it read them, and adds one   *)
(* question with its answer: what it read had only messages before its     *)
(* own, so the number of the new ones is not in it.                        *)
(***************************************************************************)
\* The messages up to number m.
TurnsTo(m) == [role : {"user", "assistant"}, of : 1 .. m]

\* Transcripts of questions, each followed by its answer, up to number m, none twice.
PairedTo(ch, m) ==
  /\ ch \in [ChatJobs -> Seq(TurnsTo(m))]
  /\ \A j \in ChatJobs : Len(ch[j]) % 2 = 0
  /\ \A j \in ChatJobs : \A i \in 1 .. Len(ch[j]) :
       IF i % 2 = 1
       THEN i < Len(ch[j]) /\ ch[j][i].role = "user"
              /\ ch[j][i + 1] = [role |-> "assistant", of |-> ch[j][i].of]
       ELSE ch[j][i].role = "assistant"
  /\ \A j, k \in ChatJobs : \A i \in 1 .. Len(ch[j]), l \in 1 .. Len(ch[k]) :
       ch[j][i] = ch[k][l] => j = k /\ i = l

\* What a POST has read, and what is stored, is paired; the drawer waits for at most
\* one answer, that of its mount.
ChatInv ==
  /\ v6 \in Nat /\ v8 \in Nat
  /\ PairedTo(v1, v6)
  /\ \A p \in v2 : /\ p.n \in 1 .. v6 /\ p.job \in ChatJobs /\ PairedTo(p.had, p.n - 1)
                   /\ p.mount \in 1 .. v8
                   /\ p.mount = v3.mount => v3.sending
  /\ v3 \in [job : ChatJobs \cup {None}, shows : Seq(TurnsTo(v6)), sending : BOOLEAN,
             mount : 0 .. v8]
  /\ v3.job = None <=> v3.mount = 0
  /\ \A p, q \in v2 : p.mount = v3.mount /\ q.mount = v3.mount => p = q
  /\ \A g \in v4 : g.job \in ChatJobs

(***************************************************************************)
(* ChatCapture.  The text in the box is that of a ticket only while its    *)
(* images are uploaded, or while the panel speaks of the ticket it made:   *)
(* then it cannot be submitted, and leaving that state empties the box.    *)
(***************************************************************************)
CaptureCalls ==
  [pc : {"post", "upload"}, text : Nat, next : {"queue", "delegate"}, left : Seq(Images),
   total : Nat, failed : Nat, ticket : Nat]
CaptureSides ==
  [kind : {"addRequest", "link", "assess", "work"}, ticket : Nat, request : Nat]
CaptureTickets == [text : Nat, images : SUBSET Images, wanted : Nat]

\* The types.
CaptureTypes ==
  /\ v1.open \in BOOLEAN /\ v1.busy \in BOOLEAN /\ v1.text \in Nat /\ v1.created \in Nat
  /\ v1.step \in {"compose", "confirm", "done"}
  /\ v1.images \subseteq Images /\ IsFiniteSet(v1.images)
  /\ v1 = [open |-> v1.open, step |-> v1.step, busy |-> v1.busy, text |-> v1.text,
           images |-> v1.images, created |-> v1.created, outcome |-> v1.outcome,
           note |-> v1.note]
  /\ v2 \in {Idle} \cup CaptureCalls
  /\ v3 \subseteq CaptureSides
  /\ v4 \in Seq(CaptureTickets)
  /\ v5 \in Seq([text : Nat, spawned : SUBSET Nat])
  /\ v6 \in [texts : Nat, fails : Nat]
  /\ v7 \in [lost : SUBSET Nat, told : [1 .. MaxTickets -> Nat]]

\* Ticket t holds text x, and the answer of its filing was not lost.
FiledAs(x) == x \notin v7.lost /\ \E t \in DOMAIN v4 : v4[t].text = x

\* One thing at a time: while a report is being filed or worked on, the panel is busy.
CaptureBusy ==
  /\ v2 # Idle => v1.busy /\ v1.created = 0 /\ v1.step = "compose"
  /\ \A m \in v3 : m.kind = "work" => v1.busy /\ v2 = Idle
  /\ \A m, n \in v3 : m.kind = "work" /\ n.kind = "work" => m = n
  /\ v1.created # 0 => v1.step # "compose"
  /\ v1.step = "confirm" => v1.created # 0
  /\ v1.created \in 0 .. Len(v4)
  /\ v2 # Idle /\ v2.pc = "upload" => v2.ticket \in DOMAIN v4

\* A text is filed once.
CaptureFiled ==
  /\ v6.texts <= MaxTexts /\ v1.text \in 0 .. v6.texts
  /\ \A t \in DOMAIN v4 : v4[t].text \in 1 .. v6.texts
  /\ v2 # Idle => v2.text \in 1 .. v6.texts
  /\ Capture!FiledOnce
  /\ FiledAs(v1.text) =>
       \/ v2 # Idle /\ v2.pc = "upload" /\ v2.text = v1.text
       \/ v1.created # 0
  /\ v2 # Idle /\ v2.pc = "post" => ~FiledAs(v2.text)

\* A request is linked to the ticket of its own text.
CaptureOrigin ==
  /\ \A r \in DOMAIN v5 : \A t \in v5[r].spawned :
       t \in DOMAIN v4 /\ v4[t].text = v5[r].text
  /\ \A m \in v3 : m.kind \in {"addRequest", "link"} => m.ticket \in DOMAIN v4
  /\ \A m \in v3 : m.kind = "link" =>
       m.request \in DOMAIN v5 /\ v5[m.request].text = v4[m.ticket].text

\* No image twice in what is left to upload.
Distinct(s) == \A i, j \in DOMAIN s : s[i] = s[j] => i = j

\* Every image that a click took is at its ticket, counted as failed, or left.
CaptureImages ==
  /\ Len(v4) <= MaxTickets
  /\ Cardinality(v1.images) <= MaxAttachments
  /\ \A t \in DOMAIN v4 : IsFiniteSet(v4[t].images) /\ Cardinality(v4[t].images) <= MaxAttachments
  /\ \A t \in DOMAIN v4 :
       (v2 # Idle => v2.pc = "post" \/ v2.ticket # t) =>
         Cardinality(v4[t].images) + v7.told[t] = v4[t].wanted
  /\ \A t \in 1 .. MaxTickets : t > Len(v4) => v7.told[t] = 0
  /\ v2 # Idle => Distinct(v2.left)
  /\ v2 # Idle /\ v2.pc = "post" => v2.failed = 0
  /\ v2 # Idle /\ v2.pc = "upload" =>
       /\ Cardinality(v4[v2.ticket].images) + v2.failed + Len(v2.left) = v4[v2.ticket].wanted
       /\ \A i \in DOMAIN v2.left : v2.left[i] \notin v4[v2.ticket].images

CaptureInv == CaptureTypes /\ CaptureBusy /\ CaptureFiled /\ CaptureOrigin /\ CaptureImages

(***************************************************************************)
(* TriageInbox.  A find becomes a job at most once, since a job that is    *)
(* there refuses another, and a draft is launched where the job was made.  *)
(* Of a row that nothing excuses at most one call is under way; until it   *)
(* is answered the row shows what it asks for.                             *)
(***************************************************************************)
TriageDecided == {"none", "skip", "maybe"}
TriageFind == [here : BOOLEAN, decision : TriageDecided]
TriageRow == [here : BOOLEAN, decision : TriageDecided, tracked : BOOLEAN]
TriageList ==
  [override : [Finds -> TriageDecided \cup {"stored"}], told : SUBSET Finds,
   toast : Finds \cup {None}, prior : TriageDecided, busy : Finds \cup {None},
   bulk : SUBSET Finds, verb : TriageDecided, mounted : BOOLEAN]
TriageCalls ==
  [kind : {"apply", "undo", "bulk", "pursue", "load", "draft"}, find : Finds \cup {None},
   verb : TriageDecided, prior : TriageDecided]
TriageHistory == [drafts : [Finds -> Nat], made : [Finds -> Nat], excused : SUBSET Finds]

TriageTypes ==
  /\ v1 \in [Finds -> TriageFind] /\ v2 \subseteq Finds /\ v3 \in [Finds -> TriageRow]
  /\ v4 \in TriageList /\ v5 \subseteq TriageCalls /\ v6 \in TriageHistory
  /\ \A r \in v5 : r.kind # "load" => r.find \in Finds
  /\ \A r \in v5 : r.kind = "load" => r.find = None

\* The call that launches the draft of a find.
DraftOf(f) == [kind |-> "draft", find |-> f, verb |-> "none", prior |-> "none"]

\* A job is made of a find once, and the draft is launched, or on its way to be, by it.
TriagePursued ==
  /\ \A r \in v5 : r.kind = "draft" => r = DraftOf(r.find)
  /\ \A f \in Finds : v6.made[f] = IF f \in v2 THEN 1 ELSE 0
  /\ \A f \in Finds : v6.drafts[f] + (IF DraftOf(f) \in v5 THEN 1 ELSE 0) <= v6.made[f]

\* A decision, an undo or a part of a bulk.
Decides(r) == r.kind \in {"apply", "undo", "bulk"}

\* What a row shows is stored, asked for, or taken back with a message.
TriageTells ==
  /\ ~v4.mounted => \A f \in Finds : v4.override[f] = "stored"
  /\ \A f \in Finds \ v6.excused : \A q, r \in v5 : q.find = f /\ r.find = f => q = r
  /\ \A f \in Finds \ v6.excused : f \in v4.bulk => \A r \in v5 : r.find # f
  /\ \A f \in Finds \ v6.excused : \A r \in v5 :
       r.find = f /\ Decides(r) /\ v4.override[f] # "stored" => v4.override[f] = r.verb
  /\ \A f \in Finds \ v6.excused :
       f \in v4.bulk /\ v4.override[f] # "stored" => v4.override[f] = v4.verb
  /\ \A f \in Finds \ v6.excused : v1[f].here /\ v4.override[f] # "stored" =>
       \/ v4.override[f] = v1[f].decision \/ f \in v4.told \/ f \in v4.bulk
       \/ \E r \in v5 : r.find = f /\ r.kind \in {"apply", "undo", "bulk", "pursue"}

TriageInv == TriageTypes /\ TriagePursued /\ TriageTells

(***************************************************************************)
(* Decisions, where a page that is told to close does.  A resolve is in    *)
(* one place until it is written: the pending entry of an open tab, or a   *)
(* call on its way; the log of a task holds what has left both.            *)
(***************************************************************************)
DeskOps == 1..MaxResolves
DeskStatus == {"todo", "canceled"}
DeskTask ==
  [label : BOOLEAN, mark : BOOLEAN, tag : BOOLEAN, status : DeskStatus, deferred : Nat,
   log : [DeskOps -> Nat]]
DeskBoard == [Tasks -> DeskTask]
DeskEntry == [tab : Tabs, task : Tasks, op : DeskOps, tag : BOOLEAN, status : DeskStatus]
DeskTab ==
  [open : BOOLEAN, tasks : DeskBoard, hidden : SUBSET Tasks, toast : Tasks \cup {None},
   pending : [Tasks -> DeskEntry \cup {None}]]
DeskGets == [kind : {"get"}, tab : Tabs, n : Nat]
DeskWrites == [kind : {"patch", "keepalive"}, tab : Tabs, entry : DeskEntry]
DeskDefers == [kind : {"defer"}, tab : Tabs, task : Tasks, on : Nat]
DeskAnswers == [kind : {"tasks"}, tab : Tabs, tasks : DeskBoard]
DeskUsed == [ops : Nat, edits : Nat, loads : Nat, fails : Nat]

DeskTypes ==
  /\ v1 \in DeskBoard /\ v2 \in [Tabs -> DeskTab]
  /\ v3 \subseteq DeskGets \cup DeskWrites \cup DeskDefers \cup DeskAnswers
  /\ v4 \in Nat /\ v5 \in [DeskOps -> {"none", "made", "undone"}] /\ v6 \in DeskUsed
  /\ v6.ops <= MaxResolves

\* An entry waits in a tab; a call carries one; neither is in a log yet.
WaitsIn(b, t) == v2[b].open /\ v2[b].pending[t] # None
Carries(m) == m.kind \in {"patch", "keepalive"}
Unwritten(op) == op <= v6.ops /\ v5[op] = "made" /\ \A t \in Tasks : v1[t].log[op] = 0

DeskUnwritten ==
  /\ \A b \in Tabs, t \in Tasks : WaitsIn(b, t) => Unwritten(v2[b].pending[t].op)
  /\ \A m \in v3 : Carries(m) => Unwritten(m.entry.op)

\* No two of them are of the same resolve.
DeskApart ==
  /\ \A b, c \in Tabs, t, u \in Tasks :
       WaitsIn(b, t) /\ WaitsIn(c, u) /\ v2[b].pending[t].op = v2[c].pending[u].op =>
         b = c /\ t = u
  /\ \A b \in Tabs, t \in Tasks, m \in v3 :
       WaitsIn(b, t) /\ Carries(m) => m.entry.op # v2[b].pending[t].op
  /\ \A m, n \in v3 : Carries(m) /\ Carries(n) /\ m.entry.op = n.entry.op => m = n

DeskLogs ==
  \A op \in DeskOps :
    /\ op > v6.ops => v5[op] = "none"
    /\ \A t \in Tasks : v1[t].log[op] <= IF v5[op] = "made" THEN 1 ELSE 0

DeskInv == DeskTypes /\ DeskUnwritten /\ DeskApart /\ DeskLogs

DeskView(view) ==
  /\ DOMAIN view = {"open", "tasks", "hidden", "toast", "pending"}
  /\ view.hidden \subseteq Tasks /\ view.toast \in Tasks \cup {None}
  /\ DOMAIN view.pending = Tasks
  /\ \A t \in Tasks : view.pending[t] # None => view.pending[t].task = t

DeskShape == DOMAIN v2 = Tabs /\ \A b \in Tabs : DeskView(v2[b])

(***************************************************************************)
(* TelemetryBeacon.  An event is in one of four places: the outbox of the  *)
(* page, a batch on its way, the store, or what was dropped; an action     *)
(* moves whole parts from one to another.                                  *)
(***************************************************************************)
Elements(s) == {s[i] : i \in DOMAIN s}

Good(e) == v1[e].class = "good"

BeaconLine == [events : SUBSET Nat, parses : BOOLEAN, ended : BOOLEAN]

\* The lines of a store: no event is on two, only the last may be torn off, and one
\* that parses is a good event's.
LinesOf(L) ==
  /\ L \in Seq(BeaconLine)
  /\ \A i, j \in DOMAIN L : i # j => L[i].events \cap L[j].events = {}
  /\ \A i \in DOMAIN L : L[i].ended \/ i = Len(L)
  /\ \A i \in DOMAIN L : L[i].parses => \E e \in Nat : L[i].events = {e} /\ Good(e)
OnLines(L) == UNION {L[i].events : i \in DOMAIN L}
Spoiled(L) == {i \in DOMAIN L : ~L[i].parses \/ ~L[i].ended}

\* The events of a line, and of a batch, are made ones; where each of them is.
BeaconKinds == {"good", "soft", "hard"}
BeaconEvent ==
  [page : Nat, surface : Surfaces \cup {"none"}, class : BeaconKinds, at : Nat]
BeaconTab == [page : Nat, queue : Seq(Nat), lastView : [Surfaces -> Int]]
BeaconTally == [now : Nat, lost : Nat, kills : Nat, loads : Nat]
OnWay(batches) == UNION {Elements(b) : b \in batches}

BeaconTypes ==
  /\ v1 \in Seq(BeaconEvent) /\ v2 \in BeaconTab /\ v3 \subseteq Seq(Nat) /\ v6 \in BeaconTally
  /\ Len(v2.queue) < FlushAt /\ \A b \in v3 : Len(b) \in 1 .. MaxBatch

BeaconPlaces ==
  /\ Distinct(v2.queue) /\ (\A b \in v3 : Distinct(b)) /\ LinesOf(v4)
  /\ \A b, c \in v3 : b # c => Elements(b) \cap Elements(c) = {}
  /\ Elements(v2.queue) \cup OnWay(v3) \cup OnLines(v4) \cup v5 = DOMAIN v1
  /\ Elements(v2.queue) \cap OnWay(v3) = {} /\ Elements(v2.queue) \cap OnLines(v4) = {}
  /\ Elements(v2.queue) \cap v5 = {} /\ OnWay(v3) \cap OnLines(v4) = {}
  /\ OnWay(v3) \cap v5 = {} /\ OnLines(v4) \cap v5 = {}

\* A kill spoils one line at most.
BeaconSpoils == Cardinality(Spoiled(v4)) <= v6.kills

\* The views of a surface by one page are a window apart.
BeaconViews ==
  /\ v2.page >= 1
  /\ \A e \in DOMAIN v1 : v1[e].page \in 1 .. v2.page /\ v1[e].at <= v6.now
  /\ \A e, f \in DOMAIN v1 :
       e < f /\ v1[e].page = v1[f].page /\ v1[e].surface = v1[f].surface
         /\ v1[e].surface \in Surfaces => v1[f].at - v1[e].at >= Window
  /\ \A e \in DOMAIN v1 : v1[e].page = v2.page /\ v1[e].surface \in Surfaces =>
       v1[e].at <= v2.lastView[v1[e].surface]

BeaconInv == BeaconTypes /\ BeaconPlaces /\ BeaconSpoils /\ BeaconViews

(***************************************************************************)
(* FindsCache.  The time of the workbook tells every write to it, so a     *)
(* dump that was asked for at the time it still has is of the rows it      *)
(* holds; and a change of a folder is told by the watcher or still to be.  *)
(***************************************************************************)
BookRows == UNION {[S -> {"none", "skip", "maybe"}] : S \in SUBSET BookFinds}
BookState == [rows : BookRows, time : Int, held : BOOLEAN]
BookDump == [rows : BookRows, tracked : SUBSET BookFinds]
BookPhases == {"idle", "done", "dump", "refused", "dumped", "decide", "wrote", "late"}
BookCall == [phase : BookPhases, asked : Int, dump : BookDump \cup {None}, missed : BOOLEAN]
BookCache == [asked : Int, dump : BookDump, missed : BOOLEAN]

BookTypes ==
  /\ v1 \in BookState /\ v2 \subseteq BookFinds /\ v3 \in BOOLEAN /\ v5 \in BOOLEAN
  /\ v4 = None \/ v4 \in BookCache
  /\ v6 \in [Calls -> BookCall]
  /\ \A c \in Calls : v6[c].phase = "dumped" => v6[c].dump \in BookDump

\* What a dump that was asked for at this time tells.
TellsBook(asked, dump, missed, stale) ==
  /\ asked <= v1.time
  /\ asked = v1.time => dump.rows = v1.rows
  /\ dump.tracked = v2 \/ v3 \/ missed \/ stale

BookInv ==
  /\ BookTypes
  /\ v4 # None => TellsBook(v4.asked, v4.dump, v4.missed, v5)
  /\ \A c \in Calls :
       /\ v6[c].phase = "dump" => v6[c].asked <= v1.time
       /\ v6[c].phase = "dumped" => TellsBook(v6[c].asked, v6[c].dump, v6[c].missed, FALSE)

(***************************************************************************)
(* RunDock.  The entry of the Map and the row of a run end only as the run *)
(* did, and an end is final: so an answer about an end is still true when  *)
(* it arrives, however late.                                               *)
(***************************************************************************)
DockEnds == {"done", "failed", "stopped"}
DockFates == DockEnds \cup {"none", "pending", "unknown"}
DockVias == {"none", "local", "runner", "source"}
DockMaps == DockEnds \cup {"none", "running"}
DockRows == {"none", "queued", "claimed", "done", "failed", "dead"}
DockAnswers == DockEnds \cup {"none", "not found", "running", "waiting-for-runner", "stalled"}
DockShows == DockEnds \cup {"none", "running", "waiting-for-runner", "stalled", "gone"}

DockRun == [via : DockVias, map : DockMaps, row : DockRows, old : BOOLEAN, fate : DockFates]
DockPanel == [on : BOOLEAN, minimized : BOOLEAN, shown : DockShows, misses : Nat, answer : DockAnswers]
DockCount == [boots : Nat, fails : Nat, requeues : Nat]

RowIsOver(row) == row \in {"done", "failed", "dead"}
RowSays(row) == IF row = "done" THEN "done" ELSE "failed"

\* A run whose entry, row and history agree, after so many boots.
RunOK(run, boots) ==
  /\ run \in DockRun
  /\ run.map \in DockEnds => run.fate = run.map
  /\ run.map = "running" /\ RowIsOver(run.row) => run.fate = RowSays(run.row)
  /\ run.via = "source" =>
       run.map = "none" /\ run.row # "none" /\ (RowIsOver(run.row) => run.fate = RowSays(run.row))
  /\ run.row \in {"queued", "claimed"} => run.fate = "pending" /\ run.via \in {"runner", "source"}
  /\ run.via = "local" => run.row = "none"
  /\ run.via = "local" /\ run.map = "running" => run.fate = "pending"
  /\ boots = 0 /\ run.via \in {"local", "runner"} => run.map # "none"
  /\ run.old => run.row \in {"queued", "failed"}
  /\ run.via = "none" => run = Dock!Unlaunched

\* A panel that tells the truth about its run.
PanelOK(t, run, boots) ==
  /\ t \in DockPanel
  /\ t.shown \in DockEnds => run.fate = t.shown
  /\ t.answer \in DockEnds => run.fate = t.answer
  /\ t.shown = "gone" \/ t.answer = "not found" =>
       boots > 0 /\ run.map = "none" /\ run.via # "source"
  /\ ~t.on => t.shown = "none" /\ t.answer = "none"
  /\ run.via = "none" => ~t.on

BatchOK(all, state, boots) ==
  /\ state \in {"closed", "active", "complete"}
  /\ state # "closed" => \A r \in DockBatch : all[r].via # "none"
  /\ state = "complete" /\ boots = 0 =>
       \A r \in DockBatch : all[r].via = "source" \/ all[r].fate \in DockEnds

DockInv ==
  /\ v6 \in DockCount
  /\ v1 \in [DockRuns -> DockRun] /\ v4 \in [DockRuns -> DockPanel]
  /\ \A r \in DockRuns : RunOK(v1[r], v6.boots) /\ PanelOK(v4[r], v1[r], v6.boots)
  /\ v3 \in DockRuns => v1[v3].row = "claimed"
  /\ BatchOK(v1, v5, v6.boots)

(***************************************************************************)
(* JobBoard.  A text that was typed is in the field, on its way in a       *)
(* PATCH, or stored; a card shows what its job was, unless the write or    *)
(* the reload that will settle it is under way.                            *)
(***************************************************************************)
BoardNotes == {Board!Empty, Board!ByAgent, Board!AutoCloseNote} \cup Board!Owners

BoardRow == [status : Board!Statuses, note : BoardNotes, applied : BOOLEAN, overdue : BOOLEAN]
BoardOwed == [typed : [Jobs -> Board!Owners \cup {None}], notes : [Jobs -> SUBSET BoardNotes],
              statuses : [Jobs -> SUBSET Board!Statuses], unsaved : Board!Owners \cup {None},
              stray : BOOLEAN]
BoardCards == [status : [Jobs -> Board!Statuses], error : BOOLEAN]
BoardAsked == [pending : {None} \cup [job : Jobs, to : Board!Statuses],
               undo : {None} \cup [job : Jobs, from : Board!Statuses]]
BoardJob == [id : Jobs, note : BoardNotes, status : Board!Statuses]
BoardDrawer == [id : Jobs \cup {None}, job : BoardJob \cup {None}, draft : Board!Owners \cup {None}]
BoardTally == [moves : Nat, types : Nat, events : Nat, failed : BOOLEAN]

BoardList == [kind : {"list"}, job : {None}, got : {None} \cup [Jobs -> BoardRow]]
BoardGet == [kind : {"load", "refetch", "fresh"}, job : Jobs, got : {None} \cup BoardRow]
BoardPatch == [kind : {"move", "save", "flush"}, job : Jobs, status : Board!Statuses \cup {None},
               note : Board!Owners \cup {None}]

\* The jobs, and the ghost that remembers what they were; no text is newer than the last typed.
RowsOK(stored, owed, types) ==
  /\ stored \in [Jobs -> BoardRow] /\ owed \in BoardOwed
  /\ \A j \in Jobs :
       /\ stored[j].note \in owed.notes[j] /\ stored[j].status \in owed.statuses[j]
       /\ "submitted" \in owed.statuses[j] <=> stored[j].applied
       /\ \A n \in owed.notes[j] : n < 3 + types

\* The drawer: a job that is shown is that of the drawer.
DrawerOK(d, types) ==
  /\ d \in BoardDrawer
  /\ d.id = None => d.job = None
  /\ d.job # None => d.job.id = d.id /\ d.job.note < 3 + types
  /\ d.draft # None => d.draft < 3 + types

\* A request: what it read was stored, and the drawer that asks for a job still shows it.
CallOK(c, owed, id, types) ==
  /\ c \in BoardList \cup BoardGet \cup BoardPatch
  /\ c \in BoardList /\ c.got # None => \A j \in Jobs : c.got[j].status \in owed.statuses[j]
  /\ c \in BoardGet => c.job = id
  /\ c \in BoardGet /\ c.got # None => c.got.note \in owed.notes[c.job]
  /\ c \in BoardPatch /\ c.note # None => c.note < 3 + types

\* The text typed last into a job is not lost yet.
TextKept(j, owed, pending, d, failed) ==
  \/ owed.typed[j] = None \/ owed.typed[j] \in owed.notes[j] \/ failed
  \/ \E c \in pending : c \in BoardPatch /\ c.job = j /\ c.note = owed.typed[j]
  \/ d.job # None /\ d.job.id = j /\ d.draft = owed.typed[j] /\ d.draft # d.job.note

\* The card of a job is true, or will be.
CardKept(j, shown, owed, pending) ==
  \/ shown.status[j] \in owed.statuses[j] \/ shown.error
  \/ \E c \in pending : c.kind = "list" \/ c.kind = "move"

BoardInv ==
  /\ v8 \in BoardTally
  /\ RowsOK(v1, v7, v8.types)
  /\ v2 \in BoardCards /\ v3 \in BoardAsked
  /\ DrawerOK(v4, v8.types)
  /\ \A c \in v5 : CallOK(c, v7, v4.id, v8.types)
  /\ \A j \in Jobs : TextKept(j, v7, v5, v4, v8.failed) /\ CardKept(j, v2, v7, v5)

(***************************************************************************)
(* SourceRegistry.  The records of a source are the newest of its scrapes: *)
(* only the last may still run, and a scrape that runs has its record,     *)
(* since no other is launched meanwhile.  Where a source was deleted and   *)
(* its id given again while a scrape ran, that scrape may close a record   *)
(* of the new one: there nothing is claimed.                               *)
(***************************************************************************)
RegistryOutcomes == Endings \cup {"running"}
RegistryRecord == [no : Nat, outcome : RegistryOutcomes, leads : {0, 1}, reviewed : {-1, 0, 1}]
RegistrySource == [no : Nat, active : Registry!Actives, cadence : Registry!Cadences, lastRun : Nat,
                   runs : Seq(RegistryRecord)]
RegistryScrape == [id : Registry!Ids, source : Nat, outcome : RegistryOutcomes, leads : {0, 1},
                   reviewed : {-1, 0, 1}]

Mirrors(run, scrape) ==
  run.outcome = scrape.outcome /\ run.leads = scrape.leads /\ run.reviewed = scrape.reviewed

\* The records of a source are of scrapes of its own, oldest first.
RunsOK(id, runs, no, all) ==
  \A n \in 1..Len(runs) :
    /\ runs[n].no \in 1..Len(all)
    /\ all[runs[n].no].id = id /\ all[runs[n].no].source = no
    /\ \A m \in 1..Len(runs) : m < n => runs[m].no < runs[n].no

\* No scrape of an earlier source with the id.
Alone(id, no, all) == \A k \in 1..Len(all) : all[k].id = id => all[k].source = no

\* They tell all that is of interest of the scrapes.
RunsTell(id, runs, all) ==
  /\ \A n \in 1..Len(runs) : Mirrors(runs[n], all[runs[n].no])
  /\ \A k \in 1..Len(all) : all[k].id = id =>
       /\ Len(runs) > 0 /\ k <= runs[Len(runs)].no
       /\ all[k].outcome = "running" => k = runs[Len(runs)].no
       /\ k # runs[Len(runs)].no => Len(runs) > 1 /\ k <= runs[Len(runs) - 1].no

SourceOK(id, source, all, count) ==
  /\ source \in RegistrySource /\ source.no < count
  /\ source.lastRun = 0 <=> Len(source.runs) = 0
  /\ RunsOK(id, source.runs, source.no, all)
  /\ Alone(id, source.no, all) => RunsTell(id, source.runs, all)

RegistryInv ==
  /\ v1 \in Nat /\ v1 > 0 /\ v5 \in Nat /\ v4 \in Seq(RegistryScrape)
  /\ \A k \in 1..Len(v4) : v4[k].source < v5
  /\ v2 \in [Registry!Ids -> RegistrySource \cup {None}]
  /\ \A id \in Registry!Ids : v2[id] # None => SourceOK(id, v2[id], v4, v5)

\* The queue names each source once, the records of a source are bounded, and no run is of
\* a day to come.  The registry is a finite one, so what a sweep queues is counted.
QueueOK(queue) == queue \in Seq(Registry!Ids) /\ Registry!IsInjective(queue)

RegistryShape ==
  /\ QueueOK(v3) /\ IsFiniteSet(Registry!Here)
  /\ \A id \in Registry!Here : Len(v2[id].runs) <= RunCap /\ v2[id].lastRun <= v1

\* Each screen keeps its own, whichever runs.
DeskKept == machine = "desk" => DeskInv
CaptureKept == machine = "capture" => CaptureInv
TriageKept == machine = "triage" => TriageInv
ChatKept == machine = "chat" => ChatInv
BeaconKept == machine = "beacon" => BeaconInv
WorkbookKept == machine = "workbook" => BookInv
DockKept == machine = "dock" => DockInv
BoardKept == machine = "board" => BoardInv
RegistryKept == machine = "registry" => RegistryInv
DeskShapeKept == machine = "desk" => DeskShape
RegistryShapeKept == machine = "registry" => RegistryInv /\ RegistryShape
=============================================================================

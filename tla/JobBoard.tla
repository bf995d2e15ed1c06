-------------------------------- MODULE JobBoard --------------------------------
(***************************************************************************)
(* The jobs, as one browser tab edits them (src/App.tsx, useJobs.ts,       *)
(* JobDetail.tsx, KanbanBoard.tsx, StatusChangeModal.tsx) and the server   *)
(* keeps them (/api/jobs of server/index.js, updateJobFields of the        *)
(* stores): cards moved at once and written later, a confirmation for the  *)
(* moves with a price, an Undo, the drawer whose text fields are saved     *)
(* when they lose the focus or the drawer goes, the daily sweep that       *)
(* closes expired jobs, the agents and run ends that write beside it all.  *)
(*                                                                         *)
(* Abstractions.  Of a job, its status, its next_action, whether it has an *)
(* applied date and whether its deadline is over.  "drafted" stands for    *)
(* "ready" too and "closed" for "rejected"; "interview" and "offer" are    *)
(* left out.  A PATCH is applied when its answer comes or is lost; a GET   *)
(* is answered with what it read when it was served, in any order.         *)
(***************************************************************************)
EXTENDS Naturals, FiniteSets

CONSTANTS
  Jobs, None,
  MaxMoves, MaxTypes, MaxEvents, MaxCalls   \* bounds

VARIABLES
  rows,     \* the stored jobs
  cards,    \* useJobs: the status each card shows; error: the list could not be read
  asked,    \* pendingMove and undo of App
  drawer,   \* JobDetailDrawer: jobId, job, nextActionDraft
  calls,    \* requests under way
  swept,    \* lastSweepDate is today
  owed,     \* (ghost) per job, the text typed last, all it was ever stored with, all its
            \* statuses; and whether a PATCH carried a text nobody had left to save
  tally     \* bounds: moves, texts, events of the others; whether a call has failed

boardVars == <<rows, cards, asked, drawer, calls, swept, owed, tally>>

PreApplication == {"lead", "queued", "drafted"}    \* AUTO_CLOSE_STATUSES
ConfirmStatuses == {"submitted", "closed"}         \* CONFIRM_STATUSES
Statuses == PreApplication \cup ConfirmStatuses

\* Texts of next_action: none, an agent's, AUTO_CLOSE_NOTE, the owner's.
Empty == 0
ByAgent == 1
AutoCloseNote == 2
Owners == {2 + k : k \in 1..MaxTypes}

Spend(what) == tally' = [tally EXCEPT ![what] = @ + 1]

Get(kind, j) == [kind |-> kind, job |-> j, got |-> None]
Patch(kind, j, status, note) ==
  [kind |-> kind, job |-> j, status |-> status, note |-> note]
List == Get("list", None)

IsPatch(c) == c.kind \in {"move", "save", "flush"}
OfDrawer(c) == c.kind \in {"load", "refetch", "fresh"}

-----------------------------------------------------------------------------
(***************************************************************************)
(* The server.                                                             *)
(***************************************************************************)
\* What a job is after a write, in the ghost too.
Written(j, row) ==
  /\ rows' = [rows EXCEPT ![j] = row]
  /\ owed' = [owed EXCEPT !.notes[j] = @ \cup {row.note}, !.statuses[j] = @ \cup {row.status}]

\* PATCH /api/jobs/:id: the fields of the body; the date of the first "submitted".
PatchJob(c) ==
  LET row == rows[c.job]
      status == IF c.status = None THEN row.status ELSE c.status
  IN  Written(c.job, [row EXCEPT
        !.status = status,
        !.note = IF c.note = None THEN @ ELSE c.note,
        !.applied = @ \/ c.status = "submitted"])

\* sweepExpiredJobs, on the first read of the day.
ShouldAutoClose(row) == row.status \in PreApplication /\ row.overdue
SweepExpiredJobs ==
  LET closed(row) == [row EXCEPT !.status = "closed", !.note = AutoCloseNote]
      expired == {j \in Jobs : ~swept /\ ShouldAutoClose(rows[j])}
  IN  /\ swept' = TRUE
      /\ rows' = [j \in Jobs |-> IF j \in expired THEN closed(rows[j]) ELSE rows[j]]
      /\ owed' = [owed EXCEPT
           !.notes    = [j \in Jobs |-> @[j] \cup {rows'[j].note}],
           !.statuses = [j \in Jobs |-> @[j] \cup {rows'[j].status}]]

\* GET /api/jobs, GET /api/jobs/:id.
ServeList(c) ==
  /\ c.kind = "list" /\ c.got = None
  /\ SweepExpiredJobs
  /\ calls' = (calls \ {c}) \cup {[c EXCEPT !.got = rows']}
  /\ UNCHANGED <<cards, asked, drawer, tally>>

ServeJob(c) ==
  /\ OfDrawer(c) /\ c.got = None
  /\ calls' = (calls \ {c}) \cup {[c EXCEPT !.got = rows[c.job]]}
  /\ UNCHANGED <<rows, cards, asked, drawer, swept, owed, tally>>

\* A run ends (maybeAutoAdvanceJob) or an agent edits the job file; the stream
\* says so, and useJobs reloads.
AgentWrites(j) ==
  /\ tally.events < MaxEvents /\ Cardinality(calls) < MaxCalls
  /\ \/ /\ rows[j].status \in {"lead", "queued"}
        /\ Written(j, [rows[j] EXCEPT !.status = "drafted"])
     \/ Written(j, [rows[j] EXCEPT !.note = ByAgent])
  /\ calls' = calls \cup {List}
  /\ Spend("events")
  /\ UNCHANGED <<cards, asked, drawer, swept>>

\* Midnight: deadlines pass, and the next read sweeps.
NextDay ==
  /\ tally.events < MaxEvents
  /\ \E late \in SUBSET Jobs :
       rows' = [j \in Jobs |-> [rows[j] EXCEPT !.overdue = @ \/ j \in late]]
  /\ swept' = FALSE
  /\ Spend("events")
  /\ UNCHANGED <<cards, asked, drawer, calls, owed>>

-----------------------------------------------------------------------------
(***************************************************************************)
(* The board.                                                              *)
(***************************************************************************)
\* move: patchLocal, then the PATCH.
Moving(j, status) ==
  /\ cards' = [cards EXCEPT !.status[j] = status]
  /\ calls' = calls \cup {Patch("move", j, status, None)}

\* requestMove, from a drop (resolveDrop) or the table's select.
RequestMove(j, to) ==
  /\ tally.moves < MaxMoves /\ Cardinality(calls) < MaxCalls
  /\ asked.pending = None /\ drawer.id = None /\ ~cards.error
  /\ cards.status[j] # to
  /\ IF to \in ConfirmStatuses
     THEN /\ asked' = [asked EXCEPT !.pending = [job |-> j, to |-> to]]
          /\ UNCHANGED <<cards, calls>>
     ELSE /\ Moving(j, to)
          /\ asked' = [asked EXCEPT !.undo = [job |-> j, from |-> cards.status[j]]]
  /\ Spend("moves")
  /\ UNCHANGED <<rows, drawer, swept, owed>>

ConfirmMove ==
  /\ asked.pending # None /\ Cardinality(calls) < MaxCalls
  /\ Moving(asked.pending.job, asked.pending.to)
  /\ asked' = [asked EXCEPT !.pending = None]
  /\ UNCHANGED <<rows, drawer, swept, owed, tally>>

UndoMove ==
  /\ asked.undo # None /\ Cardinality(calls) < MaxCalls
  /\ Moving(asked.undo.job, asked.undo.from)
  /\ asked' = [asked EXCEPT !.undo = None]
  /\ UNCHANGED <<rows, drawer, swept, owed, tally>>

\* Escape, a click on Cancel; the toast's six seconds are over.
Dismiss ==
  /\ asked.pending # None \/ asked.undo # None
  /\ asked' = IF asked.pending # None THEN [asked EXCEPT !.pending = None]
              ELSE [asked EXCEPT !.undo = None]
  /\ UNCHANGED <<rows, cards, drawer, calls, swept, owed, tally>>

\* Mutant: a move that failed leaves the card where it was dropped.
MoveFailsQuietly(c) == calls' = calls \ {c}

\* move's catch: reload().
MoveFails(c) == calls' = (calls \ {c}) \cup {List}

\* reload's answer: the cards, and a new version, on which the drawer refetches.
AnswerList(c) ==
  /\ c.kind = "list" /\ c.got # None
  /\ cards' = [status |-> [j \in Jobs |-> c.got[j].status], error |-> FALSE]
  /\ calls' = (calls \ {c}) \cup
       (IF drawer.id = None THEN {} ELSE {Get("refetch", drawer.id)})
  /\ UNCHANGED <<rows, asked, drawer, swept, owed, tally>>

-----------------------------------------------------------------------------
(***************************************************************************)
(* The drawer.                                                             *)
(***************************************************************************)
Closed == [id |-> None, job |-> None, draft |-> None]

OpenDrawer(j) ==
  /\ drawer.id = None /\ asked.pending = None /\ Cardinality(calls) < MaxCalls
  /\ drawer' = [Closed EXCEPT !.id = j]
  /\ calls' = calls \cup {Get("load", j)}
  /\ UNCHANGED <<rows, cards, asked, swept, owed, tally>>

\* The field is there once a job is: nextActionDraft mirrors every keystroke.
Type(n) ==
  /\ tally.types < MaxTypes /\ n = 3 + tally.types
  /\ drawer.job # None
  /\ drawer' = [drawer EXCEPT !.draft = n]
  /\ owed' = [owed EXCEPT !.typed[drawer.job.id] = n, !.unsaved = n]
  /\ Spend("types")
  /\ UNCHANGED <<rows, cards, asked, calls, swept>>

\* pendingFieldUpdates.
PendingFieldUpdates == drawer.job # None /\ drawer.draft \notin {None, drawer.job.note}

\* A PATCH with the draft, by save() or by the flush, beside the other calls.
Sends(kind, others) ==
  /\ calls' = others \cup {Patch(kind, drawer.job.id, None, drawer.draft)}
  /\ owed' = [owed EXCEPT !.unsaved = None, !.stray = @ \/ owed.unsaved # drawer.draft]

\* commitPendingFields, on blur: save() shows the draft at once.
Blur ==
  /\ PendingFieldUpdates /\ Cardinality(calls) < MaxCalls
  /\ Sends("save", calls)
  /\ drawer' = [drawer EXCEPT !.job.note = drawer.draft]
  /\ UNCHANGED <<rows, cards, asked, swept, tally>>

\* save() of a select, the status among them.
SaveStatus(to) ==
  /\ tally.moves < MaxMoves /\ Cardinality(calls) < MaxCalls
  /\ drawer.job # None /\ drawer.job.status # to
  /\ drawer' = [drawer EXCEPT !.job.status = to]
  /\ calls' = calls \cup {Patch("save", drawer.job.id, to, None)}
  /\ Spend("moves")
  /\ UNCHANGED <<rows, cards, asked, swept, owed>>

\* Mutant: the drawer goes without a flush.
CloseWithoutFlush ==
  /\ drawer.id # None
  /\ drawer' = Closed
  /\ UNCHANGED <<rows, cards, asked, calls, swept, owed, tally>>

\* Escape, the backdrop, the cross: unmounted, and what was typed is flushed.
CloseDrawer ==
  LET others == {c \in calls : ~OfDrawer(c)}    \* an unmounted drawer hears no answer
  IN  /\ drawer.id # None
      /\ drawer' = Closed
      /\ IF PendingFieldUpdates THEN Sends("flush", others)
         ELSE calls' = others /\ UNCHANGED owed
      /\ UNCHANGED <<rows, cards, asked, swept, tally>>

\* setJob, with what a GET brings.
AnswerJob(c) ==
  /\ OfDrawer(c) /\ c.got # None
  /\ calls' = calls \ {c}
  /\ drawer' = [drawer EXCEPT
                  !.job = [id |-> c.job, note |-> c.got.note, status |-> c.got.status]]
  /\ UNCHANGED <<rows, cards, asked, swept, owed, tally>>

-----------------------------------------------------------------------------
(***************************************************************************)
(* Answers of the PATCHes, and failures.                                   *)
(***************************************************************************)
\* After a save: onChanged() and a fresh GET; after a flush: onChanged().  The
\* stream's jobs-changed reloads the list after any write.
AnswerPatch(c) ==
  /\ IsPatch(c)
  /\ PatchJob(c)
  /\ calls' = (calls \ {c}) \cup {List} \cup
       (IF c.kind = "save" /\ drawer.id = c.job THEN {Get("fresh", c.job)} ELSE {})
  /\ UNCHANGED <<cards, asked, drawer, swept, tally>>

\* The request or its answer is lost.
Fails(c) ==
  /\ tally.events < MaxEvents
  /\ tally' = [tally EXCEPT !.events = @ + 1, !.failed = TRUE]
  /\ \/ /\ IsPatch(c) /\ c.kind # "move"
        /\ calls' = calls \ {c} /\ UNCHANGED cards
     \/ /\ c.kind = "move"
        /\ MoveFails(c) /\ UNCHANGED cards
     \/ /\ ~IsPatch(c)
        /\ calls' = calls \ {c}
        /\ cards' = [cards EXCEPT !.error = @ \/ c.kind = "list"]
  /\ IF IsPatch(c) THEN PatchJob(c) \/ UNCHANGED <<rows, owed>> ELSE UNCHANGED <<rows, owed>>
  /\ UNCHANGED <<asked, drawer, swept>>

-----------------------------------------------------------------------------
BoardInit ==
  /\ rows   = [j \in Jobs |->
                [status |-> "lead", note |-> Empty, applied |-> FALSE, overdue |-> FALSE]]
  /\ cards  = [status |-> [j \in Jobs |-> rows[j].status], error |-> FALSE]
  /\ asked  = [pending |-> None, undo |-> None]
  /\ drawer = Closed
  /\ calls  = {}
  /\ swept  = TRUE
  /\ owed   = [typed |-> [j \in Jobs |-> None], notes |-> [j \in Jobs |-> {Empty}],
               statuses |-> [j \in Jobs |-> {rows[j].status}], unsaved |-> None, stray |-> FALSE]
  /\ tally  = [moves |-> 0, types |-> 0, events |-> 0, failed |-> FALSE]

BoardNext ==
  \/ \E c \in calls :
       ServeList(c) \/ ServeJob(c) \/ AnswerList(c) \/ AnswerJob(c) \/ AnswerPatch(c) \/ Fails(c)
  \/ \E j \in Jobs : AgentWrites(j) \/ OpenDrawer(j)
  \/ \E j \in Jobs, to \in Statuses : RequestMove(j, to)
  \/ \E to \in Statuses : SaveStatus(to)
  \/ \E n \in Owners : Type(n)
  \/ NextDay \/ ConfirmMove \/ UndoMove \/ Dismiss \/ Blur \/ CloseDrawer

BoardSpec == BoardInit /\ [][BoardNext]_boardVars

-----------------------------------------------------------------------------
(***************************************************************************)
(* Properties.                                                             *)
(***************************************************************************)
\* The types of the state, and one link: a job that was submitted has its date.
BoardTypeOK ==
  /\ rows \in [Jobs -> [status: Statuses, note: {Empty, ByAgent, AutoCloseNote} \cup Owners,
                        applied: BOOLEAN, overdue: BOOLEAN]]
  /\ cards \in [status: [Jobs -> Statuses], error: BOOLEAN]
  /\ drawer.id \in Jobs \cup {None} /\ drawer.draft \in Owners \cup {None}
  /\ drawer.id = None => drawer.job = None
  /\ \A j \in Jobs : "submitted" \in owed.statuses[j] <=> rows[j].applied

\* No way to close the drawer loses what was typed (comment of nextActionDraft):
\* when nothing is under way and nothing failed, the text typed last into a job
\* was stored with it.
TypedIsSaved ==
  drawer.id = None /\ calls = {} /\ ~tally.failed =>
    \A j \in Jobs : owed.typed[j] = None \/ owed.typed[j] \in owed.notes[j]

\* A card that moved before its write, and whose write failed, comes back: when
\* nothing is under way, and the list could be read, a card shows a status its
\* job has had.
NoPhantomCard ==
  calls = {} /\ ~cards.error => \A j \in Jobs : cards.status[j] \in owed.statuses[j]

\* The flush and the blur write what is "not yet saved" (JobDetail.tsx): each
\* PATCH of a draft carries a text typed since the last one, for that job.
OnlyUnsavedIsSent == ~owed.stray

=============================================================================

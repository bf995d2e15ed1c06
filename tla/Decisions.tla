------------------------------- MODULE Decisions -------------------------------
(***************************************************************************)
(* The decisions that wait for the owner, as the browser tabs resolve and  *)
(* defer them (src/hooks/useTasks.ts, src/lib/decisions.ts) and the server *)
(* writes them to the task board (/api/tasks of server/index.js).  A       *)
(* resolve hides the card at once and is written when its Undo window is   *)
(* over.                                                                   *)
(*                                                                         *)
(* Abstractions.  Of a task, what parks it (a label, a mark in the title,  *)
(* a status that is not terminal), one more label, and how often the       *)
(* comment of each resolve is in its log.  Requests and answers of a tab   *)
(* overtake each other.                                                    *)
(***************************************************************************)
EXTENDS Integers, FiniteSets

CONSTANTS
  Tabs, Tasks,
  NoTask,
  SnoozeDays,       \* DEFER_SNOOZE_DAYS
  UnloadSurvived,   \* a page lives on after beforeunload (the owner stays)
  MaxResolves, MaxEdits, MaxLoads, MaxFails, MaxDays   \* bounds

VARIABLES
  board,    \* the stored tasks
  tab,      \* per tab, what useTasks keeps
  wire,     \* GETs and PATCHes on their way, and answers on the way back
  today,
  fate,     \* (ghost) of each resolve: "none", "made" or "undone"
  used      \* bounds

deskVars == <<board, tab, wire, today, fate, used>>

Ops == 1..MaxResolves

\* isParkedForOwner, isSnoozed (the latest "Owner deferred on" comment).
IsParked(task) == task.status \notin {"done", "canceled"} /\ (task.label \/ task.mark)
IsSnoozed(task) == task.deferred # 0 /\ today - task.deferred < SnoozeDays
SelectParked(tasks) == {t \in Tasks : IsParked(tasks[t])}

\* What the tab shows: the active and the deferred list, without the hidden.
Parked(b) == {t \in SelectParked(tab[b].tasks) : ~IsSnoozed(tab[b].tasks[t])} \ tab[b].hidden
Deferred(b) == {t \in SelectParked(tab[b].tasks) : IsSnoozed(tab[b].tasks[t])} \ tab[b].hidden

\* setTasks, and the effect that prunes the ids the server says are no longer parked.
Loaded(view, tasks) == [view EXCEPT !.tasks = tasks, !.hidden = @ \cap SelectParked(tasks)]

\* reload(): a GET of tab b.
Reload(b, n) == {[kind |-> "get", tab |-> b, n |-> n]}

\* buildResolveWrite: the whole label array, without "parked"; the title without the mark.
BuildResolveWrite(b, t, op, status) ==
  [tab |-> b, task |-> t, op |-> op, tag |-> tab[b].tasks[t].tag, status |-> status]

\* resolve.  A click is ignored while the id has a write pending.
Resolve(b, t) ==
  /\ used.ops < MaxResolves
  /\ tab[b].open /\ t \in Parked(b) \cup Deferred(b) /\ tab[b].pending[t] = NoTask
  /\ \E status \in {"todo", "canceled"} :
       tab' = [tab EXCEPT ![b].hidden = @ \cup {t}, ![b].toast = t,
                          ![b].pending[t] = BuildResolveWrite(b, t, used.ops + 1, status)]
  /\ fate' = [fate EXCEPT ![used.ops + 1] = "made"]
  /\ used' = [used EXCEPT !.ops = @ + 1]
  /\ UNCHANGED <<board, wire, today>>

\* undoResolve, for the toast: the most recent one.
UndoResolve(b) ==
  LET t == tab[b].toast
  IN  /\ tab[b].open /\ t # NoTask
      /\ tab' = [tab EXCEPT ![b].pending[t] = NoTask, ![b].hidden = @ \ {t}, ![b].toast = NoTask]
      /\ fate' = IF tab[b].pending[t] = NoTask THEN fate
                 ELSE [fate EXCEPT ![tab[b].pending[t].op] = "undone"]
  /\ UNCHANGED <<board, wire, today, used>>

Patch(entry) == [kind |-> "patch", tab |-> entry.tab, entry |-> entry]

\* Mutant: the pending entry is not deleted before the call.
FlushKeepingEntry(b, t) ==
  /\ tab[b].open /\ tab[b].pending[t] # NoTask
  /\ tab' = [tab EXCEPT ![b].toast = IF @ = t THEN NoTask ELSE @]
  /\ wire' = wire \cup {Patch(tab[b].pending[t])}
  /\ UNCHANGED <<board, today, fate, used>>

\* flush, when the Undo window is over.
Flush(b, t) ==
  /\ tab[b].open /\ tab[b].pending[t] # NoTask
  /\ tab' = [tab EXCEPT ![b].pending[t] = NoTask, ![b].toast = IF @ = t THEN NoTask ELSE @]
  /\ wire' = wire \cup {Patch(tab[b].pending[t])}
  /\ UNCHANGED <<board, today, fate, used>>

\* defer: the comment is appended now.
Defer(b, t) ==
  /\ used.edits < MaxEdits
  /\ tab[b].open /\ t \in Parked(b)
  /\ wire' = wire \cup {[kind |-> "defer", tab |-> b, task |-> t, on |-> today]}
  /\ used' = [used EXCEPT !.edits = @ + 1]
  /\ UNCHANGED <<board, tab, today, fate>>

\* onBeforeUnload sends what is pending, and leaves entries and timers as they are.
BeforeUnload(b) ==
  LET due == {t \in Tasks : tab[b].pending[t] # NoTask}
  IN  /\ tab[b].open /\ due # {}
      /\ wire' = wire \cup {[kind |-> "keepalive", tab |-> b, entry |-> tab[b].pending[t]] : t \in due}
      /\ tab' = IF UnloadSurvived THEN tab ELSE [tab EXCEPT ![b].open = FALSE]
      /\ UNCHANGED <<board, today, fate, used>>

-----------------------------------------------------------------------------
(***************************************************************************)
(* The server, and the tab that hears from it.                             *)
(***************************************************************************)
\* broadcast tasks-changed: every open tab fetches the board again.
Announced(ws) ==
  /\ used.loads < MaxLoads
  /\ wire' = ws \cup UNION {Reload(b, used.loads + 1) : b \in {c \in Tabs : tab[c].open}}

\* applyTaskFields of a resolve: comment appended, labels replaced, mark stripped.
ApplyResolve(e) ==
  board' = [board EXCEPT ![e.task].log[e.op] = @ + 1, ![e.task].label = FALSE,
                         ![e.task].mark = FALSE, ![e.task].tag = e.tag,
                         ![e.task].status = e.status]

\* PATCH /api/tasks/:id.  The reload of .then is one more of the broadcast's kind.
ServePatch(m) ==
  /\ m \in wire /\ m.kind \in {"patch", "keepalive", "defer"}
  /\ IF m.kind = "defer" THEN board' = [board EXCEPT ![m.task].deferred = m.on]
     ELSE ApplyResolve(m.entry)
  /\ Announced(wire \ {m})
  /\ used' = [used EXCEPT !.loads = @ + 1]
  /\ UNCHANGED <<tab, today, fate>>

\* Mutant: the card of a write that failed stays hidden.
PatchFailsHidden(m) ==
  /\ m \in wire /\ m.kind \in {"patch", "keepalive"} /\ used.fails < MaxFails
  /\ used' = [used EXCEPT !.fails = @ + 1]
  /\ wire' = wire \ {m}
  /\ UNCHANGED <<board, tab, today, fate>>

\* A call that fails before it is served: the hide is lifted.
PatchFails(m) ==
  /\ m \in wire /\ m.kind \in {"patch", "keepalive"} /\ used.fails < MaxFails
  /\ used' = [used EXCEPT !.fails = @ + 1]
  /\ wire' = wire \ {m}
  /\ tab' = IF m.kind = "patch" THEN [tab EXCEPT ![m.tab].hidden = @ \ {m.entry.task}] ELSE tab
  /\ UNCHANGED <<board, today, fate>>

ServeGet(m) ==
  /\ m \in wire /\ m.kind = "get"
  /\ wire' = (wire \ {m}) \cup {[kind |-> "tasks", tab |-> m.tab, tasks |-> board]}
  /\ UNCHANGED <<board, tab, today, fate, used>>

\* An answer is applied as it comes: no sequence number, a late one wins.
Arrives(m) ==
  /\ m \in wire /\ m.kind = "tasks"
  /\ wire' = wire \ {m}
  /\ tab' = IF tab[m.tab].open THEN [tab EXCEPT ![m.tab] = Loaded(@, m.tasks)] ELSE tab
  /\ UNCHANGED <<board, today, fate, used>>

\* Another writer: the board's form, or an agent that labels the task.
Relabel(t) ==
  /\ used.edits < MaxEdits
  /\ board' = [board EXCEPT ![t].tag = ~@]
  /\ Announced(wire)
  /\ used' = [used EXCEPT !.edits = @ + 1, !.loads = @ + 1]
  /\ UNCHANGED <<tab, today, fate>>

NextDay ==
  /\ today < MaxDays
  /\ today' = today + 1
  /\ UNCHANGED <<board, tab, wire, fate, used>>

DeskInit ==
  /\ \E label \in BOOLEAN :
       board = [t \in Tasks |-> [label |-> label, mark |-> TRUE, tag |-> FALSE, status |-> "todo",
                                 deferred |-> 0, log |-> [op \in Ops |-> 0]]]
  /\ tab = [b \in Tabs |-> [open |-> TRUE, tasks |-> board, hidden |-> {}, toast |-> NoTask,
                            pending |-> [t \in Tasks |-> NoTask]]]
  /\ wire = {} /\ today = 1
  /\ fate = [op \in Ops |-> "none"]
  /\ used = [ops |-> 0, edits |-> 0, loads |-> 0, fails |-> 0]

DeskNext ==
  \/ \E b \in Tabs : UndoResolve(b) \/ BeforeUnload(b)
  \/ \E b \in Tabs, t \in Tasks : Resolve(b, t) \/ Flush(b, t) \/ Defer(b, t)
  \/ \E m \in wire : ServePatch(m) \/ PatchFails(m) \/ ServeGet(m) \/ Arrives(m)
  \/ \E t \in Tasks : Relabel(t)
  \/ NextDay

\* The types of the state; an entry is of the card it is kept for.
DeskTypeOK ==
  \A b \in Tabs :
    /\ tab[b].hidden \subseteq Tasks /\ tab[b].toast \in Tasks \cup {NoTask}
    /\ \A t \in Tasks : tab[b].pending[t] # NoTask => tab[b].pending[t].task = t

\* A resolve is written at most once, and one that was undone is not written at
\* all, whatever the order of timer, undo, page unload, answers and failures
\* (the comment over flush, and "an undone resolve leaves no trace").
ResolvedOnce ==
  \A op \in Ops, t \in Tasks : board[t].log[op] <= (IF fate[op] = "made" THEN 1 ELSE 0)

\* A decision that waits for the owner and is not snoozed is in the list of every
\* open tab sooner or later: a resolve that failed hides it only for a time.
Unseen(b, t) ==
  tab[b].open /\ IsParked(board[t]) /\ ~IsSnoozed(board[t]) /\ t \notin Parked(b)
ParkedIsShown == \A b \in Tabs, t \in Tasks : []<>~Unseen(b, t)

\* Timers fire, and what is on the wire arrives, is served or fails.
DeskFairness ==
  /\ \A b \in Tabs, t \in Tasks : WF_deskVars(Flush(b, t))
  /\ WF_deskVars(\E m \in wire : ServePatch(m) \/ PatchFails(m))
  /\ WF_deskVars(\E m \in wire : ServeGet(m) \/ Arrives(m))

DeskSpec == DeskInit /\ [][DeskNext]_deskVars /\ DeskFairness
=============================================================================

------------------------------ MODULE RunProgress ------------------------------
(***************************************************************************)
(* The transcript of one runner-routed run, from the agent on the laptop   *)
(* to the run panel.  ops/agent-runner.mjs posts every line the agent      *)
(* writes in a request of its own that it does not wait for, so lines can  *)
(* overtake each other and the result, and get lost.  The store appends    *)
(* them to the agent_jobs row; FileStore keeps only the last of them.  A   *)
(* poll folds the lines it has not folded before into the run, by a cursor *)
(* into the row, and the result closes the run.                            *)
(*                                                                         *)
(* A line is its number.  The last one is the terminal `result` event, of  *)
(* which the economics of the run are derived.                             *)
(***************************************************************************)
EXTENDS Integers, Sequences, SequencesExt

CONSTANTS
  LastLine,    \* bound: how many lines the agent writes
  LongLines,   \* those longer than the 500 characters the laptop posts of a line
  Capped,      \* TRUE: FileStore; FALSE: PgStore
  Cap          \* the 200 lines FileStore keeps

VARIABLES
  written,     \* lines the agent has written
  underway,    \* progress requests under way
  progress,    \* agent_jobs.progress
  settled,     \* the row has its result
  cursor,      \* run._progressCount
  shown,       \* lines folded into the run
  closed,      \* the run is no longer "running"
  economics    \* result.economics: "unknown" before the result, "derived" or "missing"

vars == <<written, underway, progress, settled, cursor, shown, closed, economics>>

Whole(n) == n \notin LongLines

Init ==
  /\ written = 0 /\ underway = {} /\ progress = <<>> /\ settled = FALSE
  /\ cursor = 0 /\ shown = <<>> /\ closed = FALSE
  /\ economics = "unknown"

\* onLine of processJob.
AgentWrites ==
  /\ written < LastLine
  /\ written' = written + 1
  /\ underway' = underway \cup {written + 1}
  /\ UNCHANGED <<progress, settled, cursor, shown, closed, economics>>

LastOf(lines, n) == SubSeq(lines, Len(lines) - n + 1, Len(lines))

Stored(lines) == IF Capped /\ Len(lines) > Cap THEN LastOf(lines, Cap) ELSE lines

\* appendAgentJobProgress; a settled row takes no more lines.
AppendAgentJobProgress(n) ==
  /\ n \in underway
  /\ underway' = underway \ {n}
  /\ progress' = IF settled THEN progress ELSE Stored(Append(progress, n))
  /\ UNCHANGED <<written, settled, cursor, shown, closed, economics>>

LoseProgress(n) ==
  /\ n \in underway
  /\ underway' = underway \ {n}
  /\ UNCHANGED <<written, progress, settled, cursor, shown, closed, economics>>

\* Mutant: the cursor is not read.
FoldFromStart == shown' = shown \o progress /\ cursor' = Len(progress)

\* foldRunnerProgress, over the lines from the cursor on.
FoldRunnerProgress ==
  /\ shown' = shown \o SubSeq(progress, cursor + 1, Len(progress))
  /\ cursor' = Len(progress)

\* syncRunnerRoutedRun on a poll.
Poll ==
  /\ ~closed
  /\ FoldRunnerProgress
  /\ closed' = settled
  /\ UNCHANGED <<written, underway, progress, settled, economics>>

\* deriveRunEconomicsFromProgress: a line cut short is no JSON event.
EconomicsIn(lines) == LastLine \in ToSet(lines) /\ Whole(LastLine)

\* The result endpoint, which closes the run, if the panel knows it, on the way.
ServeResult ==
  /\ written = LastLine /\ ~settled
  /\ settled' = TRUE
  /\ economics' = IF EconomicsIn(progress) THEN "derived" ELSE "missing"
  /\ FoldRunnerProgress /\ closed' = TRUE
  /\ UNCHANGED <<written, underway, progress>>

\* The runner gives up, or its lease is swept, without a result the server takes: the
\* row settles and the run is closed by the next poll.
RowDies ==
  /\ ~settled
  /\ settled' = TRUE
  /\ UNCHANGED <<written, underway, progress, cursor, shown, closed, economics>>

Next ==
  \/ AgentWrites \/ Poll \/ ServeResult \/ RowDies
  \/ \E n \in 1 .. LastLine : AppendAgentJobProgress(n) \/ LoseProgress(n)

Spec == Init /\ [][Next]_vars

-----------------------------------------------------------------------------
\* Lines are stored and shown once, none that was not written.
ProgressTypeOK ==
  /\ written \in 0 .. LastLine /\ underway \subseteq 1 .. written
  /\ IsInjective(progress) /\ ToSet(progress) \subseteq (1 .. written) \ underway
  /\ cursor \in 0 .. Len(progress)
  /\ settled \in BOOLEAN /\ closed \in BOOLEAN /\ economics \in {"unknown", "derived", "missing"}
  /\ closed => settled

\* No line is shown twice, whatever arrives between the polls and however late.
NoLineTwice == IsInjective(shown) /\ ToSet(shown) \subseteq 1 .. written

\* When the run is closed, every line of the row is in the transcript the panel shows,
\* those that came in after its last poll too: the comment on the cursor has each poll
\* consume the new lines.
ClosedRunShowsRow == closed => ToSet(progress) \subseteq ToSet(shown)

\* index.js, deriveRunEconomicsFromProgress: the laptop relays the terminal `result`
\* event verbatim, so the economics of a run whose event is in its row are known.
EconomicsDerived == economics = "missing" => LastLine \notin ToSet(progress)

-----------------------------------------------------------------------------
(***************************************************************************)
(* Why they hold over PgStore: what the panel shows is the beginning of    *)
(* the row, up to the cursor.  So a line shown is a line stored, and lines *)
(* are stored once, in whatever order they arrive.  (FileStore forgets the *)
(* first lines of a long run, and its cursor then points elsewhere.)       *)
(***************************************************************************)
LinesStored ==
  /\ written \in Nat /\ written <= LastLine
  /\ underway \subseteq 1 .. written
  /\ progress \in Seq(1 .. written)
  /\ IsInjective(progress)
  /\ \A i \in 1 .. Len(progress) : progress[i] \notin underway
  /\ settled \in BOOLEAN /\ closed \in BOOLEAN
  /\ economics \in {"unknown", "derived", "missing"}

ShownIsPrefix ==
  /\ cursor \in 0 .. Len(progress)
  /\ shown = SubSeq(progress, 1, cursor)
  /\ closed => settled /\ cursor = Len(progress)

ProgressInv == LinesStored /\ ShownIsPrefix
=============================================================================

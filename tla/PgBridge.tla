------------------------------- MODULE PgBridge -------------------------------
(***************************************************************************)
(* The synchronous bridge to Postgres: the main thread that posts a call   *)
(* and parks on a shared signal for 30 seconds at most (server/pg-sync.js), *)
(* the worker that owns the one connection (server/pg-worker.js), and the  *)
(* transactions that PgStore makes of calls (_tx, server/pg-store.js).     *)
(*                                                                         *)
(* Abstractions.  A handler is a single statement or a transaction of two; *)
(* a call names its handler and its operation, and an answer names its     *)
(* call.  Handlers run one after another, as routes do on the main thread. *)
(***************************************************************************)
EXTENDS Integers, Sequences, SequencesExt

CONSTANTS
  Handlers,
  Transactions,   \* those that use _tx
  Nobody,         \* no handler runs
  MaxTimeouts, MaxFailures, MaxKills   \* bounds

VARIABLES
  main,      \* the main thread: its handler, the call it is at, whether it is parked
  signal,    \* the shared word
  calls,     \* the port to the worker, then the queue of the pg client: both FIFO
  answers,   \* the port back
  posted,    \* whether the worker has yet to raise the signal for its last answer
  base,      \* the connection: committed and pending statements, its transaction
  told,      \* what each handler answered
  crossed,   \* history: whether an answer went to another call than its own
  tally      \* bounds

bridgeVars == <<main, signal, calls, answers, posted, base, told, crossed, tally>>

Spend(counter, most) == tally[counter] < most /\ tally' = [tally EXCEPT ![counter] = @ + 1]

-----------------------------------------------------------------------------
(***************************************************************************)
(* The main thread.                                                        *)
(***************************************************************************)
Idle == [h |-> Nobody, op |-> "none", parked |-> FALSE]

Statements(h) == IF h \in Transactions THEN {<<h, "first">>, <<h, "second">>} ELSE {<<h, "only">>}
FirstOp(h) == IF h \in Transactions THEN "begin" ELSE "only"

\* What a handler calls after a call that returned, and after one that threw: begin is
\* outside the try of _tx, and what a rollback answers is ignored.
AfterReturn(op) ==
  CASE op = "begin" -> "first" [] op = "first" -> "second" [] op = "second" -> "commit"
    [] op \in {"commit", "only"} -> "ok" [] op = "rollback" -> "error"
AfterThrow(op) == IF op \in {"first", "second", "commit"} THEN "rollback" ELSE "error"

Handle(h) ==
  /\ main = Idle /\ told[h] = "none"
  /\ main' = [h |-> h, op |-> FirstOp(h), parked |-> FALSE]
  /\ UNCHANGED <<signal, calls, answers, posted, base, told, crossed, tally>>

\* _call: the signal is lowered, then the call posted, then the thread parks.
Call ==
  /\ main # Idle /\ ~main.parked
  /\ signal' = 0 /\ calls' = Append(calls, <<main.h, main.op>>) /\ main' = [main EXCEPT !.parked = TRUE]
  /\ UNCHANGED <<answers, posted, base, told, crossed, tally>>

Goes(next) ==
  IF next \in {"ok", "error"}
  THEN main' = Idle /\ told' = [told EXCEPT ![main.h] = next]
  ELSE main' = [main EXCEPT !.op = next, !.parked = FALSE] /\ UNCHANGED told

\* Woken, the thread takes the first message of the port, whichever call it answers.
Wakes ==
  /\ main.parked /\ signal = 1
  /\ IF answers = <<>> THEN Goes(AfterThrow(main.op)) /\ UNCHANGED <<answers, crossed>>
     ELSE /\ answers' = Tail(answers)
          /\ crossed' = (crossed \/ Head(answers).call # <<main.h, main.op>>)
          /\ Goes(IF Head(answers).ok THEN AfterReturn(main.op) ELSE AfterThrow(main.op))
  /\ UNCHANGED <<signal, calls, posted, base, tally>>

\* CALL_TIMEOUT_MS: the call is given up, its answer is not.
TimesOut ==
  /\ main.parked /\ signal = 0 /\ Spend("timeouts", MaxTimeouts)
  /\ Goes(AfterThrow(main.op))
  /\ UNCHANGED <<signal, calls, answers, posted, base, crossed>>

-----------------------------------------------------------------------------
(***************************************************************************)
(* The worker and its connection.                                          *)
(***************************************************************************)
NoTransaction(committed) == [committed |-> committed, pending |-> {}, open |-> FALSE, failed |-> FALSE]

\* What a call does to the connection.  A begin in a transaction only warns; a commit of
\* a failed one rolls back and says ok.
Executed(call, fails) ==
  LET op == call[2]
  IN  CASE fails -> [base EXCEPT !.failed = base.open]
        [] ~fails /\ op = "begin" -> [base EXCEPT !.open = TRUE]
        [] ~fails /\ op = "commit" ->
             NoTransaction(IF base.failed THEN base.committed ELSE base.committed \cup base.pending)
        [] ~fails /\ op = "rollback" -> NoTransaction(base.committed)
        [] OTHER -> IF base.open THEN [base EXCEPT !.pending = @ \cup {call}]
                    ELSE [base EXCEPT !.committed = @ \cup {call}]

\* A statement may fail; in a failed transaction all do until it ends.
Fails(call) ==
  \/ base.failed /\ call[2] \notin {"commit", "rollback"} /\ UNCHANGED tally
  \/ ~base.failed /\ call[2] \in {"first", "second", "only"} /\ Spend("failures", MaxFailures)

Executes ==
  /\ calls # <<>> /\ ~posted
  /\ \E fails \in BOOLEAN :
       /\ IF fails THEN Fails(Head(calls))
          ELSE (base.failed => Head(calls)[2] \in {"commit", "rollback"}) /\ UNCHANGED tally
       /\ base' = Executed(Head(calls), fails)
       /\ answers' = Append(answers, [call |-> Head(calls), ok |-> ~fails])
  /\ calls' = Tail(calls) /\ posted' = TRUE
  /\ UNCHANGED <<main, signal, told, crossed>>

\* The answer is in the port before the signal is raised.
Raises ==
  /\ posted /\ signal' = 1 /\ posted' = FALSE
  /\ UNCHANGED <<main, calls, answers, base, told, crossed, tally>>

\* The connection breaks, which ends the worker and with it the process; the next one
\* has new ports.  The server rolls back what was open.
Restart ==
  /\ Spend("kills", MaxKills)
  /\ main' = Idle /\ signal' = 0 /\ calls' = <<>> /\ answers' = <<>> /\ posted' = FALSE
  /\ base' = NoTransaction(base.committed)
  /\ told' = IF main = Idle THEN told ELSE [told EXCEPT ![main.h] = "lost"]
  /\ UNCHANGED crossed

-----------------------------------------------------------------------------
BridgeInit ==
  /\ main = Idle /\ signal = 0 /\ calls = <<>> /\ answers = <<>> /\ posted = FALSE
  /\ base = NoTransaction({}) /\ told = [h \in Handlers |-> "none"] /\ crossed = FALSE
  /\ tally = [timeouts |-> 0, failures |-> 0, kills |-> 0]

BridgeNext ==
  \/ \E h \in Handlers : Handle(h)
  \/ Call \/ Wakes \/ TimesOut \/ Executes \/ Raises \/ Restart

BridgeSpec == BridgeInit /\ [][BridgeNext]_bridgeVars

-----------------------------------------------------------------------------
(***************************************************************************)
(* Properties.                                                             *)
(***************************************************************************)
\* As long as no call timed out, there is at most one answer under way.
BridgeTypeOK ==
  /\ base.committed \cup base.pending \subseteq UNION {Statements(h) : h \in Handlers}
  /\ base.pending # {} \/ base.failed => base.open
  /\ tally.timeouts = 0 => Len(calls) + Len(answers) <= 1

\* A transaction is committed whole or not at all, whatever times out or breaks.
TransactionsAreWhole ==
  \A h \in Transactions : Statements(h) \subseteq base.committed \/ Statements(h) \cap base.committed = {}

\* Whether each handler is told what happened to it: its writes are in the database
\* when it says so, and not when it fails.
Truthful ==
  \A h \in Handlers :
    /\ told[h] = "ok" => Statements(h) \subseteq base.committed
    /\ told[h] = "error" => Statements(h) \cap base.committed = {}

\* Until a call times out, each gets its own answer and each handler the truth.
TruthUntilTimeout == tally.timeouts = 0 => Truthful /\ ~crossed

\* "the main thread blocks on Atomics.wait until this worker posts the result back"
\* (server/pg-worker.js:10-11): the result of its own call, also after one was given up.
OwnAnswer == ~crossed

\* "a blocking .connect()/.query()/.close() so PgStore can present the SAME synchronous
\* interface FileStore does" (server/pg-sync.js:2-3): what was written is written.
ToldOkIsStored == \A h \in Handlers : told[h] = "ok" => Statements(h) \subseteq base.committed

-----------------------------------------------------------------------------
(***************************************************************************)
(* The inductive invariants.  First, what a timeout cannot break: calls    *)
(* are executed in the order in which they were posted, so that before     *)
(* each the connection is as the one before it, executed or failed, has    *)
(* left it.                                                                *)
(***************************************************************************)
Counts == [timeouts : Nat, failures : Nat, kills : Nat]
Operations == {"begin", "first", "second", "commit", "only", "rollback"}
BridgeCalls == Handlers \X Operations
Opens(call) == call[2] \in {"begin", "only"}

\* What may be posted next after a call: what its handler goes on with, or, when it is
\* over, whatever opens another.
Follows(a, b) ==
  \/ a[2] \in {"begin", "commit", "only", "rollback"} /\ Opens(b)
  \/ a[2] = "begin" /\ b = <<a[1], "first">>
  \/ a[2] = "first" /\ b = <<a[1], "second">>
  \/ a[2] = "second" /\ b = <<a[1], "commit">>
  \/ a[2] \in {"first", "second", "commit"} /\ b = <<a[1], "rollback">>

\* The statements of transactions that wait for their commit.
Uncommitted == {c \in base.pending : c[2] \in {"first", "second"}}

\* How a call finds the connection.
Finds(call) ==
  /\ Opens(call) => Uncommitted = {}
  /\ call[2] = "first" => base.open /\ Uncommitted = {}
  /\ call[2] = "second" => base.open /\ (base.failed \/ Uncommitted = {<<call[1], "first">>})
  /\ call[2] = "commit" =>
       base.open /\ (base.failed \/ Uncommitted = {<<call[1], "first">>, <<call[1], "second">>})

\* A call may be posted next.
ComesNext(call) ==
  IF calls = <<>> THEN Finds(call) ELSE Follows(calls[Len(calls)], call)

InOrder ==
  /\ \A i \in 1..(Len(calls) - 1) : Follows(calls[i], calls[i + 1])
  /\ calls # <<>> => Finds(calls[1])
  /\ main = Idle => \A b \in BridgeCalls : Opens(b) => ComesNext(b)
  /\ main # Idle /\ ~main.parked => ComesNext(<<main.h, main.op>>)
  /\ main # Idle /\ main.parked => \A b \in BridgeCalls : Follows(<<main.h, main.op>>, b) => ComesNext(b)

Connected ==
  /\ base = [committed |-> base.committed, pending |-> base.pending, open |-> base.open,
             failed |-> base.failed]
  /\ base.open \in BOOLEAN /\ base.failed \in BOOLEAN
  /\ base.failed => base.open
  /\ base.pending # {} => base.open

BridgeTyped ==
  /\ main \in [h : Handlers, op : Operations, parked : BOOLEAN] \cup {Idle}
  /\ calls \in Seq(BridgeCalls) /\ tally \in Counts
  /\ told \in [Handlers -> {"none", "ok", "error", "lost"}]

WholeInv == BridgeTyped /\ Connected /\ InOrder /\ TransactionsAreWhole

-----------------------------------------------------------------------------
(***************************************************************************)
(* Second, as long as no call timed out: one call is under way at most,    *)
(* and the connection is where the handler believes it to be.              *)
(***************************************************************************)
Clean == base.pending = {} /\ ~base.open /\ ~base.failed
Untouched(h) == Statements(h) \cap base.committed = {}
Healthy == base.open /\ ~base.failed

\* The connection when handler h is about to do something, or is over.
Stage(h, next) ==
  /\ next \in Operations \cup {"error"} => Untouched(h)
  /\ next \in {"begin", "only", "ok", "error"} => Clean
  /\ next = "only" => h \notin Transactions
  /\ next \in {"begin", "first", "second", "commit"} => h \in Transactions
  /\ next = "first" => Healthy /\ base.pending = {}
  /\ next = "second" => Healthy /\ base.pending = {<<h, "first">>}
  /\ next = "commit" => Healthy /\ base.pending = Statements(h)
  /\ next = "ok" => Statements(h) \subseteq base.committed

AfterAnswer(op, ok) == IF ok THEN AfterReturn(op) ELSE AfterThrow(op)

\* The call under way waits to be executed, or was and its answer is its own.
OneUnderWay ==
  \/ /\ calls = <<<<main.h, main.op>>>> /\ answers = <<>> /\ ~posted /\ signal = 0
     /\ Stage(main.h, main.op)
  \/ \E ok \in BOOLEAN :
       /\ calls = <<>> /\ answers = <<[call |-> <<main.h, main.op>>, ok |-> ok]>>
       /\ (posted /\ signal = 0) \/ (~posted /\ signal = 1)
       /\ Stage(main.h, AfterAnswer(main.op, ok))

Undisturbed ==
  /\ ~crossed /\ Truthful
  /\ main = Idle => Clean
  /\ main # Idle => told[main.h] = "none"
  /\ \A h \in Handlers : told[h] = "none" /\ (main = Idle \/ main.h # h) => Untouched(h)
  /\ main = Idle \/ ~main.parked => calls = <<>> /\ answers = <<>> /\ ~posted
  /\ main # Idle /\ ~main.parked => Stage(main.h, main.op)
  /\ main # Idle /\ main.parked => OneUnderWay

BridgeInv == WholeInv /\ (tally.timeouts = 0 => Undisturbed)
=============================================================================

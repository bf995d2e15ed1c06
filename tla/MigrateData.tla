----------------------------- MODULE MigrateData -----------------------------
(***************************************************************************)
(* The move of the owner's files into Postgres (ops/migrate-data.mjs after *)
(* ops/migrate.mjs): a strict read of every domain, one transaction, and a *)
(* comparison of both stores, beside an application that still writes the  *)
(* files, a server that already writes the target, and a second run.       *)
(*                                                                         *)
(* Abstractions.  A domain's content is a version: an edit makes the next, *)
(* 0 is what the cloud wrote.  A stream (a JSONL file) has no ids; every   *)
(* other domain has the owner's ids, which clash with themselves and not   *)
(* with those the cloud makes.  Broken stands for whatever the strict read *)
(* refuses, a jobs directory that is not there too; the tolerant stores see *)
(* nothing in it.                                                          *)
(***************************************************************************)
EXTENDS Integers, Sequences

CONSTANTS
  Runs,         \* runs of the script
  Order,        \* the domains, in the order they are read, imported and compared
  Streams,      \* domains without ids
  Inventoried,  \* domains whose comparison goes by what was read, not read again
  Missing, Broken,
  MaxChanges, MaxFaults   \* bounds

VARIABLES
  source,   \* the file side: per domain its version, Missing or Broken
  schema,   \* ops/migrate.mjs has made the tables
  target,   \* the tables: per domain its rows, each a version and who put it there
  run,      \* the runs of the script
  dirty,    \* history: per run, what changed after it last looked there
  count     \* bounds

migrateVars == <<source, schema, target, run, dirty, count>>

AllDomains == {Order[k] : k \in DOMAIN Order}
Spend(counter, most) == count[counter] < most /\ count' = [count EXCEPT ![counter] = @ + 1]

Waiting == [pc |-> "idle", at |-> 1, mode |-> "import",
            ds |-> [d \in AllDomains |-> Missing], open |-> {}, differs |-> FALSE, report |-> "none"]

\* The next domain of a run, and the run once it is done with it.
NextDomain(i) == Order[run[i].at]
Passed(i) == run[i].at = Len(Order)
Advance(i, then) ==
  [run[i] EXCEPT !.at = IF Passed(i) THEN 1 ELSE @ + 1, !.pc = IF Passed(i) THEN then ELSE @]

\* Process exit, with the transaction rolled back if one was open.
Ended(r, report) == [r EXCEPT !.pc = "ended", !.open = {}, !.report = report]
End(i, report) == run' = [run EXCEPT ![i] = Ended(@, report)]

-----------------------------------------------------------------------------
(***************************************************************************)
(* What both sides hold.                                                   *)
(***************************************************************************)
Versions(rows) == [k \in DOMAIN rows |-> rows[k].version]
Stored(version) == IF version \in {Missing, Broken} THEN <<>> ELSE <<version>>

\* verifyEquivalence, of one domain.  Jobs are compared with what was read too, which
\* they equal when the files do; a task board or attachments that were not there when
\* they were read are not looked for again.
Matches(i, d) ==
  IF d \in Inventoried /\ run[i].ds[d] = Missing THEN target[d] = <<>>
  ELSE Versions(target[d]) = Stored(source[d])

\* The domains a run does not look at again.
Behind(i, d) ==
  \/ run[i].pc = "ended"
  \/ run[i].pc = "verify" /\ \E k \in 1..(run[i].at - 1) : Order[k] = d
  \/ d \in Inventoried /\ run[i].ds[d] = Missing /\ run[i].pc \notin {"idle", "read"}
  \/ d \in Inventoried /\ run[i].pc = "read" /\ \E k \in 1..(run[i].at - 1) : Order[k] = d

Touched(changed) == dirty' = [i \in Runs |-> dirty[i] \cup {d \in changed : Behind(i, d)}]

-----------------------------------------------------------------------------
(***************************************************************************)
(* A run of the script.                                                    *)
(***************************************************************************)
Start(i) ==
  /\ run[i].pc = "idle"
  /\ run' = [run EXCEPT ![i].pc = "read"]
  /\ UNCHANGED <<source, schema, target, dirty, count>>

\* What a strict read does not take: an entry that is not expected, a file that does not
\* parse, a value of another type, an id twice, a record without its blob.
Refused(content) == content = Broken

\* readSourceDataset, a domain at a time; a refusal ends the run before it has a
\* connection.
Read(i) ==
  /\ run[i].pc = "read"
  /\ IF Refused(source[NextDomain(i)]) THEN End(i, "aborted")
     ELSE run' = [run EXCEPT ![i] = [Advance(i, "check") EXCEPT !.ds[NextDomain(i)] = source[NextDomain(i)]]]
  /\ UNCHANGED <<source, schema, target, dirty, count>>

\* The thirteen tables are counted; the board's columns, which a fresh target has, are not.
EmptyTarget == \A d \in AllDomains : target[d] = <<>>

\* assertSchemaMigrated and assertEmptyTarget.  The options of the command line count
\* from here.
Check(i) ==
  /\ run[i].pc = "check"
  /\ IF ~schema THEN End(i, "aborted")
     ELSE \/ run' = [run EXCEPT ![i] = [@ EXCEPT !.pc = "verify", !.mode = "verify-only"]]
          \/ ~EmptyTarget /\ run' = [run EXCEPT ![i] = [@ EXCEPT !.pc = "import", !.mode = "bypass"]]
          \/ EmptyTarget /\ run' = [run EXCEPT ![i].pc = "import"]
          \/ ~EmptyTarget /\ End(i, "refused")
  /\ UNCHANGED <<source, schema, target, dirty, count>>

\* An insert waits for another transaction with the same ids, and fails when these
\* are in the table.
Waits(i, d) == d \notin Streams /\ \E j \in Runs \ {i} : d \in run[j].open
Clashes(d) == d \notin Streams /\ \E k \in DOMAIN target[d] : target[d][k].by \in Runs

\* importDataset, a domain at a time, in one transaction.
Import(i) ==
  LET d == NextDomain(i)
  IN  /\ run[i].pc = "import"
      /\ IF run[i].ds[d] = Missing THEN run' = [run EXCEPT ![i] = Advance(i, "commit")]
         ELSE /\ ~Waits(i, d)
              /\ IF Clashes(d) THEN End(i, "failed")
                 ELSE run' = [run EXCEPT ![i] = [Advance(i, "commit") EXCEPT !.open = @ \cup {d}]]
  /\ UNCHANGED <<source, schema, target, dirty, count>>

Committed(i) ==
  /\ target' = [d \in AllDomains |->
       IF d \in run[i].open THEN Append(target[d], [by |-> i, version |-> run[i].ds[d]]) ELSE target[d]]
  /\ dirty' = [j \in Runs |-> IF j = i THEN dirty[j]
                              ELSE dirty[j] \cup {d \in run[i].open : Behind(j, d)}]

Commit(i) ==
  /\ run[i].pc = "commit" /\ Committed(i)
  /\ run' = [run EXCEPT ![i] = [@ EXCEPT !.pc = "verify", !.open = {}]]
  /\ UNCHANGED <<source, schema, count>>

\* The FileStore reads the files anew.
Compare(i) ==
  LET d == NextDomain(i)
      differs == run[i].differs \/ ~Matches(i, d)
  IN  /\ run[i].pc = "verify"
      /\ IF d \in Streams /\ source[d] = Broken THEN End(i, "aborted")
         ELSE IF ~Passed(i) THEN run' = [run EXCEPT ![i] = [Advance(i, "verify") EXCEPT !.differs = differs]]
         ELSE End(i, IF differs THEN "mismatch" ELSE "match")
  /\ UNCHANGED <<source, schema, target, dirty, count>>

\* The connection goes, which the server takes for a rollback; or the answer to the
\* commit does.
ConnectionLost(i) ==
  /\ Spend("faults", MaxFaults)
  /\ \/ run[i].pc \in {"check", "verify"} /\ End(i, "aborted") /\ UNCHANGED <<target, dirty>>
     \/ run[i].pc \in {"import", "commit"} /\ End(i, "failed") /\ UNCHANGED <<target, dirty>>
     \/ run[i].pc = "commit" /\ End(i, "failed") /\ Committed(i)
  /\ UNCHANGED <<source, schema>>

Killed(i) ==
  /\ run[i].pc \notin {"idle", "ended"} /\ Spend("faults", MaxFaults) /\ End(i, "none")
  /\ UNCHANGED <<source, schema, target, dirty>>

-----------------------------------------------------------------------------
(***************************************************************************)
(* Meanwhile.                                                              *)
(***************************************************************************)
\* ops/migrate.mjs, which applies what has not been applied.
Migrate == ~schema /\ schema' = TRUE /\ UNCHANGED <<source, target, run, dirty, count>>

\* The application writes its files.
Edit(d) ==
  /\ Spend("changes", MaxChanges)
  /\ \E content \in {count.changes + 2, Broken} : source' = [source EXCEPT ![d] = content]
  /\ Touched({d}) /\ UNCHANGED <<schema, target, run>>

\* So does a server on the target.
CloudWrites(d) ==
  /\ schema /\ Spend("changes", MaxChanges)
  /\ target' = [target EXCEPT ![d] = Append(@, [by |-> "cloud", version |-> 0])]
  /\ Touched({d}) /\ UNCHANGED <<source, schema, run>>

\* The TRUNCATE that is printed, which waits for open transactions.
Wipe ==
  /\ schema /\ Spend("changes", MaxChanges) /\ \A i \in Runs : run[i].open = {}
  /\ target' = [d \in AllDomains |-> <<>>]
  /\ Touched(AllDomains) /\ UNCHANGED <<source, schema, run>>

-----------------------------------------------------------------------------
\* There are jobs.
MigrateInit ==
  /\ \E first \in [AllDomains -> {Missing, 1}] : source = first /\ first[Order[1]] = 1
  /\ schema = FALSE /\ target = [d \in AllDomains |-> <<>>]
  /\ run = [i \in Runs |-> Waiting] /\ dirty = [i \in Runs |-> {}]
  /\ count = [changes |-> 0, faults |-> 0]

MigrateNext ==
  \/ \E i \in Runs : Start(i) \/ Read(i) \/ Check(i) \/ Import(i) \/ Commit(i) \/ Compare(i)
                     \/ ConnectionLost(i) \/ Killed(i)
  \/ \E d \in AllDomains : Edit(d) \/ CloudWrites(d)
  \/ Migrate \/ Wipe

MigrateSpec == MigrateInit /\ [][MigrateNext]_migrateVars

-----------------------------------------------------------------------------
(***************************************************************************)
(* Properties.                                                             *)
(***************************************************************************)
\* Everything keeps its type, and only a transaction holds rows that are not committed.
MigrateTypeOK ==
  /\ \A d \in AllDomains : source[d] \in {Missing, Broken} \cup 1..(MaxChanges + 1)
  /\ \A i \in Runs :
       /\ run[i].at \in DOMAIN Order
       /\ run[i].open # {} => run[i].pc \in {"import", "commit"}
       /\ dirty[i] \subseteq AllDomains
  /\ ~schema => \A d \in AllDomains : target[d] = <<>>

\* A run that reports that all domains match is right about every domain that nobody
\* has changed since it looked there.
MatchIsTrue ==
  \A i \in Runs : run[i].report = "match" =>
    \A d \in AllDomains \ dirty[i] : Versions(target[d]) = Stored(source[d])

\* No two runs fill the tables, unless the owner waived the check, and none leaves a
\* part of what it read.
ImportedOnce ==
  \A i, j \in Runs : \A d, e \in AllDomains :
    LET By(n, domain) == \E k \in DOMAIN target[domain] : target[domain][k].by = n
    IN  /\ By(i, d) /\ By(j, e) /\ i # j => "bypass" \in {run[i].mode, run[j].mode}
        /\ By(i, d) /\ run[i].ds[e] # Missing => By(i, e)

\* "[import] FAILED - transaction rolled back; the target is unchanged."
\* (ops/migrate-data.mjs:1084).
FailedIsUnchanged ==
  \A i \in Runs : run[i].report = "failed" =>
    \A d \in AllDomains : \A k \in DOMAIN target[d] : target[d][k].by # i

\* "exits non-zero on ANY mismatch" (ops/migrate-data.mjs:21): a domain that differs
\* when its turn comes is told.
AnyMismatchIsTold ==
  [][ \A i \in Runs :
        LET d == NextDomain(i)
        IN  run[i].pc = "verify" /\ run'[i] # run[i] /\ Versions(target[d]) # Stored(source[d]) =>
              run'[i].report # "match" /\ (run'[i].pc = "verify" => run'[i].differs) ]_migrateVars

-----------------------------------------------------------------------------
(***************************************************************************)
(* Why they hold, for any number of runs, domains, edits and failures.     *)
(*                                                                         *)
(* That no two runs fill the tables has one reason: the domain that is     *)
(* read first always is there and has ids.  Whoever fills the tables holds *)
(* it open from his first insert until he commits, which keeps others      *)
(* waiting, and its ids refuse them afterwards; the check for empty tables *)
(* is not needed for it, and the waiver of that check does not change it.  *)
(***************************************************************************)
\* What is assumed of the domains and of the values.
Movable ==
  /\ Len(Order) \in Nat \ {0} /\ DOMAIN Order = 1..Len(Order) /\ Order[1] \notin Streams
  /\ "cloud" \notin Runs /\ Missing \notin Nat /\ Broken \notin Nat /\ Missing # Broken
  /\ MaxChanges \in Nat

First == Order[1]
Contents == {Missing, Broken} \cup Nat
Positions == 1..Len(Order)
TableRows == [by : Runs \cup {"cloud"}, version : Contents]

Scripts == [pc : {"idle", "read", "check", "import", "commit", "verify", "ended"},
            at : Positions, mode : {"import", "bypass", "verify-only"},
            ds : [AllDomains -> Contents], open : SUBSET AllDomains, differs : BOOLEAN,
            report : {"none", "aborted", "refused", "failed", "mismatch", "match"}]

Types ==
  /\ source \in [AllDomains -> Contents] /\ schema \in BOOLEAN
  /\ target \in [AllDomains -> Seq(TableRows)] /\ run \in [Runs -> Scripts]
  /\ dirty \in [Runs -> SUBSET AllDomains]
  /\ count \in [{"changes", "faults"} -> Nat]

\* What bounds the versions of the files, and what a database without tables holds.
Bounded ==
  /\ count["changes"] <= MaxChanges
  /\ \A d \in AllDomains : source[d] \in {Missing, Broken} \cup 1..(count["changes"] + 1)
  /\ source[First] # Missing
  /\ ~schema => \A d \in AllDomains : target[d] = <<>>

\* Domain d was put there by run i.
By(i, d) == \E k \in DOMAIN target[d] : target[d][k].by = i

\* A run reads all, inserts what it read in the order of the domains, and compares.
InOrder(i) ==
  /\ run[i].pc \in {"idle", "check", "commit"} => run[i].at = 1
  /\ run[i].pc \in {"import", "commit", "verify"} => schema
  /\ run[i].pc \in {"check", "import", "commit"} \/ (run[i].pc = "read" /\ run[i].at > 1)
     => run[i].ds[First] # Missing
  /\ run[i].pc \notin {"import", "commit"} => run[i].open = {}
  /\ run[i].pc = "import" =>
       /\ \A k \in 1..run[i].at - 1 : run[i].ds[Order[k]] # Missing => Order[k] \in run[i].open
       /\ run[i].at = 1 => run[i].open = {}
  /\ run[i].pc = "commit" =>
       \A d \in AllDomains : run[i].ds[d] # Missing => d \in run[i].open
  /\ run[i].report # "none" => run[i].pc = "ended"

\* Who put something there put all there that he had read.
Filled(i) ==
  (\E d \in AllDomains : By(i, d)) =>
    /\ run[i].pc \in {"verify", "ended"}
    /\ run[i].ds[First] # Missing
    /\ \A e \in AllDomains : run[i].ds[e] # Missing => By(i, e)

\* The first domain is held by one run, and only while it is nobody's.
FirstIsGuarded ==
  /\ \A i, j \in Runs : First \in run[i].open \cap run[j].open => i = j
  /\ \A i \in Runs : First \in run[i].open => \A j \in Runs : ~By(j, First)
  /\ \A i, j \in Runs : By(i, First) /\ By(j, First) => i = j

Same(d) == Versions(target[d]) = Stored(source[d])

\* What a run has looked at is as it saw it, unless it was changed since.
Looked(i) ==
  /\ run[i].pc = "verify" /\ ~run[i].differs =>
       \A k \in 1..run[i].at - 1 : Order[k] \notin dirty[i] => Same(Order[k])
  /\ run[i].report = "match" => \A d \in AllDomains \ dirty[i] : Same(d)

NotThere(i) ==
  \A d \in Inventoried \cap AllDomains : run[i].ds[d] = Missing /\ d \notin dirty[i] =>
    /\ run[i].pc \in {"check", "import", "commit", "verify"} => source[d] = Missing
    /\ run[i].pc = "read" /\ (\E k \in 1..run[i].at - 1 : Order[k] = d) => source[d] = Missing

MoveInv ==
  /\ Types /\ Bounded /\ FirstIsGuarded
  /\ \A i \in Runs : InOrder(i) /\ Filled(i) /\ Looked(i) /\ NotThere(i)

\* No two runs fill the tables, whether the check for empty tables was waived or not.
OneFills == \A i, j \in Runs : \A d, e \in AllDomains : By(i, d) /\ By(j, e) => i = j
=============================================================================

------------------------------- MODULE ApifyRuns -------------------------------
(***************************************************************************)
(* The paid connector (the Apify section of server/index.js): a source of  *)
(* type apify is run by the server itself, by a click or by the sweep of   *)
(* all due sources, behind a switch, a cap per sweep and a monthly cap     *)
(* that is counted from the histories of the sources.                      *)
(*                                                                         *)
(* Abstractions.  A history holds the outcomes of this month's runs, the   *)
(* newest last; the finds of a run are left out (SourceRuns, TriageInbox). *)
(* A launch reads the finds before it does anything: `reading` holds the   *)
(* launches that wait for that read, with what a mutant would remember.    *)
(***************************************************************************)
EXTENDS Naturals, Sequences, FiniteSets, FiniteSetsExt, SequencesExt

CONSTANTS
  Feeds,                    \* the apify sources
  MonthlyCap, SweepCap, MaxSlots,
  MaxHistory,               \* MAX_SOURCE_RUNS
  MaxPaid, MaxRemoved       \* bounds: launches, sources deleted, months and restarts

VARIABLES
  feeds,      \* here: sources of type apify; runs: their histories
  waitQueue,  \* the queue of launches
  reading,    \* launches that wait for the finds: the source, by the queue or not, and
              \* whether the cap left room when it was asked for
  flows,      \* paid runs under way in this process: their sources, with the place
              \* in the month's order
  enabled,    \* apifyConfigured
  paid,       \* (ghost) runs started this month
  forgotten,  \* (ghost) runs of this month that no history holds any more
  removed     \* bound

apifyVars == <<feeds, waitQueue, reading, flows, enabled, paid, forgotten, removed>>

Outcomes == {"running", "succeeded", "failed", "incomplete"}
History == Seq([n : 1..MaxPaid, outcome : Outcomes])

\* countApifyRunsThisMonth: the records of this month, each by its source and place.
MonthRuns == UNION {{f} \X DOMAIN feeds.runs[f] : f \in feeds.here}
MonthCount == Cardinality(MonthRuns)
Room == MonthCount < MonthlyCap
Running(f) == \E i \in DOMAIN feeds.runs[f] : feeds.runs[f][i].outcome = "running"
Slots == Cardinality(flows) + Cardinality({r \in reading : r.queued})

\* capRuns: the newest are kept.
CapRuns(runs) == IF Len(runs) > MaxHistory THEN Tail(runs) ELSE runs

-----------------------------------------------------------------------------
Click(f) == [feed |-> f, queued |-> FALSE, room |-> Room]
FromQueue(f) == [feed |-> f, queued |-> TRUE, room |-> Room]

\* POST .../run: its checks, and the read of the finds.
PostRun(f) ==
  /\ f \in feeds.here /\ ~Running(f) /\ Cardinality(flows) < MaxSlots
  /\ Cardinality(reading) < 2
  /\ reading' = reading \cup {Click(f)}
  /\ UNCHANGED <<feeds, waitQueue, flows, enabled, paid, forgotten, removed>>

\* run-all-due: the due sources that are not queued nor running, as many as the sweep
\* and the month allow, and those that are left stay due.
Sweep ==
  LET due == {f \in feeds.here : ~Running(f) /\ ~Contains(waitQueue, f)}
      budget == IF MonthlyCap > MonthCount THEN Min({SweepCap, MonthlyCap - MonthCount}) ELSE 0
  IN  /\ enabled
      /\ \E chosen \in SUBSET due :
           /\ chosen # {} /\ Cardinality(chosen) <= budget
           /\ waitQueue' = waitQueue \o SetToSeq(chosen)
      /\ UNCHANGED <<feeds, reading, flows, enabled, paid, forgotten, removed>>

\* processQueue: a launch takes its slot before it reads.
ProcessQueue ==
  /\ waitQueue # <<>> /\ Slots < MaxSlots
  /\ reading' = reading \cup {FromQueue(Head(waitQueue))}
  /\ waitQueue' = Tail(waitQueue)
  /\ UNCHANGED <<feeds, flows, enabled, paid, forgotten, removed>>

\* Mutant: the switch and the cap are looked at before the finds are read.
RoomWhenAsked(r) == enabled /\ r.room

\* The switch and the cap are looked at after the finds are read.
MayPay(r) == enabled /\ Room

\* "a run is already in progress for this source".
NotRunning(r) == ~Running(r.feed)

\* launchSourceRun, after the read: the run starts and its record is kept, in one step.
Launch(r) ==
  LET runs == Append(feeds.runs[r.feed], [n |-> paid + 1, outcome |-> "running"])
  IN  /\ r \in reading /\ paid < MaxPaid
      /\ r.feed \in feeds.here /\ NotRunning(r) /\ MayPay(r)
      /\ reading' = reading \ {r}
      /\ flows' = flows \cup {[feed |-> r.feed, n |-> paid + 1]}
      /\ feeds' = [feeds EXCEPT !.runs[r.feed] = CapRuns(runs)]
      /\ paid' = paid + 1
      /\ forgotten' = IF Len(runs) > MaxHistory THEN forgotten + 1 ELSE forgotten
      /\ UNCHANGED <<waitQueue, enabled, removed>>

\* 404, 409, 400, 429: nothing is recorded.
Refuse(r) ==
  /\ r \in reading
  /\ ~(r.feed \in feeds.here /\ NotRunning(r) /\ MayPay(r))
  /\ reading' = reading \ {r}
  /\ UNCHANGED <<feeds, waitQueue, flows, enabled, paid, forgotten, removed>>

\* runApifyFlow and finishApifyRun: the record of the run gets its outcome, or else
\* the one that is running.
Finish(w, outcome) ==
  LET runs == feeds.runs[w.feed]
      own == {i \in DOMAIN runs : runs[i].n = w.n}
      rec == IF own # {} THEN own ELSE {i \in DOMAIN runs : runs[i].outcome = "running"}
  IN  /\ w \in flows
      /\ flows' = flows \ {w}
      /\ feeds' = [feeds EXCEPT !.runs[w.feed] =
                     [i \in DOMAIN runs |-> IF i \in rec THEN [runs[i] EXCEPT !.outcome = outcome]
                                            ELSE runs[i]]]
      /\ UNCHANGED <<waitQueue, reading, enabled, paid, forgotten, removed>>

-----------------------------------------------------------------------------
\* The owner deletes a source, or gives it another type: its runs no longer count.
RemoveFeed(f) ==
  /\ removed < MaxRemoved /\ f \in feeds.here
  /\ feeds' = [here |-> feeds.here \ {f}, runs |-> [feeds.runs EXCEPT ![f] = <<>>]]
  /\ forgotten' = forgotten + Len(feeds.runs[f])
  /\ removed' = removed + 1
  /\ UNCHANGED <<waitQueue, reading, flows, enabled, paid>>

\* It is added again, under the same id.
AddAgain(f) ==
  /\ f \notin feeds.here
  /\ feeds' = [feeds EXCEPT !.here = @ \cup {f}]
  /\ UNCHANGED <<waitQueue, reading, flows, enabled, paid, forgotten, removed>>

\* The owner's switch, at a start of the server: what was under way is gone, and
\* reconcileStalledSourceRuns closes its records later.
Restart ==
  /\ removed < MaxRemoved
  /\ removed' = removed + 1
  /\ enabled' \in BOOLEAN
  /\ waitQueue' = <<>> /\ reading' = {} /\ flows' = {}
  /\ UNCHANGED <<feeds, paid, forgotten>>

\* reconcileStalledSourceRuns: a record whose run died with the process; a run that
\* is alive ends within the half hour.
Stalled(f) ==
  /\ Running(f) /\ \A w \in flows : w.feed # f
  /\ feeds' = [feeds EXCEPT !.runs[f] =
       [i \in DOMAIN @ |-> IF @[i].outcome = "running" THEN [@[i] EXCEPT !.outcome = "incomplete"]
                           ELSE @[i]]]
  /\ UNCHANGED <<waitQueue, reading, flows, enabled, paid, forgotten, removed>>

ApifyInit ==
  /\ feeds = [here |-> Feeds, runs |-> [f \in Feeds |-> <<>>]]
  /\ waitQueue = <<>> /\ reading = {} /\ flows = {}
  /\ enabled \in BOOLEAN
  /\ paid = 0 /\ forgotten = 0 /\ removed = 0

ApifyNext ==
  \/ \E f \in Feeds : PostRun(f) \/ RemoveFeed(f) \/ AddAgain(f) \/ Stalled(f)
  \/ \E r \in reading : Launch(r) \/ Refuse(r)
  \/ \E w \in flows, outcome \in {"succeeded", "failed"} : Finish(w, outcome)
  \/ Sweep \/ ProcessQueue \/ Restart

ApifySpec == ApifyInit /\ [][ApifyNext]_apifyVars

-----------------------------------------------------------------------------
(***************************************************************************)
(* Properties.                                                             *)
(***************************************************************************)
\* The types of the state.
ApifyTypeOK ==
  /\ feeds.here \subseteq Feeds /\ \A f \in Feeds : feeds.runs[f] \in History
  /\ \A i \in DOMAIN waitQueue : waitQueue[i] \in Feeds
  /\ \A w \in flows : w.feed \in Feeds /\ w.n <= paid

\* Clicks, a sweep, its drain and launches that wait for the finds together start no
\* more runs in a month than its cap, but for the runs that the histories have lost (a
\* deleted source, a history at its limit), which are the only ledger.
SpendWithinCap == paid <= MonthlyCap + forgotten

\* No source has two paid runs under way, as long as no source was removed.
OnePaidRun ==
  removed = 0 => \A v, w \in flows : v.feed = w.feed => v = w

-----------------------------------------------------------------------------
(***************************************************************************)
(* The inductive invariant.  Every run that was started is in a history,   *)
(* or was counted when a history lost it; a run that is under way has its  *)
(* own record there, which still says so, and no other does.               *)
(***************************************************************************)
PaidRecords == [n : Nat, outcome : Outcomes]
PaidFlows == [feed : Feeds, n : Nat]

HistoriesTyped ==
  /\ feeds = [here |-> feeds.here, runs |-> feeds.runs]
  /\ feeds.here \subseteq Feeds /\ feeds.runs \in [Feeds -> Seq(PaidRecords)]
  /\ flows \subseteq PaidFlows
  /\ paid \in Nat /\ forgotten \in Nat /\ removed \in Nat

HistoriesKept ==
  /\ \A f \in Feeds : Len(feeds.runs[f]) <= MaxHistory
  /\ \A f \in Feeds \ feeds.here : Len(feeds.runs[f]) = 0

EveryRunIsCounted == paid <= MonthCount + forgotten /\ SpendWithinCap

OwnRecord(w) ==
  \E i \in DOMAIN feeds.runs[w.feed] :
    feeds.runs[w.feed][i] = [n |-> w.n, outcome |-> "running"]

FlowsAreRecorded ==
  removed = 0 => /\ feeds.here = Feeds
                 /\ \A w \in flows : OwnRecord(w)

SpendInv ==
  /\ HistoriesTyped /\ HistoriesKept /\ EveryRunIsCounted /\ FlowsAreRecorded /\ OnePaidRun

=============================================================================

---------------------------- MODULE ServerWork_proofs ----------------------------
(***************************************************************************)
(* For every value of the constants: the invariant of each part of         *)
(* ServerWork holds at first (...AtFirst) and outlives every step          *)
(* (...Stays), and what a run checks of the part follows from it.          *)
(* MCServer_proofs draws the conclusions for the server's behaviours.      *)
(***************************************************************************)
EXTENDS ServerWork, FiniteSetTheorems, SequenceTheorems, TLAPS

-----------------------------------------------------------------------------
(***************************************************************************)
(* ApifyRuns: the histories are the ledger of the month.                   *)
(***************************************************************************)
\* The module counts as the library does.
LEMMA SameSpendCount == \A S : Apify!Cardinality(S) = Cardinality(S)
  BY DEF Apify!Cardinality, Cardinality

\* The records of the month are finitely many.
LEMMA MonthIsFinite ==
  ASSUME Apify!HistoriesTyped, Apify!HistoriesKept
  PROVE  /\ IsFiniteSet(Apify!MonthRuns) /\ Apify!MonthCount \in Nat
         /\ \A f, i : <<f, i>> \in Apify!MonthRuns <=>
                        f \in v1.here /\ i \in 1..Len(v1.runs[f])
         /\ \A p \in Apify!MonthRuns : \E f, i : p = <<f, i>>
  <1>1. \A f \in v1.here : f \in Feeds /\ DOMAIN v1.runs[f] = 1..Len(v1.runs[f])
                           /\ Len(v1.runs[f]) \in Nat
    BY DEF Apify!HistoriesTyped
  <1>2. \A f, i : <<f, i>> \in Apify!MonthRuns <=> f \in v1.here /\ i \in 1..Len(v1.runs[f])
    BY <1>1 DEF Apify!MonthRuns
  <1>3. Apify!MonthRuns \in SUBSET (Feeds \X (1..MaxHistory))
    <2>1. ASSUME NEW f \in v1.here
          PROVE  {f} \X DOMAIN v1.runs[f] \subseteq Feeds \X (1..MaxHistory)
      <3>1. DOMAIN v1.runs[f] \subseteq 1..MaxHistory /\ f \in Feeds
        <4>1. f \in Feeds /\ DOMAIN v1.runs[f] = 1..Len(v1.runs[f]) /\ Len(v1.runs[f]) \in Nat
          BY <1>1
        <4>2. Len(v1.runs[f]) <= MaxHistory /\ MaxHistory \in Nat
          BY <4>1, SpendAssumption DEF Apify!HistoriesKept
        <4> QED BY <4>1, <4>2
      <3> QED BY <3>1
    <2> QED BY <2>1 DEF Apify!MonthRuns
  <1>4. IsFiniteSet(Feeds \X (1..MaxHistory))
    <2>1. IsFiniteSet(1..MaxHistory)
      BY FS_Interval, SpendAssumption
    <2> QED BY <2>1, FS_Product, SpendAssumption
  <1>5. IsFiniteSet(Apify!MonthRuns)
    BY <1>3, <1>4, FS_Subset
  <1>6. \A p \in Apify!MonthRuns : \E f, i : p = <<f, i>>
    BY DEF Apify!MonthRuns
  <1>7. Apify!MonthCount \in Nat
    BY <1>5, FS_CardinalityType, SameSpendCount DEF Apify!MonthCount
  <1> QED BY <1>2, <1>5, <1>6, <1>7

\* And so are those of the state a step leads to.
LEMMA MonthIsFiniteThen ==
  (Apify!HistoriesTyped /\ Apify!HistoriesKept =>
     IsFiniteSet(Apify!MonthRuns) /\ Apify!MonthCount \in Nat)'
  <1>1. Apify!HistoriesTyped /\ Apify!HistoriesKept =>
          IsFiniteSet(Apify!MonthRuns) /\ Apify!MonthCount \in Nat
    BY MonthIsFinite
  <1> QED BY <1>1, PTL

\* Before anything runs, nothing is paid.
LEMMA SpendAtFirst == Apify!ApifyInit => Apify!SpendInv
  <1> SUFFICES ASSUME Apify!ApifyInit PROVE Apify!SpendInv
    OBVIOUS
  <1>1. Apify!HistoriesTyped /\ Apify!HistoriesKept
    BY SpendAssumption DEF Apify!ApifyInit, Apify!HistoriesTyped, Apify!HistoriesKept
  <1>2. Apify!MonthCount \in Nat
    BY <1>1, MonthIsFinite
  <1>3. Apify!EveryRunIsCounted
    BY <1>2, SpendAssumption DEF Apify!ApifyInit, Apify!EveryRunIsCounted, Apify!SpendWithinCap
  <1>4. Apify!FlowsAreRecorded /\ Apify!OnePaidRun
    BY DEF Apify!ApifyInit, Apify!FlowsAreRecorded, Apify!OnePaidRun
  <1> QED BY <1>1, <1>3, <1>4 DEF Apify!SpendInv

\* The records of the month stay as many when the histories keep their lengths and their
\* sources, or only an empty one comes or goes.
LEMMA SameMonth ==
  ASSUME Apify!HistoriesTyped, Apify!HistoriesKept,
         Apify!HistoriesTyped', Apify!HistoriesKept',
         \A f \in Feeds : Len(v1.runs[f])' = Len(v1.runs[f])
  PROVE  Apify!MonthCount' = Apify!MonthCount
  <1> DEFINE Has(runs, f, i) == f \in Feeds /\ i \in 1..Len(runs[f])
  <1>1. \A f, i : <<f, i>> \in Apify!MonthRuns <=> Has(v1.runs, f, i)
    <2>1. \A f, i : <<f, i>> \in Apify!MonthRuns <=> f \in v1.here /\ i \in 1..Len(v1.runs[f])
      BY MonthIsFinite
    <2>2. v1.here \subseteq Feeds /\ \A f \in Feeds \ v1.here : Len(v1.runs[f]) = 0
      BY DEF Apify!HistoriesTyped, Apify!HistoriesKept
    <2>3. \A f \in Feeds \ v1.here : 1..Len(v1.runs[f]) = {}
      BY <2>2
    <2> QED BY <2>1, <2>2, <2>3
  <1>2. \A f, i : <<f, i>> \in Apify!MonthRuns' <=> Has(v1'.runs, f, i)
    <2>1. \A f \in v1'.here : f \in Feeds /\ DOMAIN v1'.runs[f] = 1..Len(v1'.runs[f])
      BY DEF Apify!HistoriesTyped
    <2>2. \A f, i : <<f, i>> \in Apify!MonthRuns' <=> f \in v1'.here /\ i \in 1..Len(v1'.runs[f])
      BY <2>1 DEF Apify!MonthRuns
    <2>3. v1'.here \subseteq Feeds /\ \A f \in Feeds \ v1'.here : Len(v1'.runs[f]) = 0
      BY DEF Apify!HistoriesTyped, Apify!HistoriesKept
    <2>4. \A f \in Feeds \ v1'.here : 1..Len(v1'.runs[f]) = {}
      BY <2>3
    <2> QED BY <2>2, <2>3, <2>4
  <1>3. (\A p \in Apify!MonthRuns : \E f, i : p = <<f, i>>)
        /\ \A p \in Apify!MonthRuns' : \E f, i : p = <<f, i>>
    BY DEF Apify!MonthRuns
  <1>4. \A f \in Feeds : Len(v1'.runs[f]) = Len(v1.runs[f])
    OBVIOUS
  <1>5. Apify!MonthRuns' = Apify!MonthRuns
    BY SMTT(30), <1>4, <1>1, <1>2, <1>3
  <1> QED BY <1>5 DEF Apify!MonthCount

\* A history whose records are changed in place stays a history, and as long.
LEMMA HistoryClosed ==
  ASSUME NEW s \in Seq(Apify!PaidRecords), NEW t \in [DOMAIN s -> Apify!PaidRecords]
  PROVE  t \in Seq(Apify!PaidRecords) /\ Len(t) = Len(s)
  OBVIOUS

\* Clicks, sweeps, refusals and the queue pay for nothing.
LEMMA NothingPaid ==
  ASSUME Apify!SpendInv, v1' = v1, v4' = v4, v6' = v6, v7' = v7, v8' = v8
  PROVE  Apify!SpendInv'
  BY DEF Apify!SpendInv, Apify!HistoriesTyped, Apify!HistoriesKept, Apify!EveryRunIsCounted,
     Apify!SpendWithinCap, Apify!MonthCount, Apify!MonthRuns, Apify!FlowsAreRecorded,
     Apify!OwnRecord, Apify!OnePaidRun

\* A restart loses the runs under way and leaves their records.
LEMMA SpendOfRestart ==
  ASSUME Apify!SpendInv, Apify!Restart
  PROVE  Apify!SpendInv'
  <1>1. v1' = v1 /\ v4' = {} /\ v6' = v6 /\ v7' = v7 /\ v8' = v8 + 1
    BY DEF Apify!Restart
  <1>2. Apify!HistoriesTyped'
    BY <1>1 DEF Apify!SpendInv, Apify!HistoriesTyped
  <1>3. Apify!HistoriesKept' /\ Apify!EveryRunIsCounted'
    BY <1>1 DEF Apify!SpendInv, Apify!HistoriesKept, Apify!EveryRunIsCounted,
       Apify!SpendWithinCap, Apify!MonthCount, Apify!MonthRuns
  <1>4. v8' # 0
    BY <1>1 DEF Apify!SpendInv, Apify!HistoriesTyped
  <1>5. Apify!FlowsAreRecorded' /\ Apify!OnePaidRun'
    BY <1>4 DEF Apify!FlowsAreRecorded, Apify!OnePaidRun
  <1> QED BY <1>2, <1>3, <1>5 DEF Apify!SpendInv

\* A source that is added again starts with an empty history.
LEMMA SpendOfAddAgain ==
  ASSUME Apify!SpendInv, NEW f \in Feeds, Apify!AddAgain(f)
  PROVE  Apify!SpendInv'
  <1>1. /\ f \notin v1.here /\ v1' = [v1 EXCEPT !.here = v1.here \cup {f}]
        /\ v4' = v4 /\ v6' = v6 /\ v7' = v7 /\ v8' = v8
    BY DEF Apify!AddAgain
  <1>2. /\ v1'.here = v1.here \cup {f} /\ v1'.runs = v1.runs
        /\ v1' = [here |-> v1'.here, runs |-> v1'.runs]
    BY <1>1 DEF Apify!SpendInv, Apify!HistoriesTyped
  <1>3. Apify!HistoriesTyped'
    BY <1>1, <1>2 DEF Apify!SpendInv, Apify!HistoriesTyped
  <1>4. Apify!HistoriesKept'
    BY <1>2 DEF Apify!SpendInv, Apify!HistoriesKept
  <1>5. Apify!MonthCount' = Apify!MonthCount
    BY <1>2, <1>3, <1>4, SameMonth DEF Apify!SpendInv
  <1>6. Apify!EveryRunIsCounted'
    BY <1>1, <1>5 DEF Apify!SpendInv, Apify!EveryRunIsCounted, Apify!SpendWithinCap
  <1>7. Apify!FlowsAreRecorded' /\ Apify!OnePaidRun'
    BY <1>1, <1>2 DEF Apify!SpendInv, Apify!FlowsAreRecorded, Apify!OwnRecord, Apify!OnePaidRun
  <1> QED BY <1>3, <1>4, <1>6, <1>7 DEF Apify!SpendInv

\* The sweep closes the records of a source that has no run under way.
LEMMA SpendOfStalled ==
  ASSUME Apify!SpendInv, NEW f \in Feeds, Apify!Stalled(f)
  PROVE  Apify!SpendInv'
  <1> DEFINE s == v1.runs[f]
             C == {i \in DOMAIN s : s[i].outcome = "running"}
             t == [i \in DOMAIN s |->
                     IF i \in C THEN [s[i] EXCEPT !.outcome = "incomplete"] ELSE s[i]]
  <1>1. /\ \A w \in v4 : w.feed # f
        /\ v1' = [v1 EXCEPT !.runs[f] = t]
        /\ v4' = v4 /\ v6' = v6 /\ v7' = v7 /\ v8' = v8
    <2>1. t = [i \in DOMAIN s |-> IF s[i].outcome = "running"
                                  THEN [s[i] EXCEPT !.outcome = "incomplete"] ELSE s[i]]
      OBVIOUS
    <2> QED BY <2>1 DEF Apify!Stalled
  <1>2. s \in Seq(Apify!PaidRecords)
    BY DEF Apify!SpendInv, Apify!HistoriesTyped
  <1>3. t \in Seq(Apify!PaidRecords) /\ Len(t) = Len(s)
    <2>1. \A i \in DOMAIN s : s[i] \in Apify!PaidRecords
      BY <1>2
    <2>2. t \in [DOMAIN s -> Apify!PaidRecords]
      <3> HIDE DEF s, C
      <3> QED BY <2>1 DEF Apify!PaidRecords, Apify!Outcomes
    <2> HIDE DEF s, t
    <2> QED BY <1>2, <2>2, HistoryClosed
  <1> HIDE DEF t
  <1>4. v1'.here = v1.here /\ v1'.runs = [v1.runs EXCEPT ![f] = t]
        /\ v1' = [here |-> v1'.here, runs |-> v1'.runs]
    BY <1>1 DEF Apify!SpendInv, Apify!HistoriesTyped
  <1>5. Apify!HistoriesTyped'
    BY <1>1, <1>3, <1>4 DEF Apify!SpendInv, Apify!HistoriesTyped
  <1>6. \A g \in Feeds : Len(v1'.runs[g]) = Len(v1.runs[g])
    BY <1>3, <1>4 DEF Apify!SpendInv, Apify!HistoriesTyped
  <1>7. Apify!HistoriesKept'
    BY <1>4, <1>6 DEF Apify!SpendInv, Apify!HistoriesKept
  <1>8. Apify!MonthCount' = Apify!MonthCount
    BY <1>5, <1>6, <1>7, SameMonth DEF Apify!SpendInv
  <1>9. Apify!EveryRunIsCounted'
    BY <1>1, <1>8 DEF Apify!SpendInv, Apify!EveryRunIsCounted, Apify!SpendWithinCap
  <1>10. \A w \in v4 : v1'.runs[w.feed] = v1.runs[w.feed]
    <2>1. \A w \in v4 : w.feed \in Feeds
      BY DEF Apify!SpendInv, Apify!HistoriesTyped, Apify!PaidFlows
    <2> QED BY <2>1, <1>1, <1>4 DEF Apify!SpendInv, Apify!HistoriesTyped
  <1>11. Apify!FlowsAreRecorded' /\ Apify!OnePaidRun'
    BY <1>1, <1>4, <1>10 DEF Apify!SpendInv, Apify!FlowsAreRecorded, Apify!OwnRecord,
       Apify!OnePaidRun
  <1> QED BY <1>5, <1>7, <1>9, <1>11 DEF Apify!SpendInv

\* The end of a run gives its record the outcome, and leaves the others' alone.
LEMMA SpendOfFinish ==
  ASSUME Apify!SpendInv, NEW w \in v4, NEW outcome \in {"succeeded", "failed"},
         Apify!Finish(w, outcome)
  PROVE  Apify!SpendInv'
  <1> DEFINE f == w.feed
             s == v1.runs[f]
             own == {i \in DOMAIN s : s[i].n = w.n}
             C == IF own # {} THEN own ELSE {i \in DOMAIN s : s[i].outcome = "running"}
             t == [i \in DOMAIN s |-> IF i \in C THEN [s[i] EXCEPT !.outcome = outcome] ELSE s[i]]
  <1>1. /\ v1' = [v1 EXCEPT !.runs[f] = t]
        /\ v4' = v4 \ {w} /\ v6' = v6 /\ v7' = v7 /\ v8' = v8
    BY DEF Apify!Finish
  <1>2. f \in Feeds /\ s \in Seq(Apify!PaidRecords)
    BY DEF Apify!SpendInv, Apify!HistoriesTyped, Apify!PaidFlows
  <1>3. t \in Seq(Apify!PaidRecords) /\ Len(t) = Len(s)
    <2>1. \A i \in DOMAIN s : s[i] \in Apify!PaidRecords
      BY <1>2
    <2>2. t \in [DOMAIN s -> Apify!PaidRecords]
      <3> HIDE DEF s, C
      <3> QED BY <2>1 DEF Apify!PaidRecords, Apify!Outcomes
    <2> HIDE DEF s, t
    <2> QED BY <1>2, <2>2, HistoryClosed
  <1> HIDE DEF t
  <1>4. v1'.here = v1.here /\ v1'.runs = [v1.runs EXCEPT ![f] = t]
        /\ v1' = [here |-> v1'.here, runs |-> v1'.runs]
    BY <1>1 DEF Apify!SpendInv, Apify!HistoriesTyped
  <1>5. Apify!HistoriesTyped'
    BY <1>1, <1>2, <1>3, <1>4 DEF Apify!SpendInv, Apify!HistoriesTyped
  <1>6. \A g \in Feeds : Len(v1'.runs[g]) = Len(v1.runs[g])
    BY <1>3, <1>4 DEF Apify!SpendInv, Apify!HistoriesTyped
  <1>7. Apify!HistoriesKept'
    BY <1>4, <1>6 DEF Apify!SpendInv, Apify!HistoriesKept
  <1>8. Apify!MonthCount' = Apify!MonthCount
    BY <1>5, <1>6, <1>7, SameMonth DEF Apify!SpendInv
  <1>9. Apify!EveryRunIsCounted'
    BY <1>1, <1>8 DEF Apify!SpendInv, Apify!EveryRunIsCounted, Apify!SpendWithinCap
  <1>10. ASSUME v8 = 0 PROVE \A v \in v4' : v1'.runs[v.feed] = v1.runs[v.feed]
    <2>1. \A v \in v4 : v.feed \in Feeds
      BY DEF Apify!SpendInv, Apify!HistoriesTyped, Apify!PaidFlows
    <2>2. \A v \in v4' : v.feed # f
      BY <1>1, <1>10 DEF Apify!SpendInv, Apify!OnePaidRun
    <2> QED BY <2>1, <2>2, <1>1, <1>4 DEF Apify!SpendInv, Apify!HistoriesTyped
  <1>11. Apify!FlowsAreRecorded' /\ Apify!OnePaidRun'
    BY <1>1, <1>4, <1>10 DEF Apify!SpendInv, Apify!FlowsAreRecorded, Apify!OwnRecord,
       Apify!OnePaidRun
  <1> QED BY <1>5, <1>7, <1>9, <1>11 DEF Apify!SpendInv

\* A source that goes takes its records along, and they are counted as forgotten.
LEMMA SpendOfRemoveFeed ==
  ASSUME Apify!SpendInv, NEW f \in Feeds, Apify!RemoveFeed(f)
  PROVE  Apify!SpendInv'
  <1> DEFINE s == v1.runs[f]
  <1>1. /\ v1' = [here |-> v1.here \ {f}, runs |-> [v1.runs EXCEPT ![f] = <<>>]]
        /\ v4' = v4 /\ v6' = v6 /\ v7' = v7 + Len(s) /\ v8' = v8 + 1 /\ f \in v1.here
    BY DEF Apify!RemoveFeed
  <1>2. s \in Seq(Apify!PaidRecords) /\ Len(s) \in Nat /\ DOMAIN s = 1..Len(s)
    BY DEF Apify!SpendInv, Apify!HistoriesTyped
  <1>3. v1'.here = v1.here \ {f} /\ v1'.runs = [v1.runs EXCEPT ![f] = <<>>]
        /\ v1' = [here |-> v1'.here, runs |-> v1'.runs]
    BY <1>1
  <1>4. Apify!HistoriesTyped'
    <2>1. <<>> \in Seq(Apify!PaidRecords)
      OBVIOUS
    <2>2. v7' \in Nat /\ v8' \in Nat /\ v6' \in Nat
      BY <1>1, <1>2 DEF Apify!SpendInv, Apify!HistoriesTyped
    <2> QED BY <2>1, <2>2, <1>1, <1>3 DEF Apify!SpendInv, Apify!HistoriesTyped
  <1>5. Apify!HistoriesKept'
    <2>1. \A g \in Feeds : v1'.runs[g] = IF g = f THEN <<>> ELSE v1.runs[g]
      BY <1>3 DEF Apify!SpendInv, Apify!HistoriesTyped
    <2> QED BY <2>1, <1>3, SpendAssumption DEF Apify!SpendInv, Apify!HistoriesKept
  <1>6. Apify!MonthCount <= Apify!MonthCount' + Len(s)
    <2> DEFINE P == {f} \X DOMAIN s
    <2>1. Apify!MonthRuns \ Apify!MonthRuns' \subseteq P
      <3>1. \A g \in v1.here \ {f} : v1'.runs[g] = v1.runs[g]
        BY <1>3 DEF Apify!SpendInv, Apify!HistoriesTyped
      <3> QED BY <1>3, <3>1 DEF Apify!MonthRuns
    <2>2. IsFiniteSet(P) /\ Cardinality(P) = Len(s)
      <3>1. IsFiniteSet(DOMAIN s) /\ Cardinality(DOMAIN s) = Len(s)
        BY <1>2, FS_Interval
      <3>2. IsFiniteSet({f}) /\ Cardinality({f}) = 1
        BY FS_Singleton
      <3>3. IsFiniteSet(P) /\ Cardinality(P) = 1 * Len(s)
        BY ZenonT(60), <3>1, <3>2, FS_Product
      <3> QED BY <3>3, <1>2
    <2>3. /\ IsFiniteSet(Apify!MonthRuns) /\ Apify!MonthCount \in Nat
          /\ IsFiniteSet(Apify!MonthRuns') /\ Apify!MonthCount' \in Nat
      BY <1>4, <1>5, MonthIsFinite, MonthIsFiniteThen DEF Apify!SpendInv
    <2> HIDE DEF P
    <2>4. Cardinality(Apify!MonthRuns) <= Cardinality(Apify!MonthRuns') + Cardinality(P)
      <3>1. IsFiniteSet(Apify!MonthRuns' \cup P)
            /\ Cardinality(Apify!MonthRuns' \cup P) =
                 Cardinality(Apify!MonthRuns') + Cardinality(P) - Cardinality(Apify!MonthRuns' \cap P)
        BY <2>2, <2>3, FS_Union
      <3>2. Apify!MonthRuns \in SUBSET (Apify!MonthRuns' \cup P)
        BY <2>1
      <3>3. Cardinality(Apify!MonthRuns) <= Cardinality(Apify!MonthRuns' \cup P)
        BY <3>1, <3>2, FS_Subset
      <3>4. Apify!MonthRuns' \cap P \in SUBSET P
        OBVIOUS
      <3>5. IsFiniteSet(Apify!MonthRuns' \cap P)
        BY <2>2, <3>4, FS_Subset
      <3>6. Cardinality(Apify!MonthRuns' \cap P) \in Nat /\ Cardinality(Apify!MonthRuns) \in Nat
            /\ Cardinality(P) \in Nat /\ Cardinality(Apify!MonthRuns') \in Nat
        BY <2>2, <2>3, <3>5, FS_CardinalityType
      <3> QED BY <3>1, <3>3, <3>6
    <2> QED BY <2>2, <2>4, SameSpendCount DEF Apify!MonthCount
  <1>7. Apify!EveryRunIsCounted'
    <2>1. Apify!MonthCount \in Nat /\ Apify!MonthCount' \in Nat
      BY <1>4, <1>5, MonthIsFinite, MonthIsFiniteThen DEF Apify!SpendInv
    <2>2. v6 <= Apify!MonthCount + v7 /\ v6 <= MonthlyCap + v7 /\ v6 \in Nat /\ v7 \in Nat
      BY DEF Apify!SpendInv, Apify!EveryRunIsCounted, Apify!SpendWithinCap, Apify!HistoriesTyped
    <2>3. v6' <= Apify!MonthCount' + v7' /\ v6' <= MonthlyCap + v7'
      BY SMTT(30), <1>1, <1>2, <1>6, <2>1, <2>2, SpendAssumption
    <2> QED BY <2>3 DEF Apify!EveryRunIsCounted, Apify!SpendWithinCap
  <1>8. v8' # 0
    BY <1>1 DEF Apify!SpendInv, Apify!HistoriesTyped
  <1>9. Apify!FlowsAreRecorded' /\ Apify!OnePaidRun'
    BY <1>8 DEF Apify!FlowsAreRecorded, Apify!OnePaidRun
  <1> QED BY <1>4, <1>5, <1>7, <1>9 DEF Apify!SpendInv

\* A launch records its run in the step that starts it, and a full history gives up its
\* oldest record.
LEMMA SpendOfLaunch ==
  ASSUME Apify!SpendInv, NEW r \in v3, Apify!Launch(r)
  PROVE  Apify!SpendInv'
  <1> DEFINE f == r.feed
             s == v1.runs[f]
             new == [n |-> v6 + 1, outcome |-> "running"]
             t == Append(s, new)
             u == Apify!CapRuns(t)
  <1>1. /\ f \in v1.here /\ ~Apify!Running(f) /\ Apify!MonthCount < MonthlyCap
        /\ v1' = [v1 EXCEPT !.runs[f] = u]
        /\ v4' = v4 \cup {[feed |-> f, n |-> v6 + 1]}
        /\ v6' = v6 + 1 /\ v8' = v8
        /\ v7' = IF Len(t) > MaxHistory THEN v7 + 1 ELSE v7
    BY DEF Apify!Launch, Apify!NotRunning, Apify!MayPay, Apify!Room
  <1>2. /\ f \in Feeds /\ s \in Seq(Apify!PaidRecords) /\ Len(s) \in Nat /\ Len(s) <= MaxHistory
        /\ v6 \in Nat /\ v7 \in Nat
    BY <1>1 DEF Apify!SpendInv, Apify!HistoriesTyped, Apify!HistoriesKept
  <1>3. new \in Apify!PaidRecords
    BY <1>2 DEF Apify!PaidRecords, Apify!Outcomes
  <1>4. t \in Seq(Apify!PaidRecords) /\ Len(t) = Len(s) + 1 /\ t[Len(s) + 1] = new
    <2> HIDE DEF s, new
    <2> QED BY <1>2, <1>3
  <1> HIDE DEF t, s
  <1>5. /\ u \in Seq(Apify!PaidRecords) /\ Len(u) \in 1..MaxHistory /\ u[Len(u)] = new
        /\ Len(u) = IF Len(t) > MaxHistory THEN Len(s) ELSE Len(s) + 1
    <2>1. CASE Len(t) > MaxHistory
      <3>1. u = Tail(t) /\ Len(s) >= 1
        BY <1>2, <1>4, <2>1, SpendAssumption DEF Apify!CapRuns
      <3>2. Tail(t) \in Seq(Apify!PaidRecords) /\ Len(Tail(t)) = Len(s) /\ Tail(t)[Len(s)] = t[Len(s) + 1]
        BY <1>2, <1>4, <3>1
      <3> QED BY <1>2, <1>4, <2>1, <3>1, <3>2
    <2>2. CASE ~(Len(t) > MaxHistory)
      <3>1. u = t
        BY <2>2 DEF Apify!CapRuns
      <3> QED BY <1>2, <1>4, <2>2, <3>1, SpendAssumption
    <2> QED BY <2>1, <2>2
  <1> HIDE DEF u
  <1>6. v1'.here = v1.here /\ v1'.runs = [v1.runs EXCEPT ![f] = u]
        /\ v1' = [here |-> v1'.here, runs |-> v1'.runs]
    BY <1>1 DEF Apify!SpendInv, Apify!HistoriesTyped
  <1>7. Apify!HistoriesTyped'
    <2>1. [feed |-> f, n |-> v6 + 1] \in Apify!PaidFlows
      BY <1>2 DEF Apify!PaidFlows
    <2>2. v7' \in Nat /\ v6' \in Nat
      BY <1>1, <1>2
    <2> QED BY <1>1, <1>2, <1>5, <1>6, <2>1, <2>2 DEF Apify!SpendInv, Apify!HistoriesTyped
  <1>8. \A g \in Feeds : v1'.runs[g] = IF g = f THEN u ELSE v1.runs[g]
    BY <1>6 DEF Apify!SpendInv, Apify!HistoriesTyped
  <1>9. Apify!HistoriesKept'
    BY <1>1, <1>5, <1>6, <1>8 DEF Apify!SpendInv, Apify!HistoriesKept
  <1>10. Apify!MonthCount' = IF Len(t) > MaxHistory THEN Apify!MonthCount ELSE Apify!MonthCount + 1
    <2>1. CASE Len(t) > MaxHistory
      <3>1. \A g \in Feeds : Len(v1'.runs[g]) = Len(v1.runs[g])
        BY <1>5, <1>8, <2>1 DEF s
      <3> QED BY <1>7, <1>9, <2>1, <3>1, SameMonth DEF Apify!SpendInv
    <2>2. CASE ~(Len(t) > MaxHistory)
      <3> DEFINE p == <<f, Len(s) + 1>>
      <3>1. DOMAIN s = 1..Len(s) /\ DOMAIN u = 1..(Len(s) + 1)
        BY <1>2, <1>5, <2>2
      <3>2. DOMAIN u = DOMAIN s \cup {Len(s) + 1} /\ Len(s) + 1 \notin DOMAIN s
        BY <1>2, <3>1
      <3>3. v1.here \subseteq Feeds
        BY DEF Apify!SpendInv, Apify!HistoriesTyped
      <3>4. Apify!MonthRuns' = Apify!MonthRuns \cup {p}
        BY <1>1, <1>6, <1>8, <3>2, <3>3 DEF Apify!MonthRuns, s
      <3>5. p \notin Apify!MonthRuns
        BY <3>2 DEF Apify!MonthRuns, s
      <3>6. IsFiniteSet(Apify!MonthRuns)
        BY MonthIsFinite DEF Apify!SpendInv
      <3> QED BY <2>2, <3>4, <3>5, <3>6, FS_AddElement, SameSpendCount DEF Apify!MonthCount
    <2> QED BY <2>1, <2>2
  <1>11. Apify!EveryRunIsCounted'
    <2>1. Apify!MonthCount \in Nat
      BY MonthIsFinite DEF Apify!SpendInv
    <2>2. v6 <= Apify!MonthCount + v7 /\ v6 <= MonthlyCap + v7
      BY DEF Apify!SpendInv, Apify!EveryRunIsCounted, Apify!SpendWithinCap
    <2>3. v6' <= Apify!MonthCount' + v7' /\ v6' <= MonthlyCap + v7'
      BY SMTT(30), <1>1, <1>2, <1>10, <2>1, <2>2, SpendAssumption
    <2> QED BY <2>3 DEF Apify!EveryRunIsCounted, Apify!SpendWithinCap
  <1>12. ASSUME v8 = 0, NEW w \in v4 PROVE w.feed # f
    <2>1. ASSUME w.feed = f PROVE FALSE
      <3>1. PICK i \in DOMAIN v1.runs[f] : v1.runs[f][i] = [n |-> w.n, outcome |-> "running"]
        BY <1>12, <2>1 DEF Apify!SpendInv, Apify!FlowsAreRecorded, Apify!OwnRecord
      <3> QED BY <1>1, <3>1 DEF Apify!Running
    <2> QED BY <2>1
  <1>13. Apify!FlowsAreRecorded'
    <2> SUFFICES ASSUME v8 = 0 PROVE v1'.here = Feeds /\ \A w \in v4' : Apify!OwnRecord(w)'
      BY <1>1 DEF Apify!FlowsAreRecorded
    <2>1. v1'.here = Feeds
      BY <1>6 DEF Apify!SpendInv, Apify!FlowsAreRecorded
    <2>2. ASSUME NEW w \in v4' PROVE Apify!OwnRecord(w)'
      <3>1. CASE w \in v4
        <4>1. w.feed \in Feeds /\ w.feed # f
          BY <1>12, <3>1 DEF Apify!SpendInv, Apify!HistoriesTyped, Apify!PaidFlows
        <4>2. v1'.runs[w.feed] = v1.runs[w.feed]
          BY <1>8, <4>1
        <4> QED BY <3>1, <4>2 DEF Apify!SpendInv, Apify!FlowsAreRecorded, Apify!OwnRecord
      <3>2. CASE w = [feed |-> f, n |-> v6 + 1]
        <4>1. w.feed = f /\ w.n = v6 + 1
          BY <3>2
        <4>2. v1'.runs[w.feed] = u
          BY <1>2, <1>8, <4>1
        <4>3. Len(u) \in DOMAIN u
          BY <1>5
        <4> QED BY <1>5, <4>1, <4>2, <4>3 DEF Apify!OwnRecord
      <3> QED BY <1>1, <3>1, <3>2
    <2> QED BY <2>1, <2>2
  <1>14. Apify!OnePaidRun'
    <2> SUFFICES ASSUME v8 = 0, NEW v \in v4', NEW w \in v4', v.feed = w.feed PROVE v = w
      BY <1>1 DEF Apify!OnePaidRun
    <2> DEFINE x == [feed |-> f, n |-> v6 + 1]
    <2>1. (v \in v4 \/ v = x) /\ (w \in v4 \/ w = x) /\ x.feed = f
      BY <1>1
    <2>2. v \in v4 /\ w \in v4 => v = w
      BY DEF Apify!SpendInv, Apify!OnePaidRun
    <2> HIDE DEF x
    <2> QED BY <1>12, <2>1, <2>2
  <1> QED BY <1>7, <1>9, <1>11, <1>13, <1>14 DEF Apify!SpendInv

\* SpendInv outlives every step of the connector.
LEMMA SpendStays ==
  ASSUME Apify!SpendInv, [Apify!ApifyNext]_(Apify!apifyVars)
  PROVE  Apify!SpendInv'
  <1>1. CASE UNCHANGED Apify!apifyVars
    BY <1>1, NothingPaid DEF Apify!apifyVars
  <1>2. ASSUME NEW f \in Feeds, Apify!PostRun(f) PROVE Apify!SpendInv'
    BY <1>2, NothingPaid DEF Apify!PostRun
  <1>3. ASSUME NEW f \in Feeds, Apify!RemoveFeed(f) PROVE Apify!SpendInv'
    BY <1>3, SpendOfRemoveFeed
  <1>4. ASSUME NEW f \in Feeds, Apify!AddAgain(f) PROVE Apify!SpendInv'
    BY <1>4, SpendOfAddAgain
  <1>5. ASSUME NEW f \in Feeds, Apify!Stalled(f) PROVE Apify!SpendInv'
    BY <1>5, SpendOfStalled
  <1>6. ASSUME NEW r \in v3, Apify!Launch(r) PROVE Apify!SpendInv'
    BY <1>6, SpendOfLaunch
  <1>7. ASSUME NEW r \in v3, Apify!Refuse(r) PROVE Apify!SpendInv'
    BY <1>7, NothingPaid DEF Apify!Refuse
  <1>8. ASSUME NEW w \in v4, NEW outcome \in {"succeeded", "failed"}, Apify!Finish(w, outcome)
        PROVE  Apify!SpendInv'
    BY <1>8, SpendOfFinish
  <1>9. CASE Apify!Sweep
    BY <1>9, NothingPaid DEF Apify!Sweep
  <1>10. CASE Apify!ProcessQueue
    BY <1>10, NothingPaid DEF Apify!ProcessQueue
  <1>11. CASE Apify!Restart
    BY <1>11, SpendOfRestart
  <1> QED BY <1>1, <1>2, <1>3, <1>4, <1>5, <1>6, <1>7, <1>8, <1>9, <1>10, <1>11 DEF Apify!ApifyNext

-----------------------------------------------------------------------------
(***************************************************************************)
(* PgBridge: calls are executed in the order in which they were posted, so *)
(* a transaction ends where it began, whatever is given up in between.     *)
(***************************************************************************)
\* A call, executed or failed, leaves the connection as each that may come next finds it.
LEMMA FoundAfter ==
  ASSUME Bridge!Connected, Bridge!TransactionsAreWhole,
         NEW a \in Bridge!BridgeCalls, Bridge!Finds(a), NEW fails \in BOOLEAN,
         fails => a[2] \in {"begin", "first", "second", "only"},
         ~fails /\ v6.failed => a[2] \in {"commit", "rollback"},
         fails => v6.failed \/ a[2] # "begin",
         v6' = Bridge!Executed(a, fails)
  PROVE  /\ Bridge!Connected' /\ Bridge!TransactionsAreWhole'
         /\ \A b \in Bridge!BridgeCalls : Bridge!Follows(a, b) => Bridge!Finds(b)'
  <1>1. PICK h \in Handlers, op \in Bridge!Operations : a = <<h, op>>
    BY DEF Bridge!BridgeCalls
  <1>2. a[1] = h /\ a[2] = op
    BY <1>1
  <1>3. CASE fails
    <2>1. v6' = [v6 EXCEPT !.failed = v6.open]
      BY <1>3 DEF Bridge!Executed
    <2>2. Bridge!Connected'
      BY <2>1 DEF Bridge!Connected
    <2>3. Bridge!TransactionsAreWhole'
      BY <2>1 DEF Bridge!TransactionsAreWhole, Bridge!Connected
    <2>4. v6'.open = v6.open /\ v6'.failed = v6.open /\ v6'.pending = v6.pending
      BY <2>1 DEF Bridge!Connected
    <2>5. Bridge!Uncommitted' = Bridge!Uncommitted
      BY <2>4 DEF Bridge!Uncommitted
    <2>6. ASSUME NEW b \in Bridge!BridgeCalls, Bridge!Follows(a, b) PROVE Bridge!Finds(b)'
      <3>1. op \in {"begin", "first", "second", "only"} /\ (op = "begin" => v6.failed)
        BY <1>1, <1>3
      <3> QED BY <1>2, <2>4, <2>5, <2>6, <3>1
              DEF Bridge!Finds, Bridge!Follows, Bridge!Opens, Bridge!Connected
    <2> QED BY <2>2, <2>3, <2>6
  <1>4. CASE ~fails /\ op = "begin"
    <2>1. v6' = [v6 EXCEPT !.open = TRUE]
      BY <1>2, <1>4 DEF Bridge!Executed
    <2>2. Bridge!Connected'
      BY <2>1 DEF Bridge!Connected
    <2>3. Bridge!TransactionsAreWhole'
      BY <2>1 DEF Bridge!TransactionsAreWhole, Bridge!Connected
    <2>4. v6'.open = TRUE /\ v6'.failed = v6.failed /\ v6'.pending = v6.pending
      BY <2>1 DEF Bridge!Connected
    <2>5. Bridge!Uncommitted' = Bridge!Uncommitted
      BY <2>4 DEF Bridge!Uncommitted
    <2>6. \A b \in Bridge!BridgeCalls : Bridge!Follows(a, b) => Bridge!Finds(b)'
      BY <1>2, <1>4, <2>4, <2>5 DEF Bridge!Finds, Bridge!Follows, Bridge!Opens
    <2> QED BY <2>2, <2>3, <2>6
  <1>5. CASE ~fails /\ op \in {"commit", "rollback"}
    <2>1. PICK kept : v6' = Bridge!NoTransaction(kept)
      BY <1>2, <1>5 DEF Bridge!Executed
    <2>2. Bridge!Connected'
      BY <2>1 DEF Bridge!Connected, Bridge!NoTransaction
    <2>3. Bridge!Uncommitted' = {}
      BY <2>1 DEF Bridge!Uncommitted, Bridge!NoTransaction
    <2>4. \A b \in Bridge!BridgeCalls : Bridge!Follows(a, b) => Bridge!Finds(b)'
      BY <1>2, <1>5, <2>3 DEF Bridge!Finds, Bridge!Follows, Bridge!Opens
    <2>5. Bridge!TransactionsAreWhole'
      <3>1. CASE v6'.committed = v6.committed
        BY <3>1 DEF Bridge!TransactionsAreWhole
      <3>2. CASE v6'.committed # v6.committed
        <4>1. op = "commit" /\ ~v6.failed /\ v6'.committed = v6.committed \cup v6.pending
          BY <1>2, <1>5, <3>2 DEF Bridge!Executed, Bridge!NoTransaction
        <4>2. Bridge!Uncommitted = {<<h, "first">>, <<h, "second">>}
          BY <1>2, <4>1 DEF Bridge!Finds, Bridge!Connected
        <4>3. \A k, o : o \in {"first", "second"} =>
                 (<<k, o>> \in v6.pending <=> k = h)
          BY <4>2 DEF Bridge!Uncommitted
        <4>4. ASSUME NEW k \in Transactions
              PROVE  \/ Bridge!Statements(k) \subseteq v6'.committed
                     \/ Bridge!Statements(k) \cap v6'.committed = {}
          BY <4>1, <4>3 DEF Bridge!TransactionsAreWhole, Bridge!Statements
        <4> QED BY <4>4 DEF Bridge!TransactionsAreWhole, Bridge!Statements
      <3> QED BY <3>1, <3>2
    <2> QED BY <2>2, <2>4, <2>5
  <1>6. CASE ~fails /\ op \in {"first", "second"}
    <2>1. v6.open /\ ~v6.failed
      BY <1>2, <1>6 DEF Bridge!Finds
    <2>2. v6' = [v6 EXCEPT !.pending = v6.pending \cup {a}]
      BY <1>2, <1>6, <2>1 DEF Bridge!Executed
    <2>3. Bridge!Connected'
      BY <2>1, <2>2 DEF Bridge!Connected
    <2>4. Bridge!TransactionsAreWhole'
      BY <2>2 DEF Bridge!TransactionsAreWhole, Bridge!Connected
    <2>5. v6'.open = TRUE /\ v6'.failed = FALSE /\ v6'.pending = v6.pending \cup {a}
      BY <2>1, <2>2 DEF Bridge!Connected
    <2>6. Bridge!Uncommitted' = Bridge!Uncommitted \cup {a}
      BY <1>2, <1>6, <2>5 DEF Bridge!Uncommitted
    <2>7. op = "first" => Bridge!Uncommitted' = {<<h, "first">>}
      BY <1>1, <1>2, <1>6, <2>6 DEF Bridge!Finds
    <2>8. op = "second" => Bridge!Uncommitted' = {<<h, "first">>, <<h, "second">>}
      BY <1>1, <1>2, <1>6, <2>1, <2>6 DEF Bridge!Finds
    <2>9. \A b \in Bridge!BridgeCalls : Bridge!Follows(a, b) => Bridge!Finds(b)'
      BY <1>2, <1>6, <2>5, <2>7, <2>8 DEF Bridge!Finds, Bridge!Follows, Bridge!Opens
    <2> QED BY <2>3, <2>4, <2>9
  <1>7. CASE ~fails /\ op = "only"
    <2>1. v6' = IF v6.open THEN [v6 EXCEPT !.pending = v6.pending \cup {a}]
                ELSE [v6 EXCEPT !.committed = v6.committed \cup {a}]
      BY <1>2, <1>7 DEF Bridge!Executed
    <2>2. Bridge!Connected'
      BY <2>1 DEF Bridge!Connected
    <2>3. v6'.committed \subseteq v6.committed \cup {a} /\ v6.committed \subseteq v6'.committed
          /\ v6'.pending \subseteq v6.pending \cup {a}
      BY <2>1 DEF Bridge!Connected
    <2>4. \A k \in Transactions : a \notin Bridge!Statements(k)
      BY <1>1, <1>7 DEF Bridge!Statements
    <2>5. Bridge!TransactionsAreWhole'
      BY <2>3, <2>4 DEF Bridge!TransactionsAreWhole, Bridge!Statements
    <2>6. Bridge!Uncommitted = {}
      BY <1>2, <1>7 DEF Bridge!Finds, Bridge!Opens
    <2>7. Bridge!Uncommitted' = {}
      BY <1>2, <1>7, <2>3, <2>6 DEF Bridge!Uncommitted
    <2>8. \A b \in Bridge!BridgeCalls : Bridge!Follows(a, b) => Bridge!Finds(b)'
      BY <1>2, <1>7, <2>7 DEF Bridge!Finds, Bridge!Follows, Bridge!Opens
    <2> QED BY <2>2, <2>5, <2>8
  <1> QED BY <1>3, <1>4, <1>5, <1>6, <1>7 DEF Bridge!Operations

\* What the main thread does next was foreseen by the call that returned or was given up.
LEMMA WholeGoes ==
  ASSUME Bridge!WholeInv, v1.parked, NEW ok \in BOOLEAN,
         Bridge!Goes(IF ok THEN Bridge!AfterReturn(v1.op) ELSE Bridge!AfterThrow(v1.op)),
         v3' = v3, v6' = v6, v9' \in Bridge!Counts
  PROVE  Bridge!WholeInv'
  <1> DEFINE next == IF ok THEN Bridge!AfterReturn(v1.op) ELSE Bridge!AfterThrow(v1.op)
  <1>1. v1 \in [h : Handlers, op : Bridge!Operations, parked : BOOLEAN] /\ v1 # Bridge!Idle
    BY DEF Bridge!WholeInv, Bridge!BridgeTyped, Bridge!Idle
  <1>2. v1.h \in Handlers /\ v1.op \in Bridge!Operations
    BY <1>1
  <1>3. \A b \in Bridge!BridgeCalls :
          Bridge!Follows(<<v1.h, v1.op>>, b) => Bridge!ComesNext(b)'
    <2>1. \A b \in Bridge!BridgeCalls :
            Bridge!Follows(<<v1.h, v1.op>>, b) => Bridge!ComesNext(b)
      BY <1>1 DEF Bridge!WholeInv, Bridge!InOrder
    <2> QED BY <2>1 DEF Bridge!ComesNext, Bridge!Finds, Bridge!Uncommitted
  <1>4. CASE next \in {"ok", "error"}
    <2>1. v1' = Bridge!Idle /\ v7' = [v7 EXCEPT ![v1.h] = next]
      BY <1>4 DEF Bridge!Goes
    <2>2. v1.op \in {"begin", "commit", "only", "rollback"}
      BY <1>2, <1>4 DEF Bridge!AfterReturn, Bridge!AfterThrow, Bridge!Operations
    <2>3. \A b \in Bridge!BridgeCalls : Bridge!Opens(b) => Bridge!ComesNext(b)'
      BY <1>3, <2>2 DEF Bridge!Follows
    <2>4. Bridge!BridgeTyped'
      BY <1>4, <2>1 DEF Bridge!WholeInv, Bridge!BridgeTyped
    <2>5. Bridge!InOrder'
      BY <2>1, <2>3 DEF Bridge!WholeInv, Bridge!InOrder, Bridge!Finds, Bridge!Uncommitted,
         Bridge!Idle
    <2> QED BY <2>4, <2>5 DEF Bridge!WholeInv, Bridge!Connected, Bridge!TransactionsAreWhole
  <1>5. CASE next \notin {"ok", "error"}
    <2>1. v1' = [v1 EXCEPT !.op = next, !.parked = FALSE] /\ v7' = v7
      BY <1>5 DEF Bridge!Goes
    <2>2. next \in Bridge!Operations /\ Bridge!Follows(<<v1.h, v1.op>>, <<v1.h, next>>)
      BY <1>2, <1>5 DEF Bridge!AfterReturn, Bridge!AfterThrow, Bridge!Operations, Bridge!Follows
    <2> HIDE DEF next
    <2>3. v1' \in [h : Handlers, op : Bridge!Operations, parked : BOOLEAN]
          /\ v1'.h = v1.h /\ v1'.op = next /\ v1'.parked = FALSE
      BY <1>1, <2>1, <2>2
    <2>4. <<v1.h, next>> \in Bridge!BridgeCalls
      BY <1>2, <2>2 DEF Bridge!BridgeCalls
    <2>5. Bridge!ComesNext(<<v1.h, v1.op>>)'
      <3>1. PICK h, op : h = v1.h /\ op = next
        OBVIOUS
      <3>2. Bridge!ComesNext(<<h, op>>)'
        BY <1>3, <2>2, <2>4, <3>1
      <3> QED BY <2>3, <3>1, <3>2
    <2>6. Bridge!BridgeTyped'
      BY <2>1, <2>3 DEF Bridge!WholeInv, Bridge!BridgeTyped
    <2>7. v1' # Bridge!Idle
      BY <2>3 DEF Bridge!Idle, Bridge!Operations
    <2>8. Bridge!InOrder'
      BY <2>3, <2>5, <2>7 DEF Bridge!WholeInv, Bridge!InOrder, Bridge!Finds, Bridge!Uncommitted
    <2> QED BY <2>6, <2>8 DEF Bridge!WholeInv, Bridge!Connected, Bridge!TransactionsAreWhole
  <1> QED BY <1>4, <1>5

\* A call that is posted comes after the one before it.
LEMMA WholeCall ==
  ASSUME Bridge!WholeInv, Bridge!Call
  PROVE  Bridge!WholeInv'
  <1> DEFINE c == <<v1.h, v1.op>>
  <1>1. /\ v1 # Bridge!Idle /\ ~v1.parked /\ v3' = Append(v3, c)
        /\ v1' = [v1 EXCEPT !.parked = TRUE] /\ v6' = v6 /\ v7' = v7 /\ v9' = v9
    BY DEF Bridge!Call
  <1>2. v1 \in [h : Handlers, op : Bridge!Operations, parked : BOOLEAN]
    BY <1>1 DEF Bridge!WholeInv, Bridge!BridgeTyped
  <1>3. v1' \in [h : Handlers, op : Bridge!Operations, parked : BOOLEAN]
        /\ v1'.h = v1.h /\ v1'.op = v1.op /\ v1'.parked /\ v1' # Bridge!Idle
    <2>1. v1' \in [h : Handlers, op : Bridge!Operations, parked : BOOLEAN]
          /\ v1'.h = v1.h /\ v1'.op = v1.op /\ v1'.parked
      BY <1>1, <1>2
    <2> QED BY <2>1 DEF Bridge!Idle
  <1>4. c \in Bridge!BridgeCalls /\ Bridge!ComesNext(c)
    BY <1>1, <1>2 DEF Bridge!WholeInv, Bridge!InOrder, Bridge!BridgeCalls
  <1>5. v3 \in Seq(Bridge!BridgeCalls)
    BY DEF Bridge!WholeInv, Bridge!BridgeTyped
  <1> HIDE DEF c
  <1>6. /\ v3' \in Seq(Bridge!BridgeCalls) /\ Len(v3') = Len(v3) + 1 /\ v3' # <<>>
        /\ v3'[Len(v3) + 1] = c /\ \A i \in 1..Len(v3) : v3'[i] = v3[i]
        /\ Len(v3) \in Nat /\ (v3 = <<>> <=> Len(v3) = 0)
    BY <1>1, <1>4, <1>5
  <1>7. \A i \in 1..(Len(v3') - 1) : Bridge!Follows(v3'[i], v3'[i + 1])
    <2> SUFFICES ASSUME NEW i \in 1..Len(v3) PROVE Bridge!Follows(v3'[i], v3'[i + 1])
      BY <1>6
    <2>1. CASE i = Len(v3)
      <3>1. v3'[i] = v3[Len(v3)] /\ v3'[i + 1] = c /\ v3 # <<>>
        BY <1>6, <2>1
      <3> QED BY <1>4, <3>1 DEF Bridge!ComesNext
    <2>2. CASE i # Len(v3)
      <3>1. i \in 1..(Len(v3) - 1) /\ i + 1 \in 1..Len(v3)
        BY <1>6, <2>2
      <3>2. v3'[i] = v3[i] /\ v3'[i + 1] = v3[i + 1]
        BY <1>6, <3>1
      <3> QED BY <3>1, <3>2 DEF Bridge!WholeInv, Bridge!InOrder
    <2> QED BY <2>1, <2>2
  <1>8. Bridge!Finds(v3[1])'
    <2>1. PICK b : b = v3'[1]
      OBVIOUS
    <2>2. Bridge!Finds(b)
      <3>1. CASE v3 = <<>>
        BY <1>4, <1>6, <2>1, <3>1 DEF Bridge!ComesNext
      <3>2. CASE v3 # <<>>
        <4>1. b = v3[1]
          BY <1>6, <2>1, <3>2
        <4> QED BY <3>2, <4>1 DEF Bridge!WholeInv, Bridge!InOrder
      <3> QED BY <3>1, <3>2
    <2>3. Bridge!Finds(b)'
      BY <1>1, <2>2 DEF Bridge!Finds, Bridge!Uncommitted
    <2> QED BY <2>1, <2>3
  <1>9. \A b \in Bridge!BridgeCalls : Bridge!Follows(c, b) => Bridge!ComesNext(b)'
    BY <1>6 DEF Bridge!ComesNext
  <1>10. Bridge!InOrder'
    BY <1>3, <1>7, <1>8, <1>9 DEF Bridge!InOrder, c
  <1>11. Bridge!BridgeTyped'
    BY <1>1, <1>3, <1>6 DEF Bridge!WholeInv, Bridge!BridgeTyped
  <1> QED BY <1>1, <1>10, <1>11 DEF Bridge!WholeInv, Bridge!Connected, Bridge!TransactionsAreWhole

\* A handler that starts opens.
LEMMA WholeHandle ==
  ASSUME Bridge!WholeInv, NEW h \in Handlers, Bridge!Handle(h)
  PROVE  Bridge!WholeInv'
  <1>1. /\ v1 = Bridge!Idle /\ v1' = [h |-> h, op |-> Bridge!FirstOp(h), parked |-> FALSE]
        /\ v3' = v3 /\ v6' = v6 /\ v7' = v7 /\ v9' = v9
    BY DEF Bridge!Handle
  <1>2. Bridge!FirstOp(h) \in {"begin", "only"}
    BY DEF Bridge!FirstOp
  <1>3. <<h, Bridge!FirstOp(h)>> \in Bridge!BridgeCalls /\ Bridge!Opens(<<h, Bridge!FirstOp(h)>>)
    BY <1>2 DEF Bridge!BridgeCalls, Bridge!Opens, Bridge!Operations
  <1>4. Bridge!ComesNext(<<h, Bridge!FirstOp(h)>>)'
    <2>1. Bridge!ComesNext(<<h, Bridge!FirstOp(h)>>)
      BY <1>1, <1>3 DEF Bridge!WholeInv, Bridge!InOrder
    <2> QED BY <1>1, <2>1 DEF Bridge!ComesNext, Bridge!Finds, Bridge!Uncommitted
  <1>5. v1'.h = h /\ v1'.op = Bridge!FirstOp(h) /\ ~v1'.parked /\ v1' # Bridge!Idle
    BY <1>1, <1>2 DEF Bridge!Idle
  <1>6. Bridge!InOrder'
    BY <1>1, <1>4, <1>5 DEF Bridge!WholeInv, Bridge!InOrder, Bridge!Finds, Bridge!Uncommitted
  <1>7. Bridge!BridgeTyped'
    BY <1>1, <1>2 DEF Bridge!WholeInv, Bridge!BridgeTyped, Bridge!Operations
  <1> QED BY <1>1, <1>6, <1>7 DEF Bridge!WholeInv, Bridge!Connected, Bridge!TransactionsAreWhole

\* The worker takes the calls in order.
LEMMA WholeExecutes ==
  ASSUME Bridge!WholeInv, Bridge!Executes
  PROVE  Bridge!WholeInv'
  <1> DEFINE a == Head(v3)
  <1>1. PICK fails \in BOOLEAN :
          /\ IF fails THEN Bridge!Fails(a)
             ELSE (v6.failed => a[2] \in {"commit", "rollback"}) /\ v9' = v9
          /\ v6' = Bridge!Executed(a, fails)
    BY DEF Bridge!Executes
  <1>2. v3 # <<>> /\ v3' = Tail(v3) /\ v1' = v1 /\ v7' = v7
    BY DEF Bridge!Executes
  <1>3. v3 \in Seq(Bridge!BridgeCalls)
    BY DEF Bridge!WholeInv, Bridge!BridgeTyped
  <1>4. /\ a = v3[1] /\ a \in Bridge!BridgeCalls /\ Len(v3) \in Nat /\ Len(v3) >= 1
        /\ v3' \in Seq(Bridge!BridgeCalls) /\ Len(v3') = Len(v3) - 1
        /\ \A i \in 1..(Len(v3) - 1) : v3'[i] = v3[i + 1]
        /\ (v3' = <<>> <=> Len(v3) = 1)
    <2>1. v3[1] \in Bridge!BridgeCalls /\ Len(v3) \in Nat /\ Len(v3) >= 1 /\ a = v3[1]
      BY <1>2, <1>3
    <2>2. Tail(v3) \in Seq(Bridge!BridgeCalls) /\ Len(Tail(v3)) = Len(v3) - 1
      BY <1>2, <1>3, <2>1
    <2>3. \A i \in 1..(Len(v3) - 1) : Tail(v3)[i] = v3[i + 1]
      BY <1>2, <1>3, <2>1
    <2>4. \A t \in Seq(Bridge!BridgeCalls) : t = <<>> <=> Len(t) = 0
      OBVIOUS
    <2> HIDE DEF a
    <2> QED BY <1>2, <2>1, <2>2, <2>3, <2>4
  <1>5. Bridge!Finds(a)
    BY <1>2, <1>4 DEF Bridge!WholeInv, Bridge!InOrder
  <1>6. a[2] \in Bridge!Operations
    BY <1>4 DEF Bridge!BridgeCalls
  <1>7. fails => a[2] \in {"begin", "first", "second", "only"} /\ (v6.failed \/ a[2] # "begin")
    BY <1>1, <1>6 DEF Bridge!Fails, Bridge!Operations
  <1>8. v9' \in Bridge!Counts
    <2>1. v9 \in Bridge!Counts
      BY DEF Bridge!WholeInv, Bridge!BridgeTyped
    <2>2. v9' = v9 \/ v9' = [v9 EXCEPT !["failures"] = @ + 1]
      BY <1>1 DEF Bridge!Fails, Bridge!Spend
    <2> QED BY <2>1, <2>2 DEF Bridge!Counts
  <1> HIDE DEF a
  <1>9. /\ Bridge!Connected' /\ Bridge!TransactionsAreWhole'
        /\ \A b \in Bridge!BridgeCalls : Bridge!Follows(a, b) => Bridge!Finds(b)'
    BY <1>1, <1>4, <1>5, <1>7, FoundAfter DEF Bridge!WholeInv
  <1>10. \A b \in Bridge!BridgeCalls : Bridge!ComesNext(b) => Bridge!ComesNext(b)'
    <2> SUFFICES ASSUME NEW b \in Bridge!BridgeCalls, Bridge!ComesNext(b) PROVE Bridge!ComesNext(b)'
      OBVIOUS
    <2>1. Bridge!Follows(v3[Len(v3)], b)
      BY <1>2 DEF Bridge!ComesNext
    <2>2. CASE Len(v3) = 1
      BY <1>4, <1>9, <2>1, <2>2 DEF Bridge!ComesNext
    <2>3. CASE Len(v3) # 1
      <3>1. Len(v3) - 1 \in 1..(Len(v3) - 1) /\ v3'[Len(v3) - 1] = v3[(Len(v3) - 1) + 1]
        BY <1>4, <2>3
      <3>2. v3'[Len(v3')] = v3[Len(v3)] /\ v3' # <<>>
        BY <1>4, <2>3, <3>1
      <3> QED BY <2>1, <3>2 DEF Bridge!ComesNext
    <2> QED BY <2>2, <2>3
  <1>11. \A i \in 1..(Len(v3') - 1) : Bridge!Follows(v3'[i], v3'[i + 1])
    <2> SUFFICES ASSUME NEW i \in 1..(Len(v3') - 1) PROVE Bridge!Follows(v3'[i], v3'[i + 1])
      OBVIOUS
    <2>1. i \in 1..(Len(v3) - 1) /\ i + 1 \in 1..(Len(v3) - 1)
      BY <1>4
    <2>2. v3'[i] = v3[i + 1] /\ v3'[i + 1] = v3[(i + 1) + 1]
      BY <1>4, <2>1
    <2> QED BY <2>1, <2>2 DEF Bridge!WholeInv, Bridge!InOrder
  <1>12. (v3 # <<>> => Bridge!Finds(v3[1]))'
    <2> SUFFICES ASSUME v3' # <<>> PROVE Bridge!Finds(v3[1])'
      OBVIOUS
    <2>1. PICK b : b = v3'[1]
      OBVIOUS
    <2>2. 1 \in 1..(Len(v3) - 1) /\ b = v3[1 + 1] /\ b \in Bridge!BridgeCalls
      BY <1>4, <2>1
    <2>3. Bridge!Follows(a, b)
      BY <1>4, <2>2 DEF Bridge!WholeInv, Bridge!InOrder
    <2>4. Bridge!Finds(b)'
      BY <1>9, <2>2, <2>3
    <2> QED BY <2>1, <2>4
  <1>13. Bridge!InOrder'
    <2>1. v1 # Bridge!Idle => <<v1.h, v1.op>> \in Bridge!BridgeCalls
      BY DEF Bridge!WholeInv, Bridge!BridgeTyped, Bridge!BridgeCalls
    <2>2. v1 # Bridge!Idle /\ ~v1.parked => Bridge!ComesNext(<<v1.h, v1.op>>)'
      <3>1. PICK c : c = <<v1.h, v1.op>>
        OBVIOUS
      <3>2. v1 # Bridge!Idle /\ ~v1.parked => Bridge!ComesNext(c)'
        BY <1>10, <2>1, <3>1 DEF Bridge!WholeInv, Bridge!InOrder
      <3> QED BY <1>2, <3>1, <3>2
    <2>3. v1 = Bridge!Idle => \A b \in Bridge!BridgeCalls : Bridge!Opens(b) => Bridge!ComesNext(b)'
      BY <1>10 DEF Bridge!WholeInv, Bridge!InOrder
    <2>4. v1 # Bridge!Idle /\ v1.parked =>
            \A b \in Bridge!BridgeCalls : Bridge!Follows(<<v1.h, v1.op>>, b) => Bridge!ComesNext(b)'
      BY <1>10 DEF Bridge!WholeInv, Bridge!InOrder
    <2> QED BY <1>2, <1>11, <1>12, <2>2, <2>3, <2>4 DEF Bridge!InOrder
  <1>14. Bridge!BridgeTyped'
    BY <1>2, <1>4, <1>8 DEF Bridge!WholeInv, Bridge!BridgeTyped
  <1> QED BY <1>9, <1>13, <1>14 DEF Bridge!WholeInv

\* The next worker starts with empty ports and no transaction.
LEMMA WholeRestart ==
  ASSUME Bridge!WholeInv, Bridge!Restart
  PROVE  Bridge!WholeInv'
  <1>1. /\ v1' = Bridge!Idle /\ v3' = <<>> /\ v6' = Bridge!NoTransaction(v6.committed)
        /\ v9' = [v9 EXCEPT !["kills"] = @ + 1]
        /\ v7' = IF v1 = Bridge!Idle THEN v7 ELSE [v7 EXCEPT ![v1.h] = "lost"]
    BY DEF Bridge!Restart, Bridge!Spend
  <1>2. Bridge!Connected' /\ Bridge!TransactionsAreWhole' /\ Bridge!Uncommitted' = {}
    BY <1>1 DEF Bridge!WholeInv, Bridge!Connected, Bridge!TransactionsAreWhole,
       Bridge!NoTransaction,
       Bridge!Uncommitted
  <1>3. Bridge!InOrder'
    BY <1>1, <1>2 DEF Bridge!InOrder, Bridge!ComesNext, Bridge!Finds, Bridge!Opens
  <1>4. v9' \in Bridge!Counts
    BY <1>1 DEF Bridge!WholeInv, Bridge!BridgeTyped, Bridge!Counts
  <1>5. Bridge!BridgeTyped'
    BY <1>1, <1>4 DEF Bridge!WholeInv, Bridge!BridgeTyped
  <1> QED BY <1>2, <1>3, <1>5 DEF Bridge!WholeInv

\* WholeInv outlives every step of the bridge, timeouts included.
LEMMA WholeStays ==
  ASSUME Bridge!WholeInv, [Bridge!BridgeNext]_(Bridge!bridgeVars)
  PROVE  Bridge!WholeInv'
  <1>1. ASSUME v1' = v1, v3' = v3, v6' = v6, v7' = v7, v9' = v9 PROVE Bridge!WholeInv'
    BY <1>1 DEF Bridge!WholeInv, Bridge!BridgeTyped, Bridge!Connected, Bridge!InOrder,
       Bridge!TransactionsAreWhole, Bridge!ComesNext, Bridge!Finds, Bridge!Uncommitted
  <1>2. CASE UNCHANGED Bridge!bridgeVars
    BY <1>1, <1>2 DEF Bridge!bridgeVars
  <1>3. ASSUME NEW h \in Handlers, Bridge!Handle(h) PROVE Bridge!WholeInv'
    BY <1>3, WholeHandle
  <1>4. CASE Bridge!Call
    BY <1>4, WholeCall
  <1>5. v9 \in Bridge!Counts
    BY DEF Bridge!WholeInv, Bridge!BridgeTyped
  <1>6. CASE Bridge!Wakes
    <2>1. v1.parked /\ v3' = v3 /\ v6' = v6 /\ v9' = v9
      BY <1>6 DEF Bridge!Wakes
    <2>2. CASE v4 # <<>> /\ Head(v4).ok
      <3>1. Bridge!Goes(IF TRUE THEN Bridge!AfterReturn(v1.op) ELSE Bridge!AfterThrow(v1.op))
        BY <1>6, <2>2 DEF Bridge!Wakes
      <3> QED BY <1>5, <2>1, <3>1, WholeGoes
    <2>3. CASE ~(v4 # <<>> /\ Head(v4).ok)
      <3>1. Bridge!Goes(IF FALSE THEN Bridge!AfterReturn(v1.op) ELSE Bridge!AfterThrow(v1.op))
        BY <1>6, <2>3 DEF Bridge!Wakes
      <3> QED BY <1>5, <2>1, <3>1, WholeGoes
    <2> QED BY <2>2, <2>3
  <1>7. CASE Bridge!TimesOut
    <2>1. v1.parked /\ v3' = v3 /\ v6' = v6 /\ v9' = [v9 EXCEPT !["timeouts"] = @ + 1]
      BY <1>7 DEF Bridge!TimesOut, Bridge!Spend
    <2>2. v9' \in Bridge!Counts
      BY <1>5, <2>1 DEF Bridge!Counts
    <2>3. Bridge!Goes(IF FALSE THEN Bridge!AfterReturn(v1.op) ELSE Bridge!AfterThrow(v1.op))
      BY <1>7 DEF Bridge!TimesOut
    <2> QED BY <2>1, <2>2, <2>3, WholeGoes
  <1>8. CASE Bridge!Executes
    BY <1>8, WholeExecutes
  <1>9. CASE Bridge!Raises
    BY <1>1, <1>9 DEF Bridge!Raises
  <1>10. CASE Bridge!Restart
    BY <1>10, WholeRestart
  <1> QED BY <1>2, <1>3, <1>4, <1>6, <1>7, <1>8, <1>9, <1>10 DEF Bridge!BridgeNext

\* The bridge starts with no call, and nothing written.
LEMMA BridgeAtFirst == Bridge!BridgeInit => Bridge!BridgeInv
  <1> SUFFICES ASSUME Bridge!BridgeInit PROVE Bridge!BridgeInv
    OBVIOUS
  <1>1. Bridge!BridgeTyped
    BY DEF Bridge!BridgeInit, Bridge!BridgeTyped, Bridge!Counts
  <1>2. Bridge!Connected /\ Bridge!Uncommitted = {} /\ Bridge!Clean /\ Bridge!TransactionsAreWhole
        /\ \A h \in Handlers : Bridge!Untouched(h)
    BY DEF Bridge!BridgeInit, Bridge!NoTransaction, Bridge!Connected, Bridge!Uncommitted,
       Bridge!Clean, Bridge!TransactionsAreWhole, Bridge!Untouched
  <1>3. Bridge!InOrder
    BY <1>2 DEF Bridge!BridgeInit, Bridge!InOrder, Bridge!ComesNext, Bridge!Finds, Bridge!Opens
  <1>4. Bridge!Undisturbed
    BY <1>2 DEF Bridge!BridgeInit, Bridge!Undisturbed, Bridge!Truthful
  <1> QED BY <1>1, <1>2, <1>3, <1>4 DEF Bridge!BridgeInv, Bridge!WholeInv

\* Statements of two handlers are not the same.
LEMMA StatementsApart ==
  /\ \A h, k : h # k => Bridge!Statements(h) \cap Bridge!Statements(k) = {}
  /\ \A h : Bridge!Statements(h) # {}
  /\ \A h, c : c \in Bridge!Statements(h) => c[1] = h /\ c[2] \in {"first", "second", "only"}
  /\ \A h \in Transactions : Bridge!Statements(h) = {<<h, "first">>, <<h, "second">>}
  /\ \A h : h \notin Transactions => Bridge!Statements(h) = {<<h, "only">>}
  <1>1. /\ \A h \in Transactions : Bridge!Statements(h) = {<<h, "first">>, <<h, "second">>}
        /\ \A h : h \notin Transactions => Bridge!Statements(h) = {<<h, "only">>}
    BY DEF Bridge!Statements
  <1>2. ASSUME NEW h PROVE Bridge!Statements(h) # {}
    BY <1>1
  <1>3. ASSUME NEW h, NEW c \in Bridge!Statements(h)
        PROVE  c[1] = h /\ c[2] \in {"first", "second", "only"}
    BY <1>1
  <1>4. ASSUME NEW h, NEW k, h # k PROVE Bridge!Statements(h) \cap Bridge!Statements(k) = {}
    BY <1>3, <1>4
  <1> QED BY <1>1, <1>2, <1>3, <1>4

\* A call does what its handler counts on: the connection is where it goes on from, and
\* what is stored of the other handlers is as it was.
LEMMA StageAfter ==
  ASSUME Bridge!Connected, NEW h \in Handlers, NEW op \in Bridge!Operations, NEW fails \in BOOLEAN,
         Bridge!Stage(h, op),
         fails => op \in {"begin", "first", "second", "only"},
         fails => v6.failed \/ op # "begin",
         ~fails /\ v6.failed => op \in {"commit", "rollback"},
         v6' = Bridge!Executed(<<h, op>>, fails)
  PROVE  /\ Bridge!Stage(h, Bridge!AfterAnswer(op, ~fails))'
         /\ \A k \in Handlers : k # h =>
              Bridge!Statements(k) \cap v6'.committed = Bridge!Statements(k) \cap v6.committed
  <1>1. CASE op = "begin"
    <2>1. Bridge!Untouched(h) /\ Bridge!Clean /\ h \in Transactions /\ ~fails
      BY <1>1 DEF Bridge!Stage, Bridge!Operations, Bridge!Clean
    <2>2. v6' = [v6 EXCEPT !.open = TRUE]
      BY <1>1, <2>1 DEF Bridge!Executed
    <2>3. v6'.open /\ ~v6'.failed /\ v6'.pending = {} /\ v6'.committed = v6.committed
      BY <2>1, <2>2 DEF Bridge!Connected, Bridge!Clean
    <2>4. Bridge!AfterAnswer(op, ~fails) = "first"
      BY <1>1, <2>1 DEF Bridge!AfterAnswer, Bridge!AfterReturn
    <2>5. Bridge!Stage(h, "first")'
      BY <2>1, <2>3 DEF Bridge!Stage, Bridge!Untouched, Bridge!Healthy
    <2> QED BY <2>3, <2>4, <2>5
  <1>2. CASE op = "first" /\ ~fails
    <2>1. Bridge!Untouched(h) /\ Bridge!Healthy /\ v6.pending = {} /\ h \in Transactions
      BY <1>2 DEF Bridge!Stage, Bridge!Operations
    <2>2. v6' = [v6 EXCEPT !.pending = v6.pending \cup {<<h, op>>}]
      BY <1>2, <2>1 DEF Bridge!Executed, Bridge!Healthy
    <2>3. v6'.open /\ ~v6'.failed /\ v6'.pending = {<<h, "first">>} /\ v6'.committed = v6.committed
      BY <1>2, <2>1, <2>2 DEF Bridge!Connected, Bridge!Healthy
    <2>4. Bridge!AfterAnswer(op, ~fails) = "second"
      BY <1>2 DEF Bridge!AfterAnswer, Bridge!AfterReturn
    <2>5. Bridge!Stage(h, "second")'
      BY <2>1, <2>3 DEF Bridge!Stage, Bridge!Untouched, Bridge!Healthy
    <2> QED BY <2>3, <2>4, <2>5
  <1>3. CASE op = "second" /\ ~fails
    <2>1. /\ Bridge!Untouched(h) /\ Bridge!Healthy
          /\ v6.pending = {<<h, "first">>} /\ h \in Transactions
      BY <1>3 DEF Bridge!Stage, Bridge!Operations
    <2>2. v6' = [v6 EXCEPT !.pending = v6.pending \cup {<<h, op>>}]
      BY <1>3, <2>1 DEF Bridge!Executed, Bridge!Healthy
    <2>3. v6'.open /\ ~v6'.failed /\ v6'.pending = Bridge!Statements(h)
          /\ v6'.committed = v6.committed
      <3>1. Bridge!Statements(h) = v6.pending \cup {<<h, op>>}
        BY <1>3, <2>1, StatementsApart
      <3>2. v6'.pending = v6.pending \cup {<<h, op>>}
        BY <2>2 DEF Bridge!Connected
      <3>3. v6'.open /\ ~v6'.failed /\ v6'.committed = v6.committed
        BY <2>1, <2>2 DEF Bridge!Connected, Bridge!Healthy
      <3> QED BY <3>1, <3>2, <3>3
    <2>4. Bridge!AfterAnswer(op, ~fails) = "commit"
      BY <1>3 DEF Bridge!AfterAnswer, Bridge!AfterReturn
    <2>5. Bridge!Stage(h, "commit")'
      BY <2>1, <2>3 DEF Bridge!Stage, Bridge!Untouched, Bridge!Healthy
    <2> QED BY <2>3, <2>4, <2>5
  <1>4. CASE op \in {"first", "second"} /\ fails
    <2>1. Bridge!Untouched(h)
      BY <1>4 DEF Bridge!Stage
    <2>2. v6'.committed = v6.committed
      BY <1>4 DEF Bridge!Executed, Bridge!Connected
    <2>3. Bridge!AfterAnswer(op, ~fails) = "rollback"
      BY <1>4 DEF Bridge!AfterAnswer, Bridge!AfterThrow
    <2>4. Bridge!Stage(h, "rollback")'
      BY <2>1, <2>2 DEF Bridge!Stage, Bridge!Untouched
    <2> QED BY <2>2, <2>3, <2>4
  <1>5. CASE op = "commit"
    <2>1. Bridge!Untouched(h) /\ Bridge!Healthy /\ v6.pending = Bridge!Statements(h)
          /\ h \in Transactions /\ ~fails
      BY <1>5 DEF Bridge!Stage, Bridge!Operations
    <2>2. v6' = Bridge!NoTransaction(v6.committed \cup v6.pending)
      BY <1>5, <2>1 DEF Bridge!Executed, Bridge!Healthy
    <2>3. Bridge!Clean' /\ v6'.committed = v6.committed \cup Bridge!Statements(h)
      BY <2>1, <2>2 DEF Bridge!NoTransaction, Bridge!Clean
    <2>4. Bridge!AfterAnswer(op, ~fails) = "ok"
      BY <1>5, <2>1 DEF Bridge!AfterAnswer, Bridge!AfterReturn
    <2>5. Bridge!Stage(h, "ok")'
      BY <2>3 DEF Bridge!Stage, Bridge!Operations
    <2> QED BY <2>3, <2>4, <2>5, StatementsApart
  <1>6. CASE op = "rollback"
    <2>1. Bridge!Untouched(h) /\ ~fails
      BY <1>6 DEF Bridge!Stage
    <2>2. v6' = Bridge!NoTransaction(v6.committed)
      BY <1>6, <2>1 DEF Bridge!Executed
    <2>3. Bridge!Clean' /\ v6'.committed = v6.committed
      BY <2>2 DEF Bridge!NoTransaction, Bridge!Clean
    <2>4. Bridge!AfterAnswer(op, ~fails) = "error"
      BY <1>6, <2>1 DEF Bridge!AfterAnswer, Bridge!AfterReturn
    <2>5. Bridge!Stage(h, "error")'
      BY <2>1, <2>3 DEF Bridge!Stage, Bridge!Untouched
    <2> QED BY <2>3, <2>4, <2>5
  <1>7. CASE op = "only" /\ ~fails
    <2>1. Bridge!Clean /\ h \notin Transactions
      BY <1>7 DEF Bridge!Stage
    <2>2. v6' = [v6 EXCEPT !.committed = v6.committed \cup {<<h, op>>}]
      BY <1>7, <2>1 DEF Bridge!Executed, Bridge!Clean
    <2>3. Bridge!Clean' /\ v6'.committed = v6.committed \cup Bridge!Statements(h)
      BY <1>7, <2>1, <2>2, StatementsApart DEF Bridge!Connected, Bridge!Clean
    <2>4. Bridge!AfterAnswer(op, ~fails) = "ok"
      BY <1>7 DEF Bridge!AfterAnswer, Bridge!AfterReturn
    <2>5. Bridge!Stage(h, "ok")'
      BY <2>3 DEF Bridge!Stage, Bridge!Operations
    <2> QED BY <2>3, <2>4, <2>5, StatementsApart
  <1>8. CASE op = "only" /\ fails
    <2>1. Bridge!Clean /\ Bridge!Untouched(h)
      BY <1>8 DEF Bridge!Stage, Bridge!Operations
    <2>2. Bridge!Clean' /\ v6'.committed = v6.committed
      BY <1>8, <2>1 DEF Bridge!Executed, Bridge!Connected, Bridge!Clean
    <2>3. Bridge!AfterAnswer(op, ~fails) = "error"
      BY <1>8 DEF Bridge!AfterAnswer, Bridge!AfterThrow
    <2>4. Bridge!Stage(h, "error")'
      BY <2>1, <2>2 DEF Bridge!Stage, Bridge!Untouched
    <2> QED BY <2>2, <2>3, <2>4
  <1> QED BY <1>1, <1>2, <1>3, <1>4, <1>5, <1>6, <1>7, <1>8 DEF Bridge!Operations

\* What is said of the connection and of the handlers rests on these variables.
LEMMA SameStage ==
  ASSUME v6' = v6
  PROVE  /\ \A h, next : Bridge!Stage(h, next)' <=> Bridge!Stage(h, next)
         /\ \A h : Bridge!Untouched(h)' <=> Bridge!Untouched(h)
         /\ Bridge!Clean' <=> Bridge!Clean
  BY DEF Bridge!Stage, Bridge!Untouched, Bridge!Clean, Bridge!Healthy

\* While nothing timed out: a handler starts over a clean connection.
LEMMA QuietHandle ==
  ASSUME Bridge!WholeInv, Bridge!Undisturbed, NEW h \in Handlers, Bridge!Handle(h)
  PROVE  Bridge!Undisturbed'
  <1>1. /\ v1 = Bridge!Idle /\ v7[h] = "none"
        /\ v1' = [h |-> h, op |-> Bridge!FirstOp(h), parked |-> FALSE]
        /\ v3' = v3 /\ v4' = v4 /\ v5' = v5 /\ v6' = v6 /\ v7' = v7 /\ v8' = v8
    BY DEF Bridge!Handle
  <1>2. v1'.h = h /\ v1'.op = Bridge!FirstOp(h) /\ ~v1'.parked /\ v1' # Bridge!Idle
    <2>1. Bridge!FirstOp(h) # "none"
      BY DEF Bridge!FirstOp
    <2> QED BY <1>1, <2>1 DEF Bridge!Idle
  <1>3. Bridge!Clean /\ Bridge!Untouched(h)
    BY <1>1 DEF Bridge!Undisturbed
  <1>4. Bridge!Stage(h, Bridge!FirstOp(h))
    BY <1>3 DEF Bridge!Stage, Bridge!FirstOp, Bridge!Operations
  <1>5. PICK op : op = Bridge!FirstOp(h)
    OBVIOUS
  <1>6. Bridge!Stage(h, op)'
    BY <1>1, <1>4, <1>5, SameStage
  <1>7. Bridge!Stage(v1.h, v1.op)'
    BY <1>2, <1>5, <1>6
  <1>8. Bridge!Truthful'
    BY <1>1 DEF Bridge!Undisturbed, Bridge!Truthful
  <1>9. \A k \in Handlers : v7'[k] = "none" /\ v1'.h # k => Bridge!Untouched(k)'
    BY <1>1, SameStage DEF Bridge!Undisturbed
  <1> QED BY <1>1, <1>2, <1>7, <1>8, <1>9 DEF Bridge!Undisturbed

\* The call that is posted is the only one.
LEMMA QuietCall ==
  ASSUME Bridge!WholeInv, Bridge!Undisturbed, Bridge!Call
  PROVE  Bridge!Undisturbed'
  <1>1. /\ v1 # Bridge!Idle /\ ~v1.parked /\ v3' = Append(v3, <<v1.h, v1.op>>) /\ v2' = 0
        /\ v1' = [v1 EXCEPT !.parked = TRUE]
        /\ v4' = v4 /\ v5' = v5 /\ v6' = v6 /\ v7' = v7 /\ v8' = v8
    BY DEF Bridge!Call
  <1>2. v1 \in [h : Handlers, op : Bridge!Operations, parked : BOOLEAN]
    BY <1>1 DEF Bridge!WholeInv, Bridge!BridgeTyped
  <1>3. v1'.h = v1.h /\ v1'.op = v1.op /\ v1'.parked /\ v1' # Bridge!Idle
    <2>1. v1'.h = v1.h /\ v1'.op = v1.op /\ v1'.parked
      BY <1>1, <1>2
    <2> QED BY <2>1 DEF Bridge!Idle
  <1>4. v3 = <<>> /\ v4 = <<>> /\ ~v5 /\ Bridge!Stage(v1.h, v1.op)
    BY <1>1 DEF Bridge!Undisturbed
  <1>5. v3' = <<<<v1.h, v1.op>>>>
    <2>1. \A c : Append(<<>>, c) = <<c>>
      OBVIOUS
    <2> QED BY <1>1, <1>4, <2>1
  <1>6. PICK h, op : h = v1.h /\ op = v1.op
    OBVIOUS
  <1>7. Bridge!Stage(h, op)'
    BY <1>1, <1>4, <1>6, SameStage
  <1>8. Bridge!OneUnderWay'
    BY <1>1, <1>3, <1>4, <1>5, <1>6, <1>7 DEF Bridge!OneUnderWay
  <1>9. Bridge!Truthful'
    BY <1>1 DEF Bridge!Undisturbed, Bridge!Truthful
  <1>10. \A k \in Handlers : v7'[k] = "none" /\ v1'.h # k => Bridge!Untouched(k)'
    BY <1>1, <1>3, SameStage DEF Bridge!Undisturbed
  <1>11. v7'[v1'.h] = "none"
    BY <1>1, <1>3 DEF Bridge!Undisturbed
  <1> QED BY <1>1, <1>3, <1>8, <1>9, <1>10, <1>11 DEF Bridge!Undisturbed

\* A handler that is woken takes the answer to its own call.
LEMMA QuietWakes ==
  ASSUME Bridge!WholeInv, Bridge!Undisturbed, Bridge!Wakes
  PROVE  Bridge!Undisturbed'
  <1>1. /\ v1.parked /\ v2 = 1 /\ v3' = v3 /\ v5' = v5 /\ v6' = v6 /\ v1 # Bridge!Idle
        /\ v2' = v2
    BY DEF Bridge!Wakes, Bridge!Idle
  <1>2. v1 \in [h : Handlers, op : Bridge!Operations, parked : BOOLEAN]
        /\ v1.h \in Handlers /\ v1.op \in Bridge!Operations
    BY <1>1 DEF Bridge!WholeInv, Bridge!BridgeTyped
  <1>3. PICK ok \in BOOLEAN :
          /\ v3 = <<>> /\ v4 = <<[call |-> <<v1.h, v1.op>>, ok |-> ok]>> /\ ~v5
          /\ Bridge!Stage(v1.h, Bridge!AfterAnswer(v1.op, ok))
    BY <1>1 DEF Bridge!Undisturbed, Bridge!OneUnderWay
  <1>. PICK next : next = Bridge!AfterAnswer(v1.op, ok)
    OBVIOUS
  <1>4. PICK h \in Handlers : h = v1.h /\ next = Bridge!AfterAnswer(v1.op, ok)
    BY <1>2
  <1>5. Head(v4) = [call |-> <<v1.h, v1.op>>, ok |-> ok] /\ Tail(v4) = <<>> /\ v4 # <<>>
    <2>1. \A c : Head(<<c>>) = c /\ Tail(<<c>>) = <<>> /\ <<c>> # <<>>
      OBVIOUS
    <2> QED BY <1>3, <2>1
  <1>6. Head(v4).call = <<v1.h, v1.op>> /\ Head(v4).ok = ok
    BY <1>5
  <1>7. /\ v4' = <<>> /\ ~v8' /\ Bridge!Goes(next)
    <2>1. /\ v4' = Tail(v4) /\ v8' = (v8 \/ Head(v4).call # <<v1.h, v1.op>>)
          /\ Bridge!Goes(IF Head(v4).ok THEN Bridge!AfterReturn(v1.op) ELSE Bridge!AfterThrow(v1.op))
      BY <1>5 DEF Bridge!Wakes
    <2>2. ~v8
      BY DEF Bridge!Undisturbed
    <2>3. ~v8'
      BY <1>6, <2>1, <2>2
    <2>4. Bridge!Goes(next)
      BY <1>4, <1>6, <2>1 DEF Bridge!AfterAnswer
    <2> QED BY <1>5, <2>1, <2>3, <2>4
  <1>8. Bridge!Stage(h, next) /\ Bridge!Stage(h, next)'
    BY <1>1, <1>3, <1>4, SameStage
  <1>9. CASE next \in {"ok", "error"}
    <2>1. v1' = Bridge!Idle /\ v7' = [v7 EXCEPT ![h] = next]
      BY <1>4, <1>7, <1>9 DEF Bridge!Goes
    <2>2. \A k \in Handlers : v7'[k] = IF k = h THEN next ELSE v7[k]
      BY <2>1 DEF Bridge!WholeInv, Bridge!BridgeTyped
    <2>3. Bridge!Clean' /\ (next = "ok" => Bridge!Statements(h) \subseteq v6'.committed)
          /\ (next = "error" => Bridge!Statements(h) \cap v6'.committed = {})
      BY <1>8, <1>9 DEF Bridge!Stage, Bridge!Untouched
    <2>4. Bridge!Truthful'
      BY <1>1, <2>2, <2>3 DEF Bridge!Undisturbed, Bridge!Truthful
    <2>5. \A k \in Handlers : v7'[k] = "none" => Bridge!Untouched(k)'
      BY <1>1, <1>4, <1>9, <2>2, SameStage DEF Bridge!Undisturbed
    <2> QED BY <1>1, <1>3, <1>7, <2>1, <2>3, <2>4, <2>5 DEF Bridge!Undisturbed
  <1>10. CASE next \notin {"ok", "error"}
    <2>1. v1' = [v1 EXCEPT !.op = next, !.parked = FALSE] /\ v7' = v7
      BY <1>7, <1>10 DEF Bridge!Goes
    <2>2. next \in Bridge!Operations
      BY <1>2, <1>4, <1>10 DEF Bridge!AfterAnswer, Bridge!AfterReturn, Bridge!AfterThrow,
         Bridge!Operations
    <2>3. v1'.h = h /\ v1'.op = next /\ ~v1'.parked
      BY <1>2, <1>4, <2>1
    <2>4. v1' # Bridge!Idle
      BY <2>2, <2>3 DEF Bridge!Idle, Bridge!Operations
    <2>5. Bridge!Stage(v1.h, v1.op)'
      BY <1>8, <2>3
    <2>6. Bridge!Truthful' /\ v7'[v1'.h] = "none"
      BY <1>1, <1>4, <2>1, <2>3 DEF Bridge!Undisturbed, Bridge!Truthful
    <2>7. \A k \in Handlers : v7'[k] = "none" /\ v1'.h # k => Bridge!Untouched(k)'
      BY <1>1, <1>4, <2>1, <2>3, SameStage DEF Bridge!Undisturbed
    <2> QED BY <1>1, <1>3, <1>7, <2>3, <2>4, <2>5, <2>6, <2>7 DEF Bridge!Undisturbed
  <1> QED BY <1>9, <1>10

\* The worker does to the connection what the handler counts on.
LEMMA QuietExecutes ==
  ASSUME Bridge!WholeInv, Bridge!Undisturbed, Bridge!Executes
  PROVE  Bridge!Undisturbed'
  <1>1. v3 # <<>> /\ ~v5 /\ v3' = Tail(v3) /\ v5' /\ v1' = v1 /\ v2' = v2 /\ v7' = v7 /\ v8' = v8
    BY DEF Bridge!Executes
  <1>2. v1 # Bridge!Idle /\ v1.parked
    BY <1>1 DEF Bridge!Undisturbed
  <1>3. /\ v3 = <<<<v1.h, v1.op>>>> /\ v4 = <<>> /\ v2 = 0 /\ Bridge!Stage(v1.h, v1.op)
    BY <1>1, <1>2 DEF Bridge!Undisturbed, Bridge!OneUnderWay
  <1>4. PICK h \in Handlers, op \in Bridge!Operations : h = v1.h /\ op = v1.op
    BY <1>2 DEF Bridge!WholeInv, Bridge!BridgeTyped
  <1>5. Head(v3) = <<h, op>> /\ Tail(v3) = <<>>
    <2>1. \A c : Head(<<c>>) = c /\ Tail(<<c>>) = <<>>
      OBVIOUS
    <2> QED BY <1>3, <1>4, <2>1
  <1>6. PICK fails \in BOOLEAN :
          /\ IF fails THEN Bridge!Fails(<<h, op>>)
             ELSE (v6.failed => op \in {"commit", "rollback"}) /\ v9' = v9
          /\ v6' = Bridge!Executed(<<h, op>>, fails)
          /\ v4' = Append(v4, [call |-> <<h, op>>, ok |-> ~fails])
    <2>1. PICK fails \in BOOLEAN :
            /\ IF fails THEN Bridge!Fails(Head(v3))
               ELSE (v6.failed => Head(v3)[2] \in {"commit", "rollback"}) /\ v9' = v9
            /\ v6' = Bridge!Executed(Head(v3), fails)
            /\ v4' = Append(v4, [call |-> Head(v3), ok |-> ~fails])
      BY DEF Bridge!Executes
    <2>2. <<h, op>>[2] = op
      OBVIOUS
    <2> QED BY <1>5, <2>1, <2>2
  <1>7. fails => op \in {"begin", "first", "second", "only"} /\ (v6.failed \/ op # "begin")
    BY <1>6 DEF Bridge!Fails, Bridge!Operations
  <1>8. /\ Bridge!Stage(h, Bridge!AfterAnswer(op, ~fails))'
        /\ \A k \in Handlers : k # h =>
             Bridge!Statements(k) \cap v6'.committed = Bridge!Statements(k) \cap v6.committed
    BY <1>3, <1>4, <1>6, <1>7, StageAfter DEF Bridge!WholeInv
  <1>9. v4' = <<[call |-> <<h, op>>, ok |-> ~fails]>>
    <2>1. \A c : Append(<<>>, c) = <<c>>
      OBVIOUS
    <2> QED BY <1>3, <1>6, <2>1
  <1>10. Bridge!OneUnderWay'
    <2>1. PICK ok \in BOOLEAN : ok = ~fails
      OBVIOUS
    <2>2. Bridge!Stage(v1.h, Bridge!AfterAnswer(v1.op, ok))'
      BY <1>1, <1>4, <1>8, <2>1
    <2>3. v3' = <<>> /\ v4' = <<[call |-> <<v1'.h, v1'.op>>, ok |-> ok]>> /\ (v5 /\ v2 = 0)'
      BY <1>1, <1>3, <1>4, <1>5, <1>9, <2>1
    <2> QED BY <2>2, <2>3 DEF Bridge!OneUnderWay
  <1>11. v7[h] = "none"
    BY <1>2, <1>4 DEF Bridge!Undisturbed
  <1>12. Bridge!Truthful'
    <2> SUFFICES ASSUME NEW k \in Handlers
                 PROVE  /\ v7'[k] = "ok" => Bridge!Statements(k) \subseteq v6'.committed
                        /\ v7'[k] = "error" => Bridge!Statements(k) \cap v6'.committed = {}
      BY DEF Bridge!Truthful
    <2>1. CASE k = h
      BY <1>1, <1>11, <2>1
    <2>2. CASE k # h
      <3>1. Bridge!Statements(k) \cap v6'.committed = Bridge!Statements(k) \cap v6.committed
        BY <1>8, <2>2
      <3>2. /\ v7[k] = "ok" => Bridge!Statements(k) \subseteq v6.committed
            /\ v7[k] = "error" => Bridge!Statements(k) \cap v6.committed = {}
        BY DEF Bridge!Undisturbed, Bridge!Truthful
      <3> QED BY <1>1, <3>1, <3>2
    <2> QED BY <2>1, <2>2
  <1>13. \A k \in Handlers : v7'[k] = "none" /\ v1'.h # k => Bridge!Untouched(k)'
    BY <1>1, <1>4, <1>8 DEF Bridge!Undisturbed, Bridge!Untouched
  <1> QED BY <1>1, <1>2, <1>4, <1>10, <1>11, <1>12, <1>13 DEF Bridge!Undisturbed

\* The signal is raised for the answer that is there.
LEMMA QuietRaises ==
  ASSUME Bridge!WholeInv, Bridge!Undisturbed, Bridge!Raises
  PROVE  Bridge!Undisturbed'
  <1>1. /\ v5 /\ v2' = 1 /\ ~v5' /\ v1' = v1 /\ v3' = v3 /\ v4' = v4 /\ v6' = v6
        /\ v7' = v7 /\ v8' = v8
    BY DEF Bridge!Raises
  <1>2. v1 # Bridge!Idle /\ v1.parked
    BY <1>1 DEF Bridge!Undisturbed
  <1>3. PICK ok \in BOOLEAN :
          /\ v3 = <<>> /\ v4 = <<[call |-> <<v1.h, v1.op>>, ok |-> ok]>>
          /\ Bridge!Stage(v1.h, Bridge!AfterAnswer(v1.op, ok))
    BY <1>1, <1>2 DEF Bridge!Undisturbed, Bridge!OneUnderWay
  <1>4. PICK h, next : h = v1.h /\ next = Bridge!AfterAnswer(v1.op, ok)
    OBVIOUS
  <1>5. Bridge!Stage(h, next)'
    BY <1>1, <1>3, <1>4, SameStage
  <1>6. Bridge!Stage(v1.h, Bridge!AfterAnswer(v1.op, ok))'
    BY <1>1, <1>4, <1>5
  <1>7. Bridge!OneUnderWay'
    BY <1>1, <1>3, <1>6 DEF Bridge!OneUnderWay
  <1>8. Bridge!Truthful' /\ \A k \in Handlers : Bridge!Untouched(k)' <=> Bridge!Untouched(k)
    BY <1>1, SameStage DEF Bridge!Undisturbed, Bridge!Truthful
  <1> QED BY <1>1, <1>2, <1>7, <1>8 DEF Bridge!Undisturbed

\* A worker that dies leaves what was committed, and its handler is told nothing.
LEMMA QuietRestart ==
  ASSUME Bridge!WholeInv, Bridge!Undisturbed, Bridge!Restart
  PROVE  Bridge!Undisturbed'
  <1>1. /\ v1' = Bridge!Idle /\ v3' = <<>> /\ v4' = <<>> /\ ~v5' /\ v8' = v8
        /\ v6' = Bridge!NoTransaction(v6.committed)
        /\ v7' = IF v1 = Bridge!Idle THEN v7 ELSE [v7 EXCEPT ![v1.h] = "lost"]
    BY DEF Bridge!Restart
  <1>2. Bridge!Clean' /\ v6'.committed = v6.committed
    BY <1>1 DEF Bridge!Clean, Bridge!NoTransaction
  <1>3. \A k \in Handlers : v7'[k] = "lost" \/ (v7'[k] = v7[k] /\ (v1 = Bridge!Idle \/ v1.h # k))
    BY <1>1 DEF Bridge!WholeInv, Bridge!BridgeTyped
  <1>4. Bridge!Truthful'
    BY <1>2, <1>3 DEF Bridge!Undisturbed, Bridge!Truthful
  <1>5. \A k \in Handlers : v7'[k] = "none" => Bridge!Untouched(k)'
    BY <1>2, <1>3 DEF Bridge!Undisturbed, Bridge!Untouched
  <1> QED BY <1>1, <1>2, <1>4, <1>5 DEF Bridge!Undisturbed

\* BridgeInv outlives every step of the bridge.
LEMMA BridgeStays ==
  ASSUME Bridge!BridgeInv, [Bridge!BridgeNext]_(Bridge!bridgeVars)
  PROVE  Bridge!BridgeInv'
  <1>1. Bridge!WholeInv /\ Bridge!WholeInv'
    BY WholeStays DEF Bridge!BridgeInv
  <1>2. ASSUME v9'.timeouts = 0 PROVE v9.timeouts = 0 /\ ~Bridge!TimesOut
    <2>1. v9 \in Bridge!Counts
      BY <1>1 DEF Bridge!WholeInv, Bridge!BridgeTyped
    <2>2. v9' = v9 \/ \E c \in {"timeouts", "failures", "kills"} : v9' = [v9 EXCEPT ![c] = @ + 1]
      BY DEF Bridge!BridgeNext, Bridge!bridgeVars, Bridge!Handle, Bridge!Call, Bridge!Wakes,
         Bridge!TimesOut, Bridge!Executes, Bridge!Fails, Bridge!Raises, Bridge!Restart, Bridge!Spend
    <2>3. v9.timeouts = 0
      BY <1>2, <2>1, <2>2 DEF Bridge!Counts
    <2>4. Bridge!TimesOut => v9'.timeouts = v9.timeouts + 1
      BY <2>1 DEF Bridge!TimesOut, Bridge!Spend, Bridge!Counts
    <2> QED BY <1>2, <2>3, <2>4
  <1>3. ASSUME v9'.timeouts = 0 PROVE Bridge!Undisturbed'
    <2>1. Bridge!Undisturbed /\ ~Bridge!TimesOut
      BY <1>2, <1>3 DEF Bridge!BridgeInv
    <2>2. CASE UNCHANGED Bridge!bridgeVars
      BY <2>1, <2>2 DEF Bridge!bridgeVars, Bridge!Undisturbed, Bridge!Truthful, Bridge!Clean,
         Bridge!Untouched, Bridge!Stage, Bridge!Healthy, Bridge!OneUnderWay
    <2>3. CASE \E h \in Handlers : Bridge!Handle(h)
      BY <1>1, <2>1, <2>3, QuietHandle
    <2>4. CASE Bridge!Call
      BY <1>1, <2>1, <2>4, QuietCall
    <2>5. CASE Bridge!Wakes
      BY <1>1, <2>1, <2>5, QuietWakes
    <2>6. CASE Bridge!Executes
      BY <1>1, <2>1, <2>6, QuietExecutes
    <2>7. CASE Bridge!Raises
      BY <1>1, <2>1, <2>7, QuietRaises
    <2>8. CASE Bridge!Restart
      BY <1>1, <2>1, <2>8, QuietRestart
    <2> QED BY <2>1, <2>2, <2>3, <2>4, <2>5, <2>6, <2>7, <2>8 DEF Bridge!BridgeNext
  <1> QED BY <1>1, <1>3 DEF Bridge!BridgeInv

\* What the bridge promises follows from BridgeInv.
LEMMA BridgeFacts ==
  Bridge!BridgeInv => Bridge!TransactionsAreWhole /\ Bridge!TruthUntilTimeout
  BY DEF Bridge!BridgeInv, Bridge!WholeInv, Bridge!Undisturbed, Bridge!TruthUntilTimeout

-----------------------------------------------------------------------------
(***************************************************************************)
(* NightlyDraft: when the timer stands, also over a change of the clocks.  *)
(***************************************************************************)
\* The day that an hour is of.
LEMMA DayOfHour ==
  ASSUME NEW w \in Int
  PROVE  /\ w \div 24 \in Int /\ 24 * (w \div 24) <= w /\ w < 24 * (w \div 24) + 24
         /\ \A d \in Int : 24 * d <= w /\ w < 24 * d + 24 => w \div 24 = d
  <1>1. w \div 24 \in Int /\ 24 * (w \div 24) <= w /\ w < 24 * (w \div 24) + 24
    OBVIOUS
  <1> QED BY <1>1

\* The offsets, and what the clock on the wall makes of an hour.
LEMMA Clocks ==
  ASSUME Night!NightTyped, NEW t \in Int
  PROVE  /\ Night!Before \in {-5, -4} /\ Night!After \in {-5, -4}
         /\ Night!Offset(t) = IF t < 24 * ChangeDay + 2 - Night!Before THEN Night!Before ELSE Night!After
         /\ (v1 = "none" => Night!Before = Night!After)
         /\ Night!WallClock(t) = t + Night!Offset(t) /\ Night!WallClock(t) \in Int
         /\ Night!TodayET(t) \in Int
         /\ 24 * Night!TodayET(t) <= Night!WallClock(t)
         /\ Night!WallClock(t) < 24 * Night!TodayET(t) + 24
         /\ \A d \in Int : 24 * d <= Night!WallClock(t) /\ Night!WallClock(t) < 24 * d + 24 =>
                             Night!TodayET(t) = d
  <1>1. Night!Before \in {-5, -4} /\ Night!After \in {-5, -4} /\ (v1 = "none" => Night!Before = Night!After)
    BY DEF Night!NightTyped, Night!Before, Night!After, Night!Standard, Night!Daylight
  <1>2. Night!Offset(t) = IF t < 24 * ChangeDay + 2 - Night!Before THEN Night!Before ELSE Night!After
    BY DEF Night!Offset, Night!FireHour
  <1>3. Night!WallClock(t) = t + Night!Offset(t) /\ Night!WallClock(t) \in Int
    BY <1>1, <1>2 DEF Night!WallClock
  <1> QED BY <1>1, <1>2, <1>3, DayOfHour DEF Night!TodayET

\* An armed timer stands in the future and on the hour, on the day it was armed for or the
\* next one; on the day itself when it is armed at its midnight.
LEMMA NextFireStands ==
  ASSUME Night!NightTyped, NEW t \in Int
  PROVE  /\ Night!NextFire(t) \in Int /\ Night!NextFire(t) > t
         /\ Night!OnTheHour(Night!NextFire(t))
         /\ Night!TodayET(Night!NextFire(t)) \in {Night!TodayET(t), Night!TodayET(t) + 1}
         /\ Night!WallClock(t) = 24 * Night!TodayET(t) =>
              Night!TodayET(Night!NextFire(t)) = Night!TodayET(t)
  <1> DEFINE b == Night!Before
             a == Night!After
             c == ChangeDay
             o == Night!Offset(t)
             d == Night!TodayET(t)
             today == 24 * d + 2 - o
             p == Night!Offset(today + 24)
             x == Night!NextFire(t)
  <1>1. b \in {-5, -4} /\ a \in {-5, -4} /\ c \in Int /\ (v1 = "none" => b = a)
    BY Clocks, NightAssumption
  <1>2. o = (IF t < 24 * c + 2 - b THEN b ELSE a) /\ d \in Int /\ 24 * d <= t + o /\ t + o < 24 * d + 24
        /\ Night!WallClock(t) = t + o
    BY Clocks
  <1>3. today \in Int
    BY <1>1, <1>2
  <1>4. p = IF today + 24 < 24 * c + 2 - b THEN b ELSE a
    <2>1. today + 24 \in Int
      BY <1>3
    <2> QED BY <2>1, Clocks
  <1>5. x = IF today > t THEN today ELSE 24 * (d + 1) + 2 - p
    BY DEF Night!NextFire, Night!FireAt, Night!FireHour
  <1>6. x \in Int /\ x > t
    <2> HIDE DEF a, b, c, o, d, p, x
    <2> QED BY <1>1, <1>2, <1>3, <1>4, <1>5
  <1> DEFINE q == Night!Offset(x)
             e == IF today > t THEN d ELSE d + 1
  <1>7. q = (IF x < 24 * c + 2 - b THEN b ELSE a) /\ Night!WallClock(x) = x + q
    BY <1>6, Clocks
  <1>8. e \in Int /\ x + q \in (24 * e + 1)..(24 * e + 3)
    <2> HIDE DEF a, b, c, o, d, p, x, q
    <2> QED BY <1>1, <1>2, <1>3, <1>4, <1>5, <1>7
  <1>9. Night!TodayET(x) = e
    <2>1. 24 * e <= Night!WallClock(x) /\ Night!WallClock(x) < 24 * e + 24
      <3> HIDE DEF e, q, x
      <3> QED BY <1>7, <1>8
    <2> QED BY <1>6, <1>8, <2>1, Clocks
  <1>10. Night!Plain(e) => x = Night!NightHour(e)
    <2> SUFFICES ASSUME Night!Plain(e) PROVE x = 24 * e + 2 - (IF e < c THEN b ELSE a)
      BY DEF Night!NightHour, Night!FireAt, Night!FireHour
    <2>1. e # c \/ b = a
      BY <1>1 DEF Night!Plain
    <2> HIDE DEF a, b, c, o, d, p, x, q
    <2> QED BY <1>1, <1>2, <1>3, <1>4, <1>5, <2>1
  <1>11. Night!OnTheHour(x)
    BY <1>7, <1>8, <1>9, <1>10 DEF Night!OnTheHour
  <1>12. Night!WallClock(t) = 24 * d => e = d
    <2> HIDE DEF a, b, c, o, d, p, x, q
    <2> QED BY <1>1, <1>2
  <1> QED BY <1>6, <1>9, <1>11, <1>12

\* The clock on the wall does not go back from one hour to a later one.
LEMMA WallClockKeeps ==
  ASSUME Night!NightTyped, NEW s \in Int, NEW t \in Int, s <= t
  PROVE  Night!WallClock(s) <= Night!WallClock(t)
  <1> DEFINE b == Night!Before
             a == Night!After
             c == 24 * ChangeDay + 2 - b
             os == Night!Offset(s)
             ot == Night!Offset(t)
  <1>1. b \in {-5, -4} /\ a \in {-5, -4} /\ c \in Int
    BY SMTT(30), Clocks, NightAssumption
  <1>2. os = (IF s < c THEN b ELSE a) /\ Night!WallClock(s) = s + os
    BY Clocks
  <1>3. ot = (IF t < c THEN b ELSE a) /\ Night!WallClock(t) = t + ot
    BY Clocks
  <1> HIDE DEF a, b, c, os, ot
  <1> QED BY <1>1, <1>2, <1>3

\* The parts of the invariant that a step leaves alone which changes neither change, now,
\* the timer nor the log.
LEMMA QuietNight ==
  ASSUME Night!NightInv, v1' = v1, v2' = v2, v5' = v5,
         v3'.up = v3.up, v3'.timer = v3.timer, v3'.first = v3.first
  PROVE  Night!TimerStands' /\ Night!NightsAreBehind' /\ Night!OncePerNight' /\ Night!NoneMissed'
  BY DEF Night!NightInv, Night!TimerStands, Night!NightsAreBehind, Night!OncePerNight,
     Night!NoneMissed, Night!OnTheHour, Night!Plain, Night!NightHour, Night!Nights,
     Night!WallClock, Night!TodayET, Night!Offset, Night!FireAt, Night!Before, Night!After

\* The night's hour of a day is of that day.
LEMMA NightHourIsInt ==
  ASSUME Night!NightTyped, NEW day \in Int
  PROVE  Night!NightHour(day) \in Int
  <1>1. Night!Before \in {-5, -4} /\ Night!After \in {-5, -4}
    BY Clocks, NightAssumption
  <1> QED BY <1>1, NightAssumption DEF Night!NightHour, Night!FireAt, Night!FireHour

\* The date of an entry is a day.
LEMMA DateOfEntry ==
  ASSUME Night!NightTyped, NEW n \in DOMAIN v5
  PROVE  v5[n].date \in Int
  <1>1. v5 \in Seq(Night!NightEntries)
    BY DEF Night!NightTyped
  <1>2. v5[n] \in Night!NightEntries
    BY <1>1
  <1> QED BY <1>2 DEF Night!NightEntries

\* A server that boots has nothing to catch up with, and its timer is in the future.
LEMMA Armed ==
  ASSUME Night!NightTyped,
         \A n \in DOMAIN v5 : v5[n].byTimer /\ Night!Plain(v5[n].date) =>
                                Night!NightHour(v5[n].date) <= v2,
         v3 = Night!Booted
  PROVE  Night!TimerStands /\ Night!NightsAreBehind /\ Night!NoneMissed
  <1> DEFINE x == Night!NextFire(v2)
             d == Night!TodayET(v2)
             w == Night!WallClock(v2)
             first == (w + 23) \div 24
  <1>1. v3.up /\ v3.timer = x /\ v3.first = first /\ v2 \in Int
    BY DEF Night!Booted, Night!NightTyped
  <1>2. /\ x \in Int /\ x > v2 /\ Night!OnTheHour(x)
        /\ Night!TodayET(x) \in {d, d + 1} /\ (w = 24 * d => Night!TodayET(x) = d)
    BY <1>1, NextFireStands
  <1>3. w \in Int /\ d \in Int /\ 24 * d <= w /\ w < 24 * d + 24
    BY <1>1, Clocks
  <1>4. first = IF w = 24 * d THEN d ELSE d + 1
    <2>1. w + 23 \in Int
      BY <1>3
    <2>2. \A e \in Int : 24 * e <= w + 23 /\ w + 23 < 24 * e + 24 => (w + 23) \div 24 = e
      BY <2>1, DayOfHour
    <2> HIDE DEF w, d
    <2> QED BY <1>3, <2>2
  <1>5. Night!TimerStands
    BY <1>1, <1>2 DEF Night!TimerStands
  <1>6. Night!NightsAreBehind
    <2> SUFFICES ASSUME NEW n \in DOMAIN v5, v5[n].byTimer, Night!Plain(v5[n].date)
                 PROVE  /\ Night!NightHour(v5[n].date) <= v2
                        /\ v3.up => Night!NightHour(v5[n].date) < v3.timer
      BY DEF Night!NightsAreBehind
    <2>1. v5[n].date \in Int
      BY DateOfEntry
    <2>2. Night!NightHour(v5[n].date) \in Int
      BY <2>1, NightHourIsInt
    <2>3. Night!NightHour(v5[n].date) <= v2
      OBVIOUS
    <2> HIDE DEF x
    <2> QED BY <1>1, <1>2, <2>2, <2>3
  <1>7. Night!NoneMissed
    <2> SUFFICES ASSUME NEW day \in Int, first <= day, 24 * day + 3 < Night!WallClock(x)
                 PROVE  FALSE
      BY <1>1 DEF Night!NoneMissed
    <2>1. Night!WallClock(x) \in (24 * Night!TodayET(x) + 1)..(24 * Night!TodayET(x) + 3)
      BY <1>2 DEF Night!OnTheHour
    <2> HIDE DEF x, w, d, first
    <2> QED BY <1>2, <1>3, <1>4, <2>1
  <1> QED BY <1>5, <1>6, <1>7

\* The same of the state a step leads to.
LEMMA ArmedThen ==
  (/\ Night!NightTyped
   /\ \A n \in DOMAIN v5 : v5[n].byTimer /\ Night!Plain(v5[n].date) =>
                           Night!NightHour(v5[n].date) <= v2
   /\ v3 = Night!Booted
   => Night!TimerStands /\ Night!NightsAreBehind /\ Night!NoneMissed)'
  <1>1. /\ Night!NightTyped
        /\ \A n \in DOMAIN v5 : v5[n].byTimer /\ Night!Plain(v5[n].date) =>
                                Night!NightHour(v5[n].date) <= v2
        /\ v3 = Night!Booted
        => Night!TimerStands /\ Night!NightsAreBehind /\ Night!NoneMissed
    BY Armed
  <1> QED BY <1>1, PTL

\* The module counts as the library does.
LEMMA SameNightCount == \A S : Night!Cardinality(S) = Cardinality(S)
  BY DEF Night!Cardinality, Cardinality

\* Before anything fires.
LEMMA NightAtFirst == Night!NightInit => Night!NightInv
  <1> SUFFICES ASSUME Night!NightInit PROVE Night!NightInv
    OBVIOUS
  <1>1. v1 \in {"none", "spring", "fall"} /\ v2 \in Int /\ v5 = <<>> /\ v3 = Night!Booted
    BY NightAssumption DEF Night!NightInit
  <1>2. v4 \in [NightJobs -> Night!NightRows] /\ Night!OneDraftPending
    <2> DEFINE fresh == [status : {"lead", "queued"}, due : Deadlines, cv : {FALSE}, pending : {0}]
    <2>1. v4 \in [NightJobs -> fresh]
      BY DEF Night!NightInit
    <2>2. \A row \in fresh : row \in Night!NightRows /\ ~row.cv /\ row.pending = 0
      <3> SUFFICES ASSUME NEW row \in fresh
                   PROVE  row \in Night!NightRows /\ ~row.cv /\ row.pending = 0
        OBVIOUS
      <3>1. row.cv \in {FALSE}
        OBVIOUS
      <3>2. row \in [status : {"lead", "queued"}, due : Deadlines, cv : BOOLEAN, pending : {0}]
        OBVIOUS
      <3>3. row \in Night!NightRows /\ row.pending = 0
        BY <3>2 DEF Night!NightRows
      <3> QED BY <3>1, <3>3
    <2> HIDE DEF fresh
    <2> QED BY <2>1, <2>2 DEF Night!OneDraftPending
  <1>3. Night!Before \in {-5, -4} /\ Night!After \in {-5, -4}
    BY <1>1 DEF Night!Before, Night!After, Night!Standard, Night!Daylight
  <1>4. Night!NextFire(v2) \in Int /\ Night!WallClock(v2) \in Int
    BY <1>1, <1>3 DEF Night!NextFire, Night!FireAt, Night!FireHour, Night!TodayET, Night!WallClock,
       Night!Offset
  <1>5. Night!NightTyped
    BY <1>1, <1>2, <1>4 DEF Night!NightTyped, Night!Booted, Night!Servers
  <1>6. Night!TimerStands /\ Night!NightsAreBehind /\ Night!NoneMissed
    BY <1>1, <1>5, Armed
  <1> QED BY <1>1, <1>2, <1>5, <1>6 DEF Night!NightInv, Night!OncePerNight

\* A run of the scheduler adds one entry, and drafts what waits for none.
LEMMA SchedulerRuns ==
  ASSUME Night!NightInv, NEW byTimer \in BOOLEAN, Night!RunAutoDraftScheduler(byTimer)
  PROVE  /\ v4' \in [NightJobs -> Night!NightRows] /\ Night!OneDraftPending'
         /\ \E done \in SUBSET NightJobs :
              v5' = Append(v5, [date |-> Night!TodayET(v2), jobs |-> done, byTimer |-> byTimer])
  <1>0. PICK S \in Night!Selections : \E done \in SUBSET S :
          /\ v4' = [j \in NightJobs |-> IF j \in done THEN [v4[j] EXCEPT !.pending = @ + 1] ELSE v4[j]]
          /\ v5' = Append(v5, [date |-> Night!TodayET(v2), jobs |-> done, byTimer |-> byTimer])
    BY DEF Night!RunAutoDraftScheduler
  <1>1. PICK done \in SUBSET S :
          /\ v4' = [j \in NightJobs |-> IF j \in done THEN [v4[j] EXCEPT !.pending = @ + 1] ELSE v4[j]]
          /\ v5' = Append(v5, [date |-> Night!TodayET(v2), jobs |-> done, byTimer |-> byTimer])
    BY <1>0
  <1>2. \A j \in done : j \in NightJobs /\ v4[j].pending = 0 /\ ~v4[j].cv
    BY DEF Night!Selections, Night!Eligible
  <1>3. v4 \in [NightJobs -> Night!NightRows]
    BY DEF Night!NightInv, Night!NightTyped
  <1>4. \A j \in NightJobs : v4'[j] \in Night!NightRows
    <2> SUFFICES ASSUME NEW j \in NightJobs PROVE v4'[j] \in Night!NightRows
      OBVIOUS
    <2>1. v4[j] \in Night!NightRows
      BY <1>3
    <2>2. v4'[j] = IF j \in done THEN [v4[j] EXCEPT !.pending = @ + 1] ELSE v4[j]
      BY <1>1
    <2>3. [v4[j] EXCEPT !.pending = @ + 1] \in Night!NightRows
      BY <2>1 DEF Night!NightRows
    <2> QED BY <2>1, <2>2, <2>3
  <1>5. Night!OneDraftPending'
    BY <1>1, <1>2, <1>3 DEF Night!NightInv, Night!OneDraftPending, Night!NightRows
  <1> QED BY <1>1, <1>2, <1>4, <1>5

\* An entry of the owner's leaves the nights as they are.
LEMMA NightOfHand ==
  ASSUME Night!NightInv, Night!FireByHand
  PROVE  Night!NightInv'
  <1>1. v1' = v1 /\ v2' = v2 /\ v3' = v3 /\ Night!RunAutoDraftScheduler(FALSE)
    BY DEF Night!FireByHand
  <1>2. v4' \in [NightJobs -> Night!NightRows] /\ Night!OneDraftPending'
    BY <1>1, SchedulerRuns
  <1>3. PICK done \in SUBSET NightJobs :
          v5' = Append(v5, [date |-> Night!TodayET(v2), jobs |-> done, byTimer |-> FALSE])
    BY <1>1, SchedulerRuns
  <1> DEFINE e == [date |-> Night!TodayET(v2), jobs |-> done, byTimer |-> FALSE]
  <1>4. v5 \in Seq(Night!NightEntries) /\ v2 \in Int /\ Night!NightTyped
    BY DEF Night!NightInv, Night!NightTyped
  <1>5. e \in Night!NightEntries /\ ~e.byTimer
    BY <1>4, Clocks DEF Night!NightEntries
  <1>6. v5' = Append(v5, e)
    BY <1>3
  <1> HIDE DEF e
  <1>7. /\ v5' \in Seq(Night!NightEntries) /\ DOMAIN v5' = DOMAIN v5 \cup {Len(v5) + 1}
        /\ Len(v5) + 1 \notin DOMAIN v5
        /\ \A n \in DOMAIN v5 : v5'[n] = v5[n]
        /\ v5'[Len(v5) + 1] = e
    BY <1>4, <1>5, <1>6
  <1>8. Night!NightTyped'
    BY <1>1, <1>2, <1>7 DEF Night!NightInv, Night!NightTyped
  <1>9. Night!TimerStands'
    BY <1>1 DEF Night!NightInv, Night!TimerStands, Night!OnTheHour, Night!WallClock, Night!TodayET,
       Night!Offset, Night!Before, Night!After, Night!Plain, Night!NightHour, Night!FireAt
  <1>10. \A day : /\ Night!NightHour(day)' = Night!NightHour(day)
                  /\ Night!Plain(day)' <=> Night!Plain(day)
    BY <1>1 DEF Night!Before, Night!After, Night!Plain, Night!NightHour, Night!FireAt
  <1>11. \A n \in DOMAIN v5' : v5'[n].byTimer => n \in DOMAIN v5 /\ v5'[n] = v5[n]
    BY <1>5, <1>7
  <1>12. Night!NightsAreBehind'
    <2> SUFFICES ASSUME NEW n \in DOMAIN v5', v5'[n].byTimer, Night!Plain(v5'[n].date)
                 PROVE  /\ Night!NightHour(v5'[n].date) <= v2
                        /\ v3.up => Night!NightHour(v5'[n].date) < v3.timer
      BY <1>1, <1>10 DEF Night!NightsAreBehind
    <2> QED BY <1>11 DEF Night!NightInv, Night!NightsAreBehind
  <1>13. Night!OncePerNight'
    <2> SUFFICES ASSUME NEW m \in DOMAIN v5', NEW n \in DOMAIN v5', v5'[m].byTimer, v5'[n].byTimer,
                        v5'[m].date = v5'[n].date, Night!Plain(v5'[n].date)
                 PROVE  m = n
      BY <1>1, <1>10 DEF Night!OncePerNight
    <2> QED BY <1>11 DEF Night!NightInv, Night!OncePerNight
  <1>14. Night!NoneMissed'
    <2> SUFFICES ASSUME v3.up, NEW day \in Int, v3.first <= day, 24 * day + 3 < Night!WallClock(v3.timer)
                 PROVE  Night!Nights(day)' # {}
      BY <1>1 DEF Night!NoneMissed, Night!WallClock, Night!Offset, Night!Before, Night!After
    <2>1. PICK n \in DOMAIN v5 : v5[n].byTimer /\ v5[n].date = day
      BY DEF Night!NightInv, Night!NoneMissed, Night!Nights
    <2> QED BY <1>7, <2>1 DEF Night!Nights
  <1> QED BY <1>2, <1>8, <1>9, <1>12, <1>13, <1>14 DEF Night!NightInv

\* The timer's entry is the only one of its night, and the timer goes on to the next.
LEMMA NightOfFire ==
  ASSUME Night!NightInv, Night!Fire
  PROVE  Night!NightInv'
  <1> DEFINE x == Night!NextFire(v2)
             d == Night!TodayET(v2)
  <1>1. /\ v3.up /\ v3.timer = v2 /\ v1' = v1 /\ v2' = v2 /\ v3' = [v3 EXCEPT !.timer = x]
        /\ Night!RunAutoDraftScheduler(TRUE)
    BY DEF Night!Fire
  <1>2. v4' \in [NightJobs -> Night!NightRows] /\ Night!OneDraftPending'
    BY <1>1, SchedulerRuns
  <1>3. PICK done \in SUBSET NightJobs : v5' = Append(v5, [date |-> d, jobs |-> done, byTimer |-> TRUE])
    BY <1>1, SchedulerRuns
  <1> DEFINE e == [date |-> d, jobs |-> done, byTimer |-> TRUE]
  <1>4. v5 \in Seq(Night!NightEntries) /\ v2 \in Int /\ Night!NightTyped /\ v3 \in Night!Servers
    BY DEF Night!NightInv, Night!NightTyped
  <1>5. d \in Int /\ e \in Night!NightEntries /\ e.byTimer /\ e.date = d
    BY <1>4, Clocks DEF Night!NightEntries
  <1>6. v5' = Append(v5, e)
    BY <1>3
  <1>7. /\ x \in Int /\ x > v2 /\ Night!OnTheHour(x) /\ Night!TodayET(x) \in {d, d + 1}
    BY <1>4, NextFireStands
  <1> HIDE DEF e, x, d
  <1>8. /\ v5' \in Seq(Night!NightEntries) /\ DOMAIN v5' = DOMAIN v5 \cup {Len(v5) + 1}
        /\ Len(v5) + 1 \notin DOMAIN v5
        /\ \A n \in DOMAIN v5 : v5'[n] = v5[n]
        /\ v5'[Len(v5) + 1] = e
    BY <1>4, <1>5, <1>6
  <1>9. v3' \in Night!Servers /\ v3'.up /\ v3'.timer = x /\ v3'.first = v3.first
    BY <1>1, <1>4, <1>7 DEF Night!Servers
  <1>10. Night!NightTyped'
    BY <1>1, <1>2, <1>8, <1>9 DEF Night!NightInv, Night!NightTyped
  <1>11. /\ \A day : /\ Night!NightHour(day)' = Night!NightHour(day)
                     /\ Night!Plain(day)' <=> Night!Plain(day)
         /\ \A t : Night!WallClock(t)' = Night!WallClock(t)
         /\ \A t : Night!OnTheHour(t)' <=> Night!OnTheHour(t)
    BY <1>1 DEF Night!OnTheHour, Night!WallClock, Night!TodayET, Night!Offset, Night!Before,
       Night!After, Night!Plain, Night!NightHour, Night!FireAt
  <1>12. Night!TimerStands'
    <2>1. PICK t : t = x
      OBVIOUS
    <2>2. Night!OnTheHour(t)'
      BY <1>7, <1>11, <2>1
    <2>3. Night!OnTheHour(v3.timer)'
      BY <1>9, <2>1, <2>2
    <2> QED BY <1>1, <1>4, <1>7, <1>9, <2>3 DEF Night!TimerStands
  <1>13. Night!OnTheHour(v2)
    BY <1>1 DEF Night!NightInv, Night!TimerStands
  <1>14. Night!Plain(d) => v2 = Night!NightHour(d)
    BY <1>13 DEF Night!OnTheHour, d
  <1>15. ASSUME NEW n \in DOMAIN v5, v5[n].byTimer, Night!Plain(v5[n].date)
         PROVE  /\ Night!NightHour(v5[n].date) \in Int
                /\ Night!NightHour(v5[n].date) < v2
                /\ v5[n].date # d
    <2>1. v5[n].date \in Int
      BY <1>4, DateOfEntry
    <2>2. Night!NightHour(v5[n].date) \in Int
      BY <1>4, <2>1, NightHourIsInt
    <2>3. Night!NightHour(v5[n].date) < v2
      BY <1>1, <1>15 DEF Night!NightInv, Night!NightsAreBehind
    <2> QED BY <1>4, <1>14, <1>15, <2>2, <2>3
  <1>16. Night!NightsAreBehind'
    <2> SUFFICES ASSUME NEW n \in DOMAIN v5', v5'[n].byTimer, Night!Plain(v5'[n].date)
                 PROVE  /\ Night!NightHour(v5'[n].date) <= v2
                        /\ Night!NightHour(v5'[n].date) < x
      BY <1>1, <1>9, <1>11 DEF Night!NightsAreBehind
    <2>1. CASE n \in DOMAIN v5
      <3>1. Night!NightHour(v5'[n].date) \in Int /\ Night!NightHour(v5'[n].date) < v2
        BY <1>8, <1>15, <2>1
      <3> QED BY <1>4, <1>7, <3>1
    <2>2. CASE n = Len(v5) + 1
      <3>1. Night!NightHour(v5'[n].date) = v2
        BY <1>5, <1>8, <1>14, <2>2
      <3> QED BY <1>4, <1>7, <3>1
    <2> QED BY <1>8, <2>1, <2>2
  <1>17. Night!OncePerNight'
    <2> SUFFICES ASSUME NEW m \in DOMAIN v5', NEW n \in DOMAIN v5', v5'[m].byTimer, v5'[n].byTimer,
                        v5'[m].date = v5'[n].date, Night!Plain(v5'[n].date)
                 PROVE  m = n
      BY <1>1, <1>11 DEF Night!OncePerNight
    <2>1. CASE m \in DOMAIN v5 /\ n \in DOMAIN v5
      BY <1>8, <2>1 DEF Night!NightInv, Night!OncePerNight
    <2>2. m = Len(v5) + 1 => v5'[m].date = d
      BY <1>5, <1>8
    <2>3. n = Len(v5) + 1 => v5'[n].date = d
      BY <1>5, <1>8
    <2>4. n \in DOMAIN v5 => v5'[n].date # d
      BY <1>8, <1>15
    <2>5. m \in DOMAIN v5 => v5'[m].date # d
      BY <1>8, <1>15
    <2> QED BY <1>8, <2>1, <2>2, <2>3, <2>4, <2>5
  <1>18. Night!NoneMissed'
    <2> SUFFICES ASSUME NEW day \in Int, v3.first <= day, 24 * day + 3 < Night!WallClock(x)
                 PROVE  Night!Nights(day)' # {}
      <3>1. PICK t : t = x
        OBVIOUS
      <3>2. Night!WallClock(v3.timer)' = Night!WallClock(t)
        BY <1>9, <1>11, <3>1
      <3> QED BY <1>9, <3>1, <3>2 DEF Night!NoneMissed
    <2>1. Night!WallClock(x) \in (24 * Night!TodayET(x) + 1)..(24 * Night!TodayET(x) + 3)
      BY <1>7 DEF Night!OnTheHour
    <2>2. Night!WallClock(v2) \in (24 * d + 1)..(24 * d + 3)
      BY <1>13 DEF Night!OnTheHour, d
    <2>3. day <= d
      BY <1>5, <1>7, <2>1
    <2>4. CASE day = d
      BY <1>5, <1>8, <2>4 DEF Night!Nights
    <2>5. CASE day < d
      <3>1. 24 * day + 3 < Night!WallClock(v2)
        BY <1>5, <2>2, <2>5
      <3>2. PICK n \in DOMAIN v5 : v5[n].byTimer /\ v5[n].date = day
        BY <1>1, <3>1 DEF Night!NightInv, Night!NoneMissed, Night!Nights
      <3> QED BY <1>8, <3>2 DEF Night!Nights
    <2> QED BY <1>5, <2>3, <2>4, <2>5
  <1> QED BY <1>2, <1>10, <1>12, <1>16, <1>17, <1>18 DEF Night!NightInv

\* The hours pass, up to the timer of a server that is up.
LEMMA NightOfTick ==
  ASSUME Night!NightInv, Night!Tick
  PROVE  Night!NightInv'
  <1>1. /\ (v3.up => v2 < v3.timer) /\ v2' = v2 + 1 /\ v1' = v1 /\ v3' = v3 /\ v4' = v4 /\ v5' = v5
    BY DEF Night!Tick
  <1>2. v2 \in Int /\ v3 \in Night!Servers /\ v5 \in Seq(Night!NightEntries) /\ Night!NightTyped
    BY DEF Night!NightInv, Night!NightTyped
  <1>3. v3.timer \in Int
    BY <1>2 DEF Night!Servers
  <1>4. Night!NightTyped' /\ Night!OneDraftPending'
    BY <1>1, <1>2 DEF Night!NightInv, Night!NightTyped, Night!OneDraftPending
  <1>5. Night!TimerStands'
    BY <1>1, <1>2, <1>3 DEF Night!NightInv, Night!TimerStands, Night!OnTheHour, Night!Plain,
       Night!NightHour, Night!WallClock, Night!TodayET, Night!Offset, Night!FireAt, Night!Before,
       Night!After
  <1>6. Night!NightsAreBehind'
    <2> SUFFICES ASSUME NEW n \in DOMAIN v5, v5[n].byTimer, Night!Plain(v5[n].date)
                 PROVE  /\ Night!NightHour(v5[n].date) <= v2 + 1
                        /\ v3.up => Night!NightHour(v5[n].date) < v3.timer
      BY <1>1 DEF Night!NightsAreBehind, Night!Plain, Night!NightHour, Night!FireAt,
         Night!Before, Night!After
    <2>1. Night!NightHour(v5[n].date) \in Int
      BY <1>2, DateOfEntry, NightHourIsInt
    <2>2. /\ Night!NightHour(v5[n].date) <= v2
          /\ v3.up => Night!NightHour(v5[n].date) < v3.timer
      BY DEF Night!NightInv, Night!NightsAreBehind
    <2> QED BY <1>2, <2>1, <2>2
  <1>7. Night!OncePerNight' /\ Night!NoneMissed'
    BY <1>1 DEF Night!NightInv, Night!OncePerNight, Night!NoneMissed, Night!Plain, Night!Nights,
       Night!WallClock, Night!Offset, Night!Before, Night!After
  <1> QED BY <1>4, <1>5, <1>6, <1>7 DEF Night!NightInv

\* A server that stops has no timer, and one that boots arms it anew.
LEMMA NightOfBoots ==
  ASSUME Night!NightInv, Night!Stops \/ Night!Boots
  PROVE  Night!NightInv'
  <1>1. v1' = v1 /\ v2' = v2 /\ v4' = v4 /\ v5' = v5
    BY DEF Night!Stops, Night!Boots
  <1>2. Night!NightTyped /\ Night!OneDraftPending' /\ Night!OncePerNight'
    BY <1>1 DEF Night!NightInv, Night!OneDraftPending, Night!OncePerNight, Night!Plain
  <1>3. CASE Night!Stops
    <2>1. v3' = Night!Down
      BY <1>3 DEF Night!Stops
    <2>2. ~v3'.up /\ v3' \in Night!Servers
      BY <2>1, NightAssumption DEF Night!Down, Night!Servers
    <2>3. Night!NightTyped'
      BY <1>1, <1>2, <2>2 DEF Night!NightTyped
    <2>4. Night!TimerStands' /\ Night!NoneMissed'
      BY <2>2 DEF Night!TimerStands, Night!NoneMissed
    <2>5. Night!NightsAreBehind'
      BY <1>1, <2>2 DEF Night!NightInv, Night!NightsAreBehind, Night!Plain, Night!NightHour,
         Night!FireAt, Night!Before, Night!After
    <2> QED BY <1>2, <2>3, <2>4, <2>5 DEF Night!NightInv
  <1>4. CASE Night!Boots
    <2>1. v3' = Night!Booted
      BY <1>4 DEF Night!Boots
    <2>2. v3' = Night!Booted'
      BY <1>1, <2>1 DEF Night!Booted, Night!NextFire, Night!FireAt, Night!TodayET, Night!WallClock,
         Night!Offset, Night!Before, Night!After
    <2>3. v2 \in Int /\ Night!NextFire(v2) \in Int /\ Night!WallClock(v2) \in Int
      BY <1>2, NextFireStands, Clocks DEF Night!NightTyped
    <2>4. (Night!WallClock(v2) + 23) \div 24 \in Int
      BY <2>3, DayOfHour
    <2>5. v3' \in Night!Servers
      BY <2>1, <2>3, <2>4 DEF Night!Booted, Night!Servers
    <2>6. Night!NightTyped'
      BY <1>1, <1>2, <2>5 DEF Night!NightTyped
    <2>7. (\A n \in DOMAIN v5 : v5[n].byTimer /\ Night!Plain(v5[n].date) =>
                                  Night!NightHour(v5[n].date) <= v2)'
      BY <1>1 DEF Night!NightInv, Night!NightsAreBehind, Night!Plain, Night!NightHour,
         Night!FireAt, Night!Before, Night!After
    <2>8. Night!TimerStands' /\ Night!NightsAreBehind' /\ Night!NoneMissed'
      BY <2>2, <2>6, <2>7, ArmedThen
    <2> QED BY <1>2, <2>6, <2>8 DEF Night!NightInv
  <1> QED BY <1>3, <1>4

\* The sweep, the laptop and the owner change the jobs.
LEMMA NightOfJobs ==
  ASSUME Night!NightInv,
         \/ Night!SweepExpiredJobs
         \/ \E j \in NightJobs : Night!RunnerReports(j) \/ Night!OwnerQueues(j)
  PROVE  Night!NightInv'
  <1>1. v4 \in [NightJobs -> Night!NightRows] /\ v3 \in Night!Servers /\ v2 \in Int
    BY DEF Night!NightInv, Night!NightTyped
  <1>2. \A k \in NightJobs :
          v4[k] \in Night!NightRows /\ v4[k].pending <= (IF v4[k].cv THEN 0 ELSE 1)
    BY SMTT(30), <1>1 DEF Night!NightInv, Night!OneDraftPending
  <1>3. /\ v1' = v1 /\ v2' = v2 /\ v5' = v5
        /\ v3' \in Night!Servers /\ v3'.up = v3.up /\ v3'.timer = v3.timer /\ v3'.first = v3.first
    <2>1. (v2 + ServerOffset) \div 24 \in Int
      BY <1>1, NightAssumption, DayOfHour
    <2> QED BY <1>1, <2>1 DEF Night!SweepExpiredJobs, Night!RunnerReports, Night!OwnerQueues,
               Night!Servers, Night!LocalDate
  <1>4. v4' \in [NightJobs -> Night!NightRows] /\ Night!OneDraftPending'
    <2>1. CASE Night!SweepExpiredJobs
      <3>1. v4' = [j \in NightJobs |-> IF Night!ShouldAutoClose(j)
                                       THEN [v4[j] EXCEPT !.status = "closed"] ELSE v4[j]]
        BY <2>1 DEF Night!SweepExpiredJobs
      <3> QED BY <1>2, <3>1 DEF Night!NightRows, Night!OneDraftPending
    <2>2. ASSUME NEW j \in NightJobs, Night!RunnerReports(j)
          PROVE  v4' \in [NightJobs -> Night!NightRows] /\ Night!OneDraftPending'
      <3>1. v4[j].pending = 1 /\ v4[j] \in Night!NightRows /\ v4[j].cv \in BOOLEAN
        <4>1. v4[j].pending > 0
          BY <2>2 DEF Night!RunnerReports
        <4> QED BY <1>2, <4>1 DEF Night!NightRows
      <3>2. \E c \in BOOLEAN :
              v4' = [v4 EXCEPT ![j] = [v4[j] EXCEPT !.pending = v4[j].pending - 1, !.cv = c]]
        <4>1. PICK c \in {v4[j].cv, TRUE} :
                v4' = [v4 EXCEPT ![j] = [v4[j] EXCEPT !.pending = v4[j].pending - 1, !.cv = c]]
          BY <2>2 DEF Night!RunnerReports
        <4>2. c \in BOOLEAN
          BY <3>1, Zenon
        <4> QED BY <4>1, <4>2, Zenon
      <3>3. PICK cv \in BOOLEAN : v4' = [v4 EXCEPT ![j] = [v4[j] EXCEPT !.pending = 0, !.cv = cv]]
        <4>1. v4[j].pending - 1 = 0
          BY <3>1
        <4> QED BY <3>2, <4>1
      <3> DEFINE row == [v4[j] EXCEPT !.pending = 0, !.cv = cv]
      <3>4. row \in Night!NightRows /\ row.pending = 0
        BY <3>1 DEF Night!NightRows
      <3> HIDE DEF row
      <3>5. row.pending <= (IF row.cv THEN 0 ELSE 1)
        BY <3>4
      <3>6. v4' = [v4 EXCEPT ![j] = row]
        BY <3>3 DEF row
      <3> QED BY <1>1, <1>2, <3>4, <3>5, <3>6 DEF Night!OneDraftPending
    <2>3. ASSUME NEW j \in NightJobs, Night!OwnerQueues(j)
          PROVE  v4' \in [NightJobs -> Night!NightRows] /\ Night!OneDraftPending'
      <3>1. v4' = [v4 EXCEPT ![j].status = "queued"]
        BY <2>3 DEF Night!OwnerQueues
      <3> QED BY <1>1, <1>2, <3>1 DEF Night!NightRows, Night!OneDraftPending
    <2> QED BY <2>1, <2>2, <2>3
  <1>5. Night!NightTyped'
    BY <1>3, <1>4 DEF Night!NightInv, Night!NightTyped
  <1>6. Night!TimerStands' /\ Night!NightsAreBehind' /\ Night!OncePerNight' /\ Night!NoneMissed'
    BY <1>3, QuietNight
  <1> QED BY <1>4, <1>5, <1>6 DEF Night!NightInv

\* NightInv outlives every step.
LEMMA NightStays ==
  ASSUME Night!NightInv, [Night!NightNext]_(Night!nightVars)
  PROVE  Night!NightInv'
  <1>1. CASE UNCHANGED Night!nightVars
    <2>1. v1' = v1 /\ v2' = v2 /\ v3' = v3 /\ v4' = v4 /\ v5' = v5
      BY <1>1 DEF Night!nightVars
    <2>2. Night!TimerStands' /\ Night!NightsAreBehind' /\ Night!OncePerNight' /\ Night!NoneMissed'
      BY <2>1, QuietNight
    <2> QED BY <2>1, <2>2 DEF Night!NightInv, Night!NightTyped, Night!OneDraftPending
  <1> QED BY <1>1, NightOfFire, NightOfHand, NightOfTick, NightOfBoots, NightOfJobs
          DEF Night!NightNext

\* What the nights promise follows from NightInv.
LEMMA NightFacts ==
  ASSUME Night!NightInv
  PROVE  Night!OneDraftPending /\ Night!EveryNightIsRun
  <1>1. Night!NightTyped /\ v2 \in Int /\ v3 \in Night!Servers
    BY DEF Night!NightInv, Night!NightTyped
  <1>2. ASSUME NEW day \in Night!Days, day # ChangeDay \/ v1 = "none"
        PROVE  Night!Cardinality(Night!Nights(day)) <= 1
    <2>1. \A m, n \in Night!Nights(day) : m = n
      BY <1>2 DEF Night!NightInv, Night!OncePerNight, Night!Nights, Night!Plain
    <2>2. CASE Night!Nights(day) = {}
      BY <2>2, FS_EmptySet, SameNightCount
    <2>3. ASSUME NEW n \in Night!Nights(day) PROVE Cardinality(Night!Nights(day)) = 1
      <3>1. Night!Nights(day) = {n}
        BY <2>1, <2>3
      <3> QED BY <3>1, FS_Singleton
    <2> QED BY <2>2, <2>3, SameNightCount
  <1>3. ASSUME NEW day \in Night!Days, v3.up, v3.first <= day,
               Night!WallClock(v2) > 24 * day + 2 + 1
        PROVE  Night!Nights(day) # {}
    <2>1. v3.timer \in Int /\ v2 <= v3.timer
      BY <1>1, <1>3 DEF Night!Servers, Night!NightInv, Night!TimerStands
    <2>2. Night!WallClock(v2) <= Night!WallClock(v3.timer)
      BY <1>1, <2>1, WallClockKeeps
    <2>3. Night!WallClock(v2) \in Int /\ Night!WallClock(v3.timer) \in Int /\ day \in Int
      BY SMTT(30), <1>1, <2>1, Clocks DEF Night!Days
    <2>4. 24 * day + 3 < Night!WallClock(v3.timer)
      BY <1>3, <2>2, <2>3
    <2> QED BY <1>3, <2>3, <2>4 DEF Night!NightInv, Night!NoneMissed
  <1> QED BY <1>2, <1>3 DEF Night!EveryNightIsRun, Night!FireHour, Night!NightInv

-----------------------------------------------------------------------------
(***************************************************************************)
(* RunProgress.  Facts about sequences first.                              *)
(***************************************************************************)
\* The first n elements of a sequence.
LEMMA PrefixFacts ==
  ASSUME NEW S, NEW s \in Seq(S), NEW n \in 0 .. Len(s)
  PROVE  /\ SubSeq(s, 1, n) \in Seq(S) /\ Len(SubSeq(s, 1, n)) = n
         /\ DOMAIN SubSeq(s, 1, n) = 1 .. n
         /\ \A i \in 1 .. n : SubSeq(s, 1, n)[i] = s[i]
  <1>1. Len(s) \in Nat /\ \A i \in 1 .. n : s[i] \in S
    BY LenProperties, ElementOfSeq
  <1>2. /\ SubSeq(s, 1, n) \in Seq(S)
        /\ Len(SubSeq(s, 1, n)) = IF 1 <= n THEN n - 1 + 1 ELSE 0
        /\ \A i \in 1 .. n - 1 + 1 : SubSeq(s, 1, n)[i] = s[1 + i - 1]
    BY <1>1, SubSeqProperties
  <1>3. DOMAIN SubSeq(s, 1, n) = 1 .. Len(SubSeq(s, 1, n))
    BY <1>2, LenProperties
  <1> QED BY <1>1, <1>2, <1>3

\* Appending leaves the beginning of a sequence alone.
LEMMA PrefixOfAppend ==
  ASSUME NEW S, NEW s \in Seq(S), NEW e \in S, NEW n \in 0 .. Len(s)
  PROVE  SubSeq(Append(s, e), 1, n) = SubSeq(s, 1, n)
  <1> DEFINE t == Append(s, e)
  <1>1. /\ t \in Seq(S) /\ Len(t) = Len(s) + 1 /\ Len(s) \in Nat
        /\ \A i \in 1 .. Len(s) : t[i] = s[i]
    BY AppendProperties, LenProperties
  <1> HIDE DEF t
  <1>2. n \in 0 .. Len(t)
    BY <1>1
  <1>3. /\ SubSeq(s, 1, n) \in Seq(S) /\ Len(SubSeq(s, 1, n)) = n
        /\ \A i \in 1 .. n : SubSeq(s, 1, n)[i] = s[i]
    BY PrefixFacts
  <1>4. /\ SubSeq(t, 1, n) \in Seq(S) /\ Len(SubSeq(t, 1, n)) = n
        /\ \A i \in 1 .. n : SubSeq(t, 1, n)[i] = t[i]
    BY <1>1, <1>2, PrefixFacts
  <1>5. \A i \in 1 .. n : SubSeq(t, 1, n)[i] = SubSeq(s, 1, n)[i]
    BY <1>1, <1>3, <1>4
  <1>6. SubSeq(t, 1, n) = SubSeq(s, 1, n)
    BY <1>3, <1>4, <1>5, SeqEqual
  <1> QED BY <1>6 DEF t

\* A sequence without repetition stays so when what is appended was not in it.
LEMMA AppendInjective1 ==
  ASSUME NEW S, NEW s \in Seq(S), NEW e \in S, Transcript!IsInjective(s),
         \A i \in 1 .. Len(s) : s[i] # e
  PROVE  Transcript!IsInjective(Append(s, e))
  <1> DEFINE t == Append(s, e)
  <1>1. /\ t \in Seq(S) /\ Len(t) = Len(s) + 1 /\ Len(s) \in Nat
        /\ t[Len(s) + 1] = e
        /\ \A i \in 1 .. Len(s) : t[i] = s[i]
        /\ DOMAIN s = 1 .. Len(s)
    BY AppendProperties, LenProperties
  <1> HIDE DEF t
  <1>2. DOMAIN t = 1 .. Len(s) + 1
    BY <1>1, LenProperties
  <1>3. \A i, j \in 1 .. Len(s) : s[i] = s[j] => i = j
    BY <1>1 DEF Transcript!IsInjective
  <1>4. ASSUME NEW i \in 1 .. Len(s) + 1, NEW j \in 1 .. Len(s) + 1, t[i] = t[j]
        PROVE  i = j
    <2>1. CASE i \in 1 .. Len(s) /\ j \in 1 .. Len(s)
      BY <1>1, <1>3, <1>4, <2>1
    <2>2. CASE i = Len(s) + 1 /\ j \in 1 .. Len(s)
      BY <1>1, <1>4, <2>2
    <2>3. CASE i \in 1 .. Len(s) /\ j = Len(s) + 1
      BY <1>1, <1>4, <2>3
    <2> QED BY <1>1, <2>1, <2>2, <2>3
  <1>5. Transcript!IsInjective(t)
    BY <1>2, <1>4 DEF Transcript!IsInjective
  <1> QED BY <1>5 DEF t

-----------------------------------------------------------------------------
\* A fold takes what is shown to the end of the row.
LEMMA FoldCompletes ==
  ASSUME Transcript!ProgressInv, Transcript!FoldRunnerProgress
  PROVE  v5' = Len(v3) /\ v6' = v3
  <1>1. /\ v3 \in Seq(1 .. v1) /\ v5 \in 0 .. Len(v3)
        /\ v6 = SubSeq(v3, 1, v5)
        /\ v6' = v6 \o SubSeq(v3, v5 + 1, Len(v3))
        /\ v5' = Len(v3)
    BY DEF Transcript!ProgressInv, Transcript!LinesStored, Transcript!ShownIsPrefix,
       Transcript!FoldRunnerProgress
  <1>2. Len(v3) \in Nat
    BY <1>1, LenProperties
  <1>3. /\ 1 \in 1 .. Len(v3) + 1 /\ v5 \in 1 - 1 .. Len(v3)
        /\ Len(v3) \in v5 .. Len(v3)
    BY <1>1, <1>2
  <1>4. v6' = SubSeq(v3, 1, Len(v3))
    BY <1>1, <1>3, ConcatAdjacentSubSeq
  <1>5. SubSeq(v3, 1, Len(v3)) = v3
    BY <1>1, SubSeqFull
  <1> QED BY <1>1, <1>4, <1>5

\* A run starts with no line written, stored or shown.
LEMMA ProgressInitInv == LastLine \in Nat /\ Transcript!Init => Transcript!ProgressInv
  <1> SUFFICES ASSUME LastLine \in Nat, Transcript!Init PROVE Transcript!ProgressInv
    OBVIOUS
  <1>1. v3 \in Seq(1 .. v1) /\ Len(v3) = 0
    BY EmptySeq DEF Transcript!Init
  <1>2. SubSeq(v3, 1, 0) = <<>>
    BY SubSeqEmpty
  <1>3. DOMAIN v3 = {}
    <2>1. DOMAIN v3 = 1 .. Len(v3)
      BY <1>1, LenProperties
    <2> QED BY <1>1, <2>1
  <1>4. Transcript!LinesStored
    <2>1. Transcript!IsInjective(v3)
      BY <1>3 DEF Transcript!IsInjective
    <2>2. \A i \in 1 .. Len(v3) : v3[i] \notin v2
      BY <1>1
    <2>3. v1 = 0 /\ v2 = {}
      BY DEF Transcript!Init
    <2>4. v4 \in BOOLEAN /\ v7 \in BOOLEAN /\ v8 = "unknown"
      BY DEF Transcript!Init
    <2>5. v1 \in Nat /\ v1 <= LastLine /\ v2 \subseteq 1 .. v1
      BY <2>3
    <2> QED BY <1>1, <2>1, <2>2, <2>4, <2>5 DEF Transcript!LinesStored
  <1> QED BY <1>1, <1>2, <1>4 DEF Transcript!Init, Transcript!ProgressInv,
             Transcript!ShownIsPrefix

\* A line that is stored was under way, so it is not in the row yet.
LEMMA AppendInv ==
  ASSUME ~Capped, Transcript!ProgressInv, NEW n, Transcript!AppendAgentJobProgress(n)
  PROVE  Transcript!ProgressInv'
  <1>1. CASE v4
    BY <1>1 DEF Transcript!ProgressInv, Transcript!LinesStored, Transcript!ShownIsPrefix,
       Transcript!AppendAgentJobProgress
  <1>2. CASE ~v4
    <2>1. /\ v3 \in Seq(1 .. v1) /\ n \in 1 .. v1
          /\ Transcript!IsInjective(v3) /\ \A i \in 1 .. Len(v3) : v3[i] # n
          /\ v5 \in 0 .. Len(v3) /\ v6 = SubSeq(v3, 1, v5)
          /\ ~v7 /\ \A i \in 1 .. Len(v3) : v3[i] \notin v2
      BY <1>2 DEF Transcript!ProgressInv, Transcript!LinesStored, Transcript!ShownIsPrefix,
         Transcript!AppendAgentJobProgress
    <2>2. /\ v3' = Append(v3, n) /\ v2' = v2 \ {n}
          /\ UNCHANGED <<v1, v4, v5, v6, v7, v8>>
      BY <1>2 DEF Transcript!AppendAgentJobProgress, Transcript!Stored
    <2>3. /\ v3' \in Seq(1 .. v1) /\ Len(v3') = Len(v3) + 1
          /\ \A i \in 1 .. Len(v3) : v3'[i] = v3[i]
          /\ v3'[Len(v3) + 1] = n
      BY <2>1, <2>2, AppendProperties
    <2>4. Len(v3) \in Nat
      BY <2>1, LenProperties
    <2>5. Transcript!IsInjective(v3') /\ SubSeq(v3', 1, v5) = v6
      BY <2>1, <2>2, AppendInjective1, PrefixOfAppend
    <2>6. \A i \in 1 .. Len(v3') : v3'[i] \notin v2'
      BY <2>1, <2>2, <2>3, <2>4
    <2>7. Transcript!LinesStored'
      BY <2>2, <2>3, <2>5, <2>6 DEF Transcript!ProgressInv, Transcript!LinesStored
    <2>8. Transcript!ShownIsPrefix'
      BY <2>1, <2>2, <2>3, <2>4, <2>5 DEF Transcript!ShownIsPrefix
    <2> QED BY <2>7, <2>8 DEF Transcript!ProgressInv
  <1> QED BY <1>1, <1>2

\* Every step preserves the invariant.
LEMMA ProgressStepInv ==
  LastLine \in Nat /\ ~Capped /\ Transcript!ProgressInv /\ [Transcript!Next]_(Transcript!vars) => Transcript!ProgressInv'
  <1> SUFFICES ASSUME LastLine \in Nat, ~Capped, Transcript!ProgressInv, [Transcript!Next]_(Transcript!vars) PROVE Transcript!ProgressInv'
    OBVIOUS
  <1>0. /\ v3 \in Seq(1 .. v1) /\ Len(v3) \in Nat
        /\ \A i \in 1 .. Len(v3) : v3[i] \in 1 .. v1
    <2>1. v3 \in Seq(1 .. v1)
      BY DEF Transcript!ProgressInv, Transcript!LinesStored
    <2> QED BY <2>1, LenProperties, ElementOfSeq
  <1>1. CASE Transcript!AgentWrites
    <2>1. /\ UNCHANGED <<v3, v4, v5, v6, v7, v8>>
          /\ v1' = v1 + 1 /\ v1 < LastLine /\ v1 \in Nat
          /\ v2' = v2 \cup {v1 + 1} /\ v2 \subseteq 1 .. v1
      BY <1>1 DEF Transcript!AgentWrites, Transcript!ProgressInv, Transcript!LinesStored
    <2>2. 1 .. v1 \subseteq 1 .. v1' /\ v2' \subseteq 1 .. v1'
      BY <2>1
    <2>3. v3' \in Seq(1 .. v1')
      BY <1>0, <2>1, <2>2, SeqMonotonic
    <2>4. \A i \in 1 .. Len(v3) : v3[i] \notin v2'
      BY <1>0, <2>1 DEF Transcript!ProgressInv, Transcript!LinesStored
    <2>5. v1' \in Nat /\ v1' <= LastLine
      BY <2>1
    <2> QED BY <2>1, <2>2, <2>3, <2>4, <2>5 DEF Transcript!ProgressInv, Transcript!LinesStored,
               Transcript!ShownIsPrefix
  <1>2. CASE Transcript!Poll \/ Transcript!ServeResult
    <2>1. v5' = Len(v3) /\ v6' = v3
      BY <1>2, FoldCompletes DEF Transcript!Poll, Transcript!ServeResult
    <2>2. /\ v3' = v3 /\ v1' = v1 /\ v2' = v2
          /\ v4' \in BOOLEAN /\ v7' \in BOOLEAN
          /\ v8' \in {"unknown", "derived", "missing"}
          /\ v7' => v4'
      <3>1. v4 \in BOOLEAN /\ v8 \in {"unknown", "derived", "missing"}
        BY DEF Transcript!ProgressInv, Transcript!LinesStored
      <3>2. CASE Transcript!Poll
        BY <3>1, <3>2 DEF Transcript!Poll
      <3>3. CASE Transcript!ServeResult
        BY <3>3 DEF Transcript!ServeResult
      <3> QED BY <1>2, <3>2, <3>3
    <2>3. v6' = SubSeq(v3', 1, v5')
      BY <1>0, <2>1, <2>2, SubSeqFull
    <2>4. Transcript!LinesStored'
      BY <2>2 DEF Transcript!ProgressInv, Transcript!LinesStored
    <2>5. Transcript!ShownIsPrefix'
      BY <1>0, <2>1, <2>2, <2>3 DEF Transcript!ShownIsPrefix
    <2> QED BY <2>4, <2>5 DEF Transcript!ProgressInv
  <1>3. CASE Transcript!RowDies
    BY <1>3 DEF Transcript!RowDies, Transcript!ProgressInv, Transcript!LinesStored,
       Transcript!ShownIsPrefix
  <1>4. ASSUME NEW n \in 1 .. LastLine, Transcript!AppendAgentJobProgress(n)
        PROVE  Transcript!ProgressInv'
    BY <1>4, AppendInv
  <1>5. ASSUME NEW n \in 1 .. LastLine, Transcript!LoseProgress(n)
        PROVE  Transcript!ProgressInv'
    BY <1>5 DEF Transcript!LoseProgress, Transcript!ProgressInv, Transcript!LinesStored,
       Transcript!ShownIsPrefix
  <1>6. CASE UNCHANGED Transcript!vars
    BY <1>6 DEF Transcript!vars, Transcript!ProgressInv, Transcript!LinesStored,
       Transcript!ShownIsPrefix
  <1> QED BY <1>1, <1>2, <1>3, <1>4, <1>5, <1>6 DEF Transcript!Next

\* What the invariant says of the transcript.
LEMMA TranscriptFacts ==
  LastLine \in Nat /\ Transcript!ProgressInv => Transcript!ProgressTypeOK /\ Transcript!NoLineTwice /\ Transcript!ClosedRunShowsRow
  <1> SUFFICES ASSUME LastLine \in Nat, Transcript!ProgressInv
               PROVE  Transcript!ProgressTypeOK /\ Transcript!NoLineTwice /\ Transcript!ClosedRunShowsRow
    OBVIOUS
  <1>1. /\ v3 \in Seq(1 .. v1) /\ v5 \in 0 .. Len(v3)
        /\ v6 = SubSeq(v3, 1, v5) /\ Transcript!IsInjective(v3)
        /\ \A i \in 1 .. Len(v3) : v3[i] \notin v2
    BY DEF Transcript!ProgressInv, Transcript!LinesStored, Transcript!ShownIsPrefix
  <1>2. /\ Len(v3) \in Nat /\ DOMAIN v3 = 1 .. Len(v3)
        /\ \A i \in 1 .. Len(v3) : v3[i] \in 1 .. v1
    BY <1>1, LenProperties, ElementOfSeq
  <1>3. /\ DOMAIN v6 = 1 .. v5
        /\ \A i \in 1 .. v5 : v6[i] = v3[i]
    BY <1>1, PrefixFacts
  <1>4. Transcript!ToSet(v3) \subseteq (1 .. v1) \ v2
    BY <1>1, <1>2 DEF Transcript!ToSet
  <1>5. Transcript!ProgressTypeOK
    BY <1>1, <1>4 DEF Transcript!ProgressTypeOK, Transcript!ProgressInv, Transcript!LinesStored,
       Transcript!ShownIsPrefix
  <1>6. 1 .. v5 \subseteq 1 .. Len(v3)
    BY <1>1, <1>2
  <1>7. \A i, j \in 1 .. Len(v3) : v3[i] = v3[j] => i = j
    BY <1>1, <1>2 DEF Transcript!IsInjective
  <1>8. Transcript!IsInjective(v6)
    BY <1>3, <1>6, <1>7 DEF Transcript!IsInjective
  <1>9. Transcript!ToSet(v6) \subseteq 1 .. v1
    BY <1>2, <1>3, <1>6 DEF Transcript!ToSet
  <1>10. Transcript!ClosedRunShowsRow
    BY <1>2, <1>3 DEF Transcript!ClosedRunShowsRow, Transcript!ToSet, Transcript!ProgressInv,
       Transcript!ShownIsPrefix
  <1> QED BY <1>5, <1>8, <1>9, <1>10 DEF Transcript!NoLineTwice

-----------------------------------------------------------------------------
(***************************************************************************)
(* MigrateData.  Steps that change one run only first.                     *)
(***************************************************************************)
LEMMA DomainFacts ==
  ASSUME Mig!Movable
  PROVE  /\ Mig!First \in Mig!AllDomains /\ 1 \in Mig!Positions /\ Len(Order) \in Mig!Positions
         /\ \A k \in Mig!Positions : Order[k] \in Mig!AllDomains
         /\ \A d \in Mig!AllDomains : \E k \in Mig!Positions : Order[k] = d
  BY DEF Mig!Movable, Mig!AllDomains, Mig!First, Mig!Positions

\* A run that takes a step, while the stores stay as they are.
LEMMA OneRuns ==
  ASSUME Mig!MoveInv, NEW i \in Migrations, NEW next \in Mig!Scripts, v4' = [v4 EXCEPT ![i] = next],
         UNCHANGED <<v1, v2, v3, v5>>,
         v6' \in [{"changes", "faults"} -> Nat], v6'["changes"] = v6["changes"],
         Mig!InOrder(i)', Mig!Looked(i)', Mig!NotThere(i)',
         (\E d \in Mig!AllDomains : Mig!By(i, d)) => next.pc \in {"verify", "ended"} /\ next.ds = v4[i].ds,
         Mig!First \in next.open =>
           \/ Mig!First \in v4[i].open
           \/ \A j \in Migrations : Mig!First \notin v4[j].open /\ ~Mig!By(j, Mig!First)
  PROVE  Mig!MoveInv'
  <1>1. /\ Mig!Types /\ Mig!Bounded /\ Mig!FirstIsGuarded
        /\ \A n \in Migrations : Mig!InOrder(n) /\ Mig!Filled(n) /\ Mig!Looked(n) /\ Mig!NotThere(n)
    BY DEF Mig!MoveInv
  <1>2. v4' \in [Migrations -> Mig!Scripts] /\ v4'[i] = next /\ \A j \in Migrations \ {i} : v4'[j] = v4[j]
    BY <1>1 DEF Mig!Types
  <1>3. Mig!Types' /\ Mig!Bounded'
    BY <1>1, <1>2 DEF Mig!Types, Mig!Bounded
  <1>4. \A n, d : Mig!By(n, d)' <=> Mig!By(n, d)
    BY DEF Mig!By
  <1>5. Mig!Filled(i)'
    BY <1>1, <1>2, <1>4 DEF Mig!Filled
  <1>6. ASSUME NEW j \in Migrations \ {i} PROVE Mig!InOrder(j)' /\ Mig!Filled(j)' /\ Mig!Looked(j)' /\ Mig!NotThere(j)'
    <2>1. Mig!InOrder(j) /\ Mig!Filled(j) /\ Mig!Looked(j) /\ Mig!NotThere(j) /\ v4'[j] = v4[j]
      BY <1>1, <1>2
    <2>2. Mig!InOrder(j)'
      BY <2>1 DEF Mig!InOrder
    <2>3. Mig!Filled(j)'
      BY <1>4, <2>1 DEF Mig!Filled
    <2>4. Mig!Looked(j)'
      BY <2>1 DEF Mig!Looked, Mig!Same
    <2>5. Mig!NotThere(j)'
      BY <2>1 DEF Mig!NotThere
    <2> QED BY <2>2, <2>3, <2>4, <2>5
  <1>7. Mig!FirstIsGuarded'
    BY <1>1, <1>2, <1>4 DEF Mig!FirstIsGuarded
  <1> QED BY <1>3, <1>5, <1>6, <1>7 DEF Mig!MoveInv

\* A run that ends gives up what it holds; only a match is a promise.
LEMMA EndInv ==
  ASSUME Mig!MoveInv, NEW i \in Migrations,
         NEW report \in {"none", "aborted", "refused", "failed", "mismatch", "match"},
         Mig!End(i, report), UNCHANGED <<v1, v2, v3, v5>>,
         v6' \in [{"changes", "faults"} -> Nat], v6'["changes"] = v6["changes"],
         report = "match" => \A d \in Mig!AllDomains \ v5[i] : Mig!Same(d)
  PROVE  Mig!MoveInv'
  <1> DEFINE next == Mig!Ended(v4[i], report)
  <1>1. v4 \in [Migrations -> Mig!Scripts] /\ v4[i] \in Mig!Scripts
    BY DEF Mig!MoveInv, Mig!Types
  <1>2. /\ next \in Mig!Scripts /\ next.pc = "ended" /\ next.open = {} /\ next.report = report
        /\ next.ds = v4[i].ds
    BY <1>1 DEF Mig!Ended, Mig!Scripts
  <1>3. v4' = [v4 EXCEPT ![i] = next]
    BY DEF Mig!End
  <1> HIDE DEF next
  <1>4. v4'[i] = next
    BY <1>1, <1>3
  <1>5. Mig!InOrder(i)' /\ Mig!NotThere(i)'
    BY <1>2, <1>4 DEF Mig!InOrder, Mig!NotThere
  <1>6. Mig!Looked(i)'
    BY <1>2, <1>4 DEF Mig!Looked, Mig!Same
  <1> QED BY <1>2, <1>3, <1>5, <1>6, OneRuns

\* A run that starts has looked at nothing and inserted nothing.
LEMMA StartInv ==
  ASSUME Mig!Movable, Mig!MoveInv, NEW i \in Migrations, Mig!Start(i)
  PROVE  Mig!MoveInv'
  <1> DEFINE next == [v4[i] EXCEPT !.pc = "read"]
  <1>1. /\ Mig!Types /\ v4 \in [Migrations -> Mig!Scripts] /\ v4[i] \in Mig!Scripts
        /\ Mig!InOrder(i) /\ Mig!Filled(i) /\ v4[i].pc = "idle"
    BY DEF Mig!MoveInv, Mig!Types, Mig!Start
  <1>2. /\ next \in Mig!Scripts /\ next.pc = "read" /\ next.at = 1 /\ next.open = {}
        /\ next.report = "none"
    BY <1>1 DEF Mig!Scripts, Mig!InOrder
  <1>3. v4' = [v4 EXCEPT ![i] = next] /\ UNCHANGED <<v1, v2, v3, v5, v6>>
    BY <1>1 DEF Mig!Start
  <1>4. ~\E d \in Mig!AllDomains : Mig!By(i, d)
    BY <1>1 DEF Mig!Filled
  <1> HIDE DEF next
  <1>5. v4'[i] = next
    BY <1>1, <1>3
  <1>6. Mig!InOrder(i)' /\ Mig!Looked(i)' /\ Mig!NotThere(i)'
    BY <1>2, <1>5 DEF Mig!InOrder, Mig!Looked, Mig!NotThere
  <1> QED BY <1>1, <1>2, <1>3, <1>4, <1>6, OneRuns DEF Mig!Types

\* Where a run stands after a domain.
LEMMA AdvanceFacts ==
  ASSUME Mig!Movable, Mig!MoveInv, NEW i \in Migrations,
         NEW then \in {"check", "commit", "verify"}, v4[i].pc \in {"read", "import", "verify"}
  PROVE  LET a == Mig!Advance(i, then)
         IN  /\ a \in Mig!Scripts /\ a.ds = v4[i].ds /\ a.open = v4[i].open
             /\ a.differs = v4[i].differs /\ a.report = v4[i].report /\ a.mode = v4[i].mode
             /\ \/ Mig!Passed(i) /\ a.at = 1 /\ a.pc = then
                \/ ~Mig!Passed(i) /\ a.at = v4[i].at + 1 /\ a.pc = v4[i].pc
             /\ Mig!NextDomain(i) \in Mig!AllDomains
             /\ \A k \in 1..v4[i].at : k \in 1..v4[i].at - 1 \/ k = v4[i].at
             /\ Mig!Passed(i) => 1..v4[i].at = Mig!Positions
  <1>1. v4[i] \in Mig!Scripts
    BY DEF Mig!MoveInv, Mig!Types
  <1>2. v4[i].at \in Mig!Positions /\ Len(Order) \in Nat \ {0}
    BY <1>1 DEF Mig!Scripts, Mig!Movable
  <1> DEFINE at == IF Mig!Passed(i) THEN 1 ELSE v4[i].at + 1
             pc == IF Mig!Passed(i) THEN then ELSE v4[i].pc
             a == [v4[i] EXCEPT !.at = at, !.pc = pc]
  <1>3. Mig!Advance(i, then) = a
    BY DEF Mig!Advance
  <1>4. at \in Mig!Positions /\ pc \in {"idle", "read", "check", "import", "commit", "verify", "ended"}
    BY <1>2 DEF Mig!Passed, Mig!Positions
  <1>5. \/ Mig!Passed(i) /\ at = 1 /\ pc = then
        \/ ~Mig!Passed(i) /\ at = v4[i].at + 1 /\ pc = v4[i].pc
    OBVIOUS
  <1>6. Mig!NextDomain(i) \in Mig!AllDomains
    BY <1>2, DomainFacts DEF Mig!NextDomain
  <1>7. /\ \A k \in 1..v4[i].at : k \in 1..v4[i].at - 1 \/ k = v4[i].at
        /\ Mig!Passed(i) => 1..v4[i].at = Mig!Positions
    BY <1>2 DEF Mig!Positions, Mig!Passed
  <1>8. /\ a \in Mig!Scripts /\ a.ds = v4[i].ds /\ a.open = v4[i].open
        /\ a.differs = v4[i].differs /\ a.report = v4[i].report /\ a.mode = v4[i].mode
        /\ a.at = at /\ a.pc = pc
    <2> HIDE DEF at, pc
    <2> QED BY <1>1, <1>4 DEF Mig!Scripts
  <1> HIDE DEF a, at, pc
  <1> QED BY <1>3, <1>5, <1>6, <1>7, <1>8

\* The first domain is there when it is read, and what was not there is not, as
\* long as nobody has written it since.
LEMMA ReadInv ==
  ASSUME Mig!Movable, Mig!MoveInv, NEW i \in Migrations, Mig!Read(i)
  PROVE  Mig!MoveInv'
  <1> DEFINE d == Mig!NextDomain(i)
             a == Mig!Advance(i, "check")
             ds == [v4[i].ds EXCEPT ![d] = v1[d]]
             next == [a EXCEPT !.ds = ds]
  <1>1. /\ Mig!Types /\ Mig!Bounded /\ v4 \in [Migrations -> Mig!Scripts] /\ v4[i] \in Mig!Scripts
        /\ Mig!InOrder(i) /\ Mig!Filled(i) /\ Mig!NotThere(i) /\ v4[i].pc = "read"
    BY DEF Mig!MoveInv, Mig!Types, Mig!Read
  <1>2. UNCHANGED <<v1, v2, v3, v5, v6>>
    BY DEF Mig!Read
  <1>3. CASE Mig!Refused(v1[d])
    BY <1>1, <1>2, <1>3, EndInv DEF Mig!Read, Mig!Types
  <1>4. CASE ~Mig!Refused(v1[d])
    <2>1. /\ a \in Mig!Scripts /\ a.ds = v4[i].ds /\ a.open = v4[i].open /\ a.report = v4[i].report
          /\ \/ Mig!Passed(i) /\ a.at = 1 /\ a.pc = "check"
             \/ ~Mig!Passed(i) /\ a.at = v4[i].at + 1 /\ a.pc = "read"
          /\ d \in Mig!AllDomains
          /\ \A k \in 1..v4[i].at : k \in 1..v4[i].at - 1 \/ k = v4[i].at
          /\ Mig!Passed(i) => 1..v4[i].at = Mig!Positions
      BY <1>1, AdvanceFacts
    <2> HIDE DEF a
    <2>2. v4' = [v4 EXCEPT ![i] = next]
      BY <1>4, <2>1 DEF Mig!Read, a
    <2>3. ds \in [Mig!AllDomains -> Mig!Contents] /\ ds[d] = v1[d]
          /\ \A e \in Mig!AllDomains \ {d} : ds[e] = v4[i].ds[e]
      BY <1>1, <2>1 DEF Mig!Scripts, Mig!Types
    <2> HIDE DEF ds
    <2>4. /\ next \in Mig!Scripts /\ next.ds = ds /\ next.open = v4[i].open /\ next.at = a.at
          /\ next.pc = a.pc /\ next.report = v4[i].report
      BY <2>1, <2>3 DEF Mig!Scripts
    <2> HIDE DEF next
    <2>5. v4'[i] = next
      BY <1>1, <2>2
    <2>6. ds[Mig!First] # Unwritten
      <3>1. CASE v4[i].at = 1
        BY <1>1, <2>3, <3>1 DEF d, Mig!NextDomain, Mig!Bounded, Mig!First
      <3>2. CASE v4[i].at > 1
        BY <1>1, <2>3, <3>2, DomainFacts DEF Mig!InOrder, Mig!Bounded
      <3> QED BY <1>1, <3>1, <3>2 DEF Mig!Scripts, Mig!Positions, Mig!Movable
    <2>7. v4[i].open = {} /\ v4[i].report = "none"
      BY <1>1 DEF Mig!InOrder
    <2>8. Mig!InOrder(i)'
      BY <2>1, <2>4, <2>5, <2>6, <2>7 DEF Mig!InOrder
    <2>9. ASSUME NEW e \in Inventoried \cap Mig!AllDomains, ds[e] = Unwritten, e \notin v5[i],
                 NEW k \in 1..v4[i].at, Order[k] = e
          PROVE  v1[e] = Unwritten
      <3>1. CASE e = d
        BY <2>3, <2>9, <3>1
      <3>2. CASE e # d
        <4>1. k \in 1..v4[i].at - 1 /\ v4[i].ds[e] = Unwritten
          BY <2>1, <2>3, <2>9, <3>2 DEF d, Mig!NextDomain
        <4> QED BY <1>1, <2>9, <4>1 DEF Mig!NotThere
      <3> QED BY <3>1, <3>2
    <2>10. Mig!NotThere(i)'
      <3>1. SUFFICES ASSUME NEW e \in Inventoried \cap Mig!AllDomains, ds[e] = Unwritten, e \notin v5[i]
                     PROVE  /\ a.pc \in {"check", "import", "commit", "verify"} => v1[e] = Unwritten
                            /\ a.pc = "read" /\ (\E k \in 1..a.at - 1 : Order[k] = e)
                               => v1[e] = Unwritten
        BY <1>2, <2>4, <2>5 DEF Mig!NotThere
      <3>2. CASE Mig!Passed(i)
        <4>1. \E k \in 1..v4[i].at : Order[k] = e
          BY <2>1, <3>2, DomainFacts
        <4>2. v1[e] = Unwritten
          BY <2>9, <3>1, <4>1
        <4> QED BY <4>2
      <3>3. CASE ~Mig!Passed(i)
        <4>1. 1..a.at - 1 = 1..v4[i].at
          BY <1>1, <2>1, <3>3 DEF Mig!Scripts, Mig!Positions, Mig!Movable
        <4> QED BY <2>1, <2>9, <3>1, <3>3, <4>1
      <3> QED BY <3>2, <3>3
    <2>11. Mig!Looked(i)'
      BY <2>1, <2>4, <2>5, <2>7 DEF Mig!Looked
    <2>12. ~\E e \in Mig!AllDomains : Mig!By(i, e)
      BY <1>1 DEF Mig!Filled
    <2>13. v6' \in [{"changes", "faults"} -> Nat] /\ Mig!First \notin next.open
      BY <1>1, <1>2, <2>4, <2>7 DEF Mig!Types
    <2> QED BY <1>2, <2>2, <2>4, <2>8, <2>10, <2>11, <2>12, <2>13, OneRuns
  <1> QED BY <1>3, <1>4

\* What a run may go on to once it has seen that there are tables.
LEMMA CheckInv ==
  ASSUME Mig!Movable, Mig!MoveInv, NEW i \in Migrations, Mig!Check(i)
  PROVE  Mig!MoveInv'
  <1>1. /\ Mig!Types /\ v4 \in [Migrations -> Mig!Scripts] /\ v4[i] \in Mig!Scripts
        /\ Mig!InOrder(i) /\ Mig!Filled(i) /\ Mig!NotThere(i) /\ v4[i].pc = "check"
    BY DEF Mig!MoveInv, Mig!Types, Mig!Check
  <1>2. UNCHANGED <<v1, v2, v3, v5, v6>>
    BY DEF Mig!Check
  <1>3. ASSUME NEW pc \in {"verify", "import"}, NEW mode \in {"import", "bypass", "verify-only"},
               v2, v4' = [v4 EXCEPT ![i] = [@ EXCEPT !.pc = pc, !.mode = mode]]
        PROVE  Mig!MoveInv'
    <2> DEFINE next == [v4[i] EXCEPT !.pc = pc, !.mode = mode]
    <2>1. /\ next \in Mig!Scripts /\ next.pc = pc /\ next.at = 1 /\ next.open = {}
          /\ next.ds = v4[i].ds /\ next.report = "none"
      BY <1>1, <1>3 DEF Mig!Scripts, Mig!InOrder
    <2>2. v4' = [v4 EXCEPT ![i] = next]
      BY <1>3
    <2> HIDE DEF next
    <2>3. v4'[i] = next
      BY <1>1, <2>2
    <2>4. Mig!InOrder(i)' /\ Mig!Looked(i)' /\ Mig!NotThere(i)'
      BY <1>1, <1>2, <1>3, <2>1, <2>3 DEF Mig!InOrder, Mig!Looked, Mig!NotThere
    <2>5. ~\E d \in Mig!AllDomains : Mig!By(i, d)
      BY <1>1 DEF Mig!Filled
    <2> QED BY <1>1, <1>2, <2>1, <2>2, <2>4, <2>5, OneRuns DEF Mig!Types
  <1>4. ASSUME Mig!End(i, "aborted") \/ Mig!End(i, "refused") PROVE Mig!MoveInv'
    BY <1>1, <1>2, <1>4, EndInv DEF Mig!Types
  <1>5. \/ Mig!End(i, "aborted") \/ Mig!End(i, "refused")
        \/ v2 /\ v4' = [v4 EXCEPT ![i] = [@ EXCEPT !.pc = "verify", !.mode = "verify-only"]]
        \/ v2 /\ v4' = [v4 EXCEPT ![i] = [@ EXCEPT !.pc = "import", !.mode = "bypass"]]
        \/ v2 /\ v4' = [v4 EXCEPT ![i].pc = "import"]
    BY DEF Mig!Check
  <1>6. [v4[i] EXCEPT !.pc = "import"] = [v4[i] EXCEPT !.pc = "import", !.mode = v4[i].mode]
        /\ v4[i].mode \in {"import", "bypass", "verify-only"}
    BY <1>1 DEF Mig!Scripts
  <1> QED BY <1>3, <1>4, <1>5, <1>6

\* The first insert takes the first domain, which nobody else has or had.
LEMMA ImportInv ==
  ASSUME Mig!Movable, Mig!MoveInv, NEW i \in Migrations, Mig!Import(i)
  PROVE  Mig!MoveInv'
  <1> DEFINE d == Mig!NextDomain(i)
             a == Mig!Advance(i, "commit")
             takes == v4[i].ds[d] # Unwritten
             open == IF takes THEN v4[i].open \cup {d} ELSE v4[i].open
             next == [a EXCEPT !.open = open]
  <1>1. /\ Mig!Types /\ v4 \in [Migrations -> Mig!Scripts] /\ v4[i] \in Mig!Scripts
        /\ Mig!InOrder(i) /\ Mig!Filled(i) /\ Mig!NotThere(i) /\ v4[i].pc = "import"
    BY DEF Mig!MoveInv, Mig!Types, Mig!Import
  <1>2. UNCHANGED <<v1, v2, v3, v5, v6>>
    BY DEF Mig!Import
  <1>3. CASE takes /\ Mig!Clashes(d)
    <2>1. Mig!End(i, "failed")
      BY <1>3 DEF Mig!Import
    <2> QED BY <1>1, <1>2, <2>1, EndInv DEF Mig!Types
  <1>4. CASE ~takes \/ (~Mig!Waits(i, d) /\ ~Mig!Clashes(d))
    <2>1. /\ a \in Mig!Scripts /\ a.ds = v4[i].ds /\ a.open = v4[i].open /\ a.report = v4[i].report
          /\ \/ Mig!Passed(i) /\ a.at = 1 /\ a.pc = "commit"
             \/ ~Mig!Passed(i) /\ a.at = v4[i].at + 1 /\ a.pc = "import"
          /\ d \in Mig!AllDomains
          /\ \A k \in 1..v4[i].at : k \in 1..v4[i].at - 1 \/ k = v4[i].at
          /\ Mig!Passed(i) => 1..v4[i].at = Mig!Positions
      BY <1>1, AdvanceFacts
    <2>2. [a EXCEPT !.open = v4[i].open] = a
      BY <2>1 DEF Mig!Scripts
    <2>3. v4' = [v4 EXCEPT ![i] = next]
      <3>1. CASE takes
        BY <1>4, <2>1, <3>1 DEF Mig!Import
      <3>2. CASE ~takes
        BY <1>4, <2>2, <3>2 DEF Mig!Import
      <3> QED BY <3>1, <3>2
    <2>4. open \in SUBSET Mig!AllDomains
      BY <1>1, <2>1 DEF Mig!Scripts
    <2>5. /\ next \in Mig!Scripts /\ next.ds = v4[i].ds /\ next.open = open /\ next.at = a.at
          /\ next.pc = a.pc /\ next.report = v4[i].report
      <3> HIDE DEF open, a
      <3> QED BY <2>1, <2>4 DEF Mig!Scripts
    <2> HIDE DEF next, a
    <2>6. v4'[i] = next
      BY <1>1, <2>3
    <2>7. \A k \in 1..v4[i].at : v4[i].ds[Order[k]] # Unwritten => Order[k] \in open
      BY <1>1, <2>1 DEF Mig!InOrder, Mig!NextDomain
    <2>8. v2 /\ v4[i].ds[Mig!First] # Unwritten /\ v4[i].report = "none"
      BY <1>1 DEF Mig!InOrder
    <2>9. Mig!InOrder(i)'
      <3>1. CASE Mig!Passed(i)
        <4>1. ASSUME NEW e \in Mig!AllDomains, v4[i].ds[e] # Unwritten PROVE e \in open
          <5>1. PICK k \in 1..v4[i].at : Order[k] = e
            BY <2>1, <3>1, DomainFacts
          <5> HIDE DEF open
          <5> QED BY <2>7, <4>1, <5>1
        <4> HIDE DEF open
        <4> QED BY <1>2, <2>1, <2>5, <2>6, <2>8, <3>1, <4>1 DEF Mig!InOrder
      <3>2. CASE ~Mig!Passed(i)
        <4>1. a.at - 1 = v4[i].at /\ a.at # 1
          BY <1>1, <2>1, <3>2 DEF Mig!Scripts, Mig!Positions, Mig!Movable
        <4> HIDE DEF open
        <4> QED BY <1>2, <2>1, <2>5, <2>6, <2>7, <2>8, <3>2, <4>1 DEF Mig!InOrder
      <3> QED BY <3>1, <3>2
    <2>10. Mig!Looked(i)' /\ Mig!NotThere(i)'
      BY <1>1, <1>2, <2>1, <2>5, <2>6, <2>8 DEF Mig!Looked, Mig!NotThere
    <2>11. Mig!First \in open =>
             Mig!First \in v4[i].open \/ \A j \in Migrations : Mig!First \notin v4[j].open /\ ~Mig!By(j, Mig!First)
      <3>1. SUFFICES ASSUME Mig!First \in open, Mig!First \notin v4[i].open
                     PROVE  \A j \in Migrations : Mig!First \notin v4[j].open /\ ~Mig!By(j, Mig!First)
        OBVIOUS
      <3>2. takes /\ d = Mig!First
        BY <3>1
      <3>3. ~Mig!Waits(i, Mig!First) /\ ~Mig!Clashes(Mig!First) /\ Mig!First \notin Streams
        BY <1>4, <3>2 DEF Mig!Movable, Mig!First
      <3> QED BY <3>1, <3>3 DEF Mig!Waits, Mig!Clashes, Mig!By
    <2>12. ~\E e \in Mig!AllDomains : Mig!By(i, e)
      BY <1>1 DEF Mig!Filled
    <2>13. v6' \in [{"changes", "faults"} -> Nat]
      BY <1>1, <1>2 DEF Mig!Types
    <2> HIDE DEF open
    <2> QED BY <1>2, <2>3, <2>5, <2>9, <2>10, <2>11, <2>12, <2>13, OneRuns
  <1> QED BY <1>3, <1>4 DEF Mig!Import

\* A domain that matches, and that nobody has changed since it was read, is the same.
LEMMA MatchesFacts ==
  ASSUME Mig!MoveInv, NEW i \in Migrations, v4[i].pc = "verify",
         NEW d \in Mig!AllDomains \ v5[i], Mig!Matches(i, d)
  PROVE  Mig!Same(d)
  <1>1. CASE d \in Inventoried /\ v4[i].ds[d] = Unwritten
    <2>1. v3[d] = <<>> /\ v1[d] = Unwritten
      BY <1>1 DEF Mig!Matches, Mig!MoveInv, Mig!NotThere
    <2>2. Mig!Versions(<<>>) = <<>>
      BY DEF Mig!Versions
    <2> QED BY <2>1, <2>2 DEF Mig!Same, Mig!Stored
  <1>2. CASE ~(d \in Inventoried /\ v4[i].ds[d] = Unwritten)
    BY <1>2 DEF Mig!Matches, Mig!Same
  <1> QED BY <1>1, <1>2

\* A comparison of a domain that the target still holds unchanged tells the truth.
LEMMA CompareInv ==
  ASSUME Mig!Movable, Mig!MoveInv, NEW i \in Migrations, Mig!Compare(i)
  PROVE  Mig!MoveInv'
  <1> DEFINE d == Mig!NextDomain(i)
             differs == v4[i].differs \/ ~Mig!Matches(i, d)
             a == Mig!Advance(i, "verify")
             next == [a EXCEPT !.differs = differs]
  <1>1. /\ Mig!Types /\ v4 \in [Migrations -> Mig!Scripts] /\ v4[i] \in Mig!Scripts
        /\ Mig!InOrder(i) /\ Mig!Filled(i) /\ Mig!NotThere(i) /\ Mig!Looked(i) /\ v4[i].pc = "verify"
    BY DEF Mig!MoveInv, Mig!Types, Mig!Compare
  <1>2. UNCHANGED <<v1, v2, v3, v5, v6>>
    BY DEF Mig!Compare
  <1>3. /\ a \in Mig!Scripts /\ a.ds = v4[i].ds /\ a.open = v4[i].open /\ a.report = v4[i].report
        /\ ~Mig!Passed(i) => a.at = v4[i].at + 1 /\ a.pc = "verify"
        /\ d \in Mig!AllDomains
        /\ \A k \in 1..v4[i].at : k \in 1..v4[i].at - 1 \/ k = v4[i].at
        /\ Mig!Passed(i) => 1..v4[i].at = Mig!Positions
    BY <1>1, AdvanceFacts
  <1>4. ~differs => \A k \in 1..v4[i].at : Order[k] \notin v5[i] => Mig!Same(Order[k])
    <2>1. SUFFICES ASSUME ~differs, NEW k \in 1..v4[i].at, Order[k] \notin v5[i]
                   PROVE  Mig!Same(Order[k])
      OBVIOUS
    <2>2. CASE k = v4[i].at
      BY <1>1, <1>3, <2>1, <2>2, MatchesFacts DEF Mig!NextDomain
    <2>3. CASE k # v4[i].at
      BY <1>1, <1>3, <2>1, <2>3 DEF Mig!Looked
    <2> QED BY <2>2, <2>3
  <1>5. differs \in BOOLEAN
    BY <1>1 DEF Mig!Scripts
  <1>6. \/ Mig!End(i, "aborted")
        \/ ~Mig!Passed(i) /\ v4' = [v4 EXCEPT ![i] = next]
        \/ Mig!Passed(i) /\ Mig!End(i, IF differs THEN "mismatch" ELSE "match")
    BY DEF Mig!Compare
  <1> HIDE DEF a, differs, d
  <1>7. CASE Mig!End(i, "aborted")
    BY <1>1, <1>2, <1>7, EndInv DEF Mig!Types
  <1>8. CASE Mig!Passed(i) /\ Mig!End(i, IF differs THEN "mismatch" ELSE "match")
    <2>1. CASE differs
      BY <1>1, <1>2, <1>8, <2>1, EndInv DEF Mig!Types
    <2>2. CASE ~differs
      <3>1. \A e \in Mig!AllDomains \ v5[i] : Mig!Same(e)
        <4>1. TAKE e \in Mig!AllDomains \ v5[i]
        <4>2. PICK k \in 1..v4[i].at : Order[k] = e
          BY <1>3, <1>8, DomainFacts
        <4> QED BY <1>4, <2>2, <4>2
      <3>2. Mig!End(i, "match")
        BY <1>8, <2>2
      <3> QED BY <1>1, <1>2, <3>1, <3>2, EndInv DEF Mig!Types
    <2> QED BY <2>1, <2>2
  <1>9. CASE ~Mig!Passed(i) /\ v4' = [v4 EXCEPT ![i] = next]
    <2>1. /\ next \in Mig!Scripts /\ next.ds = v4[i].ds /\ next.open = {} /\ next.pc = "verify"
          /\ next.at = v4[i].at + 1 /\ next.report = "none" /\ next.differs = differs
      BY <1>1, <1>3, <1>5, <1>9 DEF Mig!Scripts, Mig!InOrder
    <2> HIDE DEF next
    <2>2. v4'[i] = next
      BY <1>1, <1>9
    <2>3. 1..next.at - 1 = 1..v4[i].at
      BY <1>1, <2>1 DEF Mig!Scripts, Mig!Positions, Mig!Movable
    <2>4. Mig!Looked(i)'
      BY <1>2, <1>4, <2>1, <2>2, <2>3 DEF Mig!Looked, Mig!Same
    <2>5. Mig!InOrder(i)' /\ Mig!NotThere(i)'
      BY <1>1, <1>2, <2>1, <2>2 DEF Mig!InOrder, Mig!NotThere
    <2> QED BY <1>1, <1>2, <1>9, <2>1, <2>4, <2>5, OneRuns DEF Mig!Types
  <1> QED BY <1>6, <1>7, <1>8, <1>9

-----------------------------------------------------------------------------
(***************************************************************************)
(* Steps that change the stores.                                           *)
(***************************************************************************)
\* A row more, and everybody else's rows are where they were.
LEMMA AppendedRow ==
  ASSUME NEW rows \in Seq(Mig!TableRows), NEW row \in Mig!TableRows
  PROVE  /\ Append(rows, row) \in Seq(Mig!TableRows)
         /\ \A n : (\E k \in DOMAIN Append(rows, row) : Append(rows, row)[k].by = n)
                   <=> n = row.by \/ \E k \in DOMAIN rows : rows[k].by = n
  <1>1. Append(rows, row) \in Seq(Mig!TableRows) /\ Len(Append(rows, row)) = Len(rows) + 1
        /\ \A k \in 1..Len(rows) + 1 :
             Append(rows, row)[k] = IF k <= Len(rows) THEN rows[k] ELSE row
    BY AppendProperties
  <1>2. /\ DOMAIN Append(rows, row) = 1..Len(rows) + 1 /\ DOMAIN rows = 1..Len(rows)
        /\ Len(rows) \in Nat
    BY <1>1, LenProperties
  <1> DEFINE longer == Append(rows, row)
             L == Len(rows)
  <1>3. longer[L + 1] = row /\ L + 1 \in DOMAIN longer
    BY <1>1, <1>2
  <1>4. \A k \in DOMAIN rows : k \in DOMAIN longer /\ longer[k] = rows[k]
    BY <1>1, <1>2
  <1>5. \A k \in DOMAIN longer : k = L + 1 \/ k \in DOMAIN rows
    BY <1>2
  <1> HIDE DEF longer, L
  <1>6. \A n : (\E k \in DOMAIN longer : longer[k].by = n)
               <=> n = row.by \/ \E k \in DOMAIN rows : rows[k].by = n
    BY <1>3, <1>4, <1>5
  <1> QED BY <1>1, <1>6 DEF longer

\* The rows of a transaction appear all at once.
LEMMA CommittedFacts ==
  ASSUME Mig!Movable, Mig!MoveInv, NEW i \in Migrations, Mig!Committed(i)
  PROVE  /\ v3' \in [Mig!AllDomains -> Seq(Mig!TableRows)] /\ v5' \in [Migrations -> SUBSET Mig!AllDomains]
         /\ \A n \in Migrations, d \in Mig!AllDomains : Mig!By(n, d)' <=> Mig!By(n, d) \/ (n = i /\ d \in v4[i].open)
         /\ \A d \in Mig!AllDomains \ v4[i].open : v3'[d] = v3[d]
         /\ v5'[i] = v5[i]
         /\ \A j \in Migrations \ {i} : v5'[j] = v5[j] \cup {d \in v4[i].open : Mig!Behind(j, d)}
  <1>1. /\ Mig!Types /\ v4[i] \in Mig!Scripts
    BY DEF Mig!MoveInv, Mig!Types
  <1> DEFINE row(d) == [by |-> i, version |-> v4[i].ds[d]]
  <1>2. \A d \in Mig!AllDomains : row(d) \in Mig!TableRows /\ row(d).by = i
    BY <1>1 DEF Mig!Scripts, Mig!TableRows
  <1> HIDE DEF row
  <1>3. \A d \in Mig!AllDomains :
          v3'[d] = IF d \in v4[i].open THEN Append(v3[d], row(d)) ELSE v3[d]
    BY DEF Mig!Committed, row
  <1>4. v3' = [d \in Mig!AllDomains |->
                     IF d \in v4[i].open THEN Append(v3[d], row(d)) ELSE v3[d]]
    BY DEF Mig!Committed, row
  <1>5. ASSUME NEW d \in Mig!AllDomains
        PROVE  /\ v3'[d] \in Seq(Mig!TableRows)
               /\ \A n \in Migrations : Mig!By(n, d)' <=> Mig!By(n, d) \/ (n = i /\ d \in v4[i].open)
    <2>1. v3[d] \in Seq(Mig!TableRows)
      BY <1>1 DEF Mig!Types
    <2>2. CASE d \in v4[i].open
      <3> DEFINE longer == Append(v3[d], row(d))
      <3>1. /\ longer \in Seq(Mig!TableRows)
            /\ \A n : (\E k \in DOMAIN longer : longer[k].by = n)
                      <=> n = row(d).by \/ \E k \in DOMAIN v3[d] : v3[d][k].by = n
        <4>1. row(d) \in Mig!TableRows
          BY <1>2
        <4> QED BY <4>1, <2>1, AppendedRow
      <3>2. v3'[d] = longer
        BY <1>3, <2>2
      <3> HIDE DEF longer
      <3>3. row(d).by = i
        BY <1>2
      <3>4. ASSUME NEW n \in Migrations PROVE Mig!By(n, d)' <=> Mig!By(n, d) \/ n = i
        <4>1. Mig!By(n, d)' <=> \E k \in DOMAIN longer : longer[k].by = n
          BY <3>2 DEF Mig!By
        <4>2. Mig!By(n, d) <=> \E k \in DOMAIN v3[d] : v3[d][k].by = n
          BY DEF Mig!By
        <4> QED BY <3>1, <3>3, <4>1, <4>2
      <3> QED BY <2>2, <3>1, <3>2, <3>4
    <2>3. CASE d \notin v4[i].open
      BY <1>3, <2>1, <2>3 DEF Mig!By
    <2> QED BY <2>2, <2>3
  <1>6. v3' \in [Mig!AllDomains -> Seq(Mig!TableRows)]
    BY <1>4, <1>5
  <1>7. /\ v5'[i] = v5[i]
        /\ \A j \in Migrations \ {i} : v5'[j] = v5[j] \cup {d \in v4[i].open : Mig!Behind(j, d)}
        /\ v5' \in [Migrations -> SUBSET Mig!AllDomains]
    <2>1. v5' = [j \in Migrations |-> IF j = i THEN v5[j]
                                   ELSE v5[j] \cup {d \in v4[i].open : Mig!Behind(j, d)}]
      BY DEF Mig!Committed
    <2>2. \A j \in Migrations : {d \in v4[i].open : Mig!Behind(j, d)} \in SUBSET Mig!AllDomains
                          /\ v5[j] \in SUBSET Mig!AllDomains
      BY <1>1 DEF Mig!Scripts, Mig!Types
    <2> QED BY <2>1, <2>2
  <1> QED BY <1>3, <1>5, <1>6, <1>7

\* Who commits holds the first domain, so nobody else does or has.
LEMMA CommittedInv ==
  ASSUME Mig!Movable, Mig!MoveInv, NEW i \in Migrations, v4[i].pc = "commit", Mig!Committed(i),
         NEW next \in Mig!Scripts, v4' = [v4 EXCEPT ![i] = next], UNCHANGED <<v1, v2>>,
         v6' \in [{"changes", "faults"} -> Nat], v6'["changes"] = v6["changes"],
         next.ds = v4[i].ds, next.open = {}, next.at = 1,
         \/ next.pc = "verify" /\ next.report = "none"
         \/ next.pc = "ended" /\ next.report = "failed"
  PROVE  Mig!MoveInv'
  <1>1. /\ Mig!Types /\ Mig!Bounded /\ Mig!FirstIsGuarded
        /\ \A n \in Migrations : Mig!InOrder(n) /\ Mig!Filled(n) /\ Mig!Looked(n) /\ Mig!NotThere(n)
    BY DEF Mig!MoveInv
  <1>2. v4' \in [Migrations -> Mig!Scripts] /\ v4'[i] = next /\ \A j \in Migrations \ {i} : v4'[j] = v4[j]
    BY <1>1 DEF Mig!Types
  <1>3. /\ v3' \in [Mig!AllDomains -> Seq(Mig!TableRows)] /\ v5' \in [Migrations -> SUBSET Mig!AllDomains]
        /\ \A n \in Migrations, d \in Mig!AllDomains : Mig!By(n, d)' <=> Mig!By(n, d) \/ (n = i /\ d \in v4[i].open)
        /\ \A d \in Mig!AllDomains \ v4[i].open : v3'[d] = v3[d]
        /\ v5'[i] = v5[i]
        /\ \A j \in Migrations \ {i} : v5'[j] = v5[j] \cup {d \in v4[i].open : Mig!Behind(j, d)}
    BY CommittedFacts
  <1>4. Mig!Types' /\ Mig!Bounded'
    BY <1>1, <1>2, <1>3 DEF Mig!Types, Mig!Bounded, Mig!InOrder
  <1>5. /\ Mig!First \in Mig!AllDomains /\ Mig!First \in v4[i].open /\ v4[i].ds[Mig!First] # Unwritten /\ v2
        /\ \A d \in Mig!AllDomains : v4[i].ds[d] # Unwritten => d \in v4[i].open
    BY <1>1, DomainFacts DEF Mig!InOrder
  <1>6. \A j \in Migrations : ~Mig!By(j, Mig!First) /\ (Mig!First \in v4[j].open => j = i)
    BY <1>1, <1>5 DEF Mig!FirstIsGuarded
  <1>7. Mig!FirstIsGuarded'
    BY <1>2, <1>3, <1>5, <1>6 DEF Mig!FirstIsGuarded
  <1>8. Mig!InOrder(i)' /\ Mig!NotThere(i)'
    BY <1>1, <1>2, <1>3, <1>5 DEF Mig!InOrder, Mig!NotThere
  <1>9. Mig!Filled(i)'
    BY <1>2, <1>3, <1>5 DEF Mig!Filled
  <1>10. Mig!Looked(i)'
    BY <1>2 DEF Mig!Looked
  <1>11. ASSUME NEW j \in Migrations \ {i} PROVE Mig!InOrder(j)' /\ Mig!Filled(j)' /\ Mig!Looked(j)' /\ Mig!NotThere(j)'
    <2>1. /\ Mig!InOrder(j) /\ Mig!Filled(j) /\ Mig!Looked(j) /\ Mig!NotThere(j) /\ v4'[j] = v4[j]
          /\ v4[j] \in Mig!Scripts
      BY <1>1, <1>2 DEF Mig!Types
    <2>2. Mig!InOrder(j)'
      BY <2>1 DEF Mig!InOrder
    <2>3. \A d \in Mig!AllDomains : Mig!By(j, d)' <=> Mig!By(j, d)
      BY <1>3
    <2>4. Mig!Filled(j)'
      BY <2>1, <2>3 DEF Mig!Filled
    <2>5. Mig!NotThere(j)'
      BY <1>3, <2>1 DEF Mig!NotThere
    <2>6. ASSUME NEW d \in Mig!AllDomains \ v5'[j], Mig!Behind(j, d) PROVE Mig!Same(d)' <=> Mig!Same(d)
      BY <1>3, <2>6 DEF Mig!Same
    <2>7. ASSUME v4[j].pc = "verify", ~v4[j].differs, NEW k \in 1..v4[j].at - 1,
                 Order[k] \notin v5'[j]
          PROVE  Mig!Same(Order[k])'
      <3>1. Order[k] \in Mig!AllDomains /\ Mig!Behind(j, Order[k])
        BY <2>1, <2>7, DomainFacts DEF Mig!Behind, Mig!Scripts, Mig!Positions, Mig!Movable
      <3>2. Mig!Same(Order[k])
        BY <1>3, <2>1, <2>7 DEF Mig!Looked
      <3> QED BY <2>6, <2>7, <3>1, <3>2
    <2>8. ASSUME v4[j].report = "match", NEW d \in Mig!AllDomains \ v5'[j] PROVE Mig!Same(d)'
      <3>1. Mig!Behind(j, d)
        BY <2>1, <2>8 DEF Mig!InOrder, Mig!Behind
      <3>2. Mig!Same(d)
        BY <1>3, <2>1, <2>8 DEF Mig!Looked
      <3> QED BY <2>6, <3>1, <3>2
    <2>9. Mig!Looked(j)'
      BY <2>1, <2>7, <2>8 DEF Mig!Looked
    <2> QED BY <2>2, <2>4, <2>5, <2>9
  <1> QED BY <1>4, <1>7, <1>8, <1>9, <1>10, <1>11 DEF Mig!MoveInv

\* The rows of a transaction stay where they are when it commits.
LEMMA CommitInv ==
  ASSUME Mig!Movable, Mig!MoveInv, NEW i \in Migrations, Mig!Commit(i)
  PROVE  Mig!MoveInv'
  <1> DEFINE next == [v4[i] EXCEPT !.pc = "verify", !.open = {}]
  <1>1. Mig!Types /\ v4[i] \in Mig!Scripts /\ Mig!InOrder(i) /\ v4[i].pc = "commit"
    BY DEF Mig!MoveInv, Mig!Types, Mig!Commit
  <1>2. v4' = [v4 EXCEPT ![i] = next] /\ UNCHANGED <<v1, v2, v6>> /\ Mig!Committed(i)
    BY DEF Mig!Commit
  <1>3. /\ next \in Mig!Scripts /\ next.ds = v4[i].ds /\ next.open = {} /\ next.at = 1
        /\ next.pc = "verify" /\ next.report = "none"
    BY <1>1 DEF Mig!Scripts, Mig!InOrder
  <1> HIDE DEF next
  <1> QED BY <1>1, <1>2, <1>3, CommittedInv DEF Mig!Types

\* A connection that goes takes the run with it, and the transaction or its answer.
LEMMA LostInv ==
  ASSUME Mig!Movable, Mig!MoveInv, NEW i \in Migrations, Mig!ConnectionLost(i) \/ Mig!Killed(i)
  PROVE  Mig!MoveInv'
  <1>1. Mig!Types /\ v4[i] \in Mig!Scripts /\ Mig!InOrder(i) /\ UNCHANGED <<v1, v2>>
    BY DEF Mig!MoveInv, Mig!Types, Mig!ConnectionLost, Mig!Killed
  <1>2. v6' \in [{"changes", "faults"} -> Nat] /\ v6'["changes"] = v6["changes"]
    BY <1>1 DEF Mig!ConnectionLost, Mig!Killed, Mig!Spend, Mig!Types
  <1>3. CASE /\ Mig!End(i, "aborted") \/ Mig!End(i, "failed") \/ Mig!End(i, "none")
             /\ UNCHANGED <<v3, v5>>
    BY <1>1, <1>2, <1>3, EndInv
  <1>4. CASE v4[i].pc = "commit" /\ Mig!End(i, "failed") /\ Mig!Committed(i)
    <2> DEFINE next == Mig!Ended(v4[i], "failed")
    <2>1. /\ next \in Mig!Scripts /\ next.ds = v4[i].ds /\ next.open = {} /\ next.at = v4[i].at
          /\ next.pc = "ended" /\ next.report = "failed"
      BY <1>1 DEF Mig!Ended, Mig!Scripts
    <2>2. v4' = [v4 EXCEPT ![i] = next] /\ v4[i].at = 1
      BY <1>1, <1>4 DEF Mig!End, Mig!InOrder
    <2> HIDE DEF next
    <2> QED BY <1>1, <1>2, <1>4, <2>1, <2>2, CommittedInv
  <1> QED BY <1>3, <1>4 DEF Mig!ConnectionLost, Mig!Killed

\* Somebody else writes: what a run has passed is no longer as it saw it.
LEMMA OutsideInv ==
  ASSUME Mig!Movable, Mig!MoveInv, NEW changed \in SUBSET Mig!AllDomains, Mig!Touched(changed),
         v4' = v4, Mig!Types', Mig!Bounded', v2 => v2',
         \A d \in Mig!AllDomains \ changed : v1'[d] = v1[d] /\ v3'[d] = v3[d],
         \/ \A n \in Migrations, d \in Mig!AllDomains : Mig!By(n, d)' <=> Mig!By(n, d)
         \/ \A n \in Migrations : v4[n].open = {} /\ \A d \in Mig!AllDomains : ~Mig!By(n, d)'
  PROVE  Mig!MoveInv'
  <1>1. /\ Mig!Types /\ Mig!Bounded /\ Mig!FirstIsGuarded
        /\ \A n \in Migrations : Mig!InOrder(n) /\ Mig!Filled(n) /\ Mig!Looked(n) /\ Mig!NotThere(n)
    BY DEF Mig!MoveInv
  <1>2. \A j \in Migrations : v5'[j] = v5[j] \cup {d \in changed : Mig!Behind(j, d)}
    BY DEF Mig!Touched
  <1>3. Mig!FirstIsGuarded'
    BY <1>1, DomainFacts DEF Mig!FirstIsGuarded
  <1>4. ASSUME NEW j \in Migrations PROVE Mig!InOrder(j)' /\ Mig!Filled(j)' /\ Mig!Looked(j)' /\ Mig!NotThere(j)'
    <2>1. /\ Mig!InOrder(j) /\ Mig!Filled(j) /\ Mig!Looked(j) /\ Mig!NotThere(j) /\ v4'[j] = v4[j]
          /\ v4[j] \in Mig!Scripts
      BY <1>1 DEF Mig!Types
    <2>2. Mig!InOrder(j)'
      BY <2>1 DEF Mig!InOrder
    <2>3. Mig!Filled(j)'
      BY <2>1 DEF Mig!Filled
    <2>4. ASSUME NEW d \in Mig!AllDomains \ v5'[j], Mig!Behind(j, d)
          PROVE  d \notin v5[j] /\ v1'[d] = v1[d] /\ (Mig!Same(d)' <=> Mig!Same(d))
      BY <1>2, <2>4 DEF Mig!Same
    <2>5. ASSUME NEW d \in Inventoried \cap Mig!AllDomains, v4[j].ds[d] = Unwritten, d \notin v5'[j]
          PROVE  /\ v4[j].pc \in {"check", "import", "commit", "verify"} => v1'[d] = Unwritten
                 /\ v4[j].pc = "read" /\ (\E k \in 1..v4[j].at - 1 : Order[k] = d)
                    => v1'[d] = Unwritten
      <3>1. CASE v4[j].pc \in {"check", "import", "commit", "verify"}
        <4>1. Mig!Behind(j, d)
          BY <2>5, <3>1 DEF Mig!Behind
        <4> QED BY <2>1, <2>4, <2>5, <3>1, <4>1 DEF Mig!NotThere
      <3>2. CASE v4[j].pc = "read" /\ \E k \in 1..v4[j].at - 1 : Order[k] = d
        <4>1. Mig!Behind(j, d)
          BY <2>5, <3>2 DEF Mig!Behind
        <4> QED BY <2>1, <2>4, <2>5, <3>2, <4>1 DEF Mig!NotThere
      <3> QED BY <3>1, <3>2
    <2>6. Mig!NotThere(j)'
      BY <2>1, <2>5 DEF Mig!NotThere
    <2>7. ASSUME v4[j].pc = "verify", ~v4[j].differs, NEW k \in 1..v4[j].at - 1,
                 Order[k] \notin v5'[j]
          PROVE  Mig!Same(Order[k])'
      <3>1. Order[k] \in Mig!AllDomains /\ Mig!Behind(j, Order[k])
        BY <2>1, <2>7, DomainFacts DEF Mig!Behind, Mig!Scripts, Mig!Positions, Mig!Movable
      <3> QED BY <2>1, <2>4, <2>7, <3>1 DEF Mig!Looked
    <2>8. ASSUME v4[j].report = "match", NEW d \in Mig!AllDomains \ v5'[j] PROVE Mig!Same(d)'
      <3>1. Mig!Behind(j, d)
        BY <2>1, <2>8 DEF Mig!InOrder, Mig!Behind
      <3> QED BY <2>1, <2>4, <2>8, <3>1 DEF Mig!Looked
    <2>9. Mig!Looked(j)'
      BY <2>1, <2>7, <2>8 DEF Mig!Looked
    <2> QED BY <2>2, <2>3, <2>6, <2>9
  <1> QED BY <1>3, <1>4 DEF Mig!MoveInv

\* The runs that are behind a change remember it.
LEMMA TouchedFacts ==
  ASSUME Mig!Types, NEW changed \in SUBSET Mig!AllDomains, Mig!Touched(changed)
  PROVE  v5' \in [Migrations -> SUBSET Mig!AllDomains]
  <1>1. \A j \in Migrations : v5[j] \cup {d \in changed : Mig!Behind(j, d)} \in SUBSET Mig!AllDomains
    BY DEF Mig!Types
  <1> QED BY <1>1 DEF Mig!Touched

\* An edit of the source makes the runs that have read the domain remember it.
LEMMA EditInv ==
  ASSUME Mig!Movable, Mig!MoveInv, NEW d \in Mig!AllDomains, Mig!Edit(d)
  PROVE  Mig!MoveInv'
  <1>1. Mig!Types /\ Mig!Bounded /\ {d} \in SUBSET Mig!AllDomains
    BY DEF Mig!MoveInv
  <1>2. UNCHANGED <<v2, v3, v4>> /\ Mig!Touched({d})
    BY DEF Mig!Edit
  <1>3. /\ v6' \in [{"changes", "faults"} -> Nat] /\ v6'["changes"] = v6["changes"] + 1
        /\ v6["changes"] < MaxMoves /\ v6["changes"] \in Nat
    BY <1>1 DEF Mig!Edit, Mig!Spend, Mig!Types
  <1>4. PICK content \in {v6["changes"] + 2, Broken} : v1' = [v1 EXCEPT ![d] = content]
    BY DEF Mig!Edit
  <1>5. content \in {Broken} \cup 1..(v6'["changes"] + 1) /\ content # Unwritten
        /\ content \in Mig!Contents
    BY <1>3 DEF Mig!Movable, Mig!Contents
  <1>6. v1' \in [Mig!AllDomains -> Mig!Contents] /\ v1'[d] = content
        /\ \A e \in Mig!AllDomains \ {d} : v1'[e] = v1[e]
    BY <1>1, <1>4, <1>5 DEF Mig!Types
  <1>7. Mig!Types'
    BY <1>1, <1>2, <1>3, <1>6, TouchedFacts DEF Mig!Types
  <1>8. Mig!Bounded'
    <2>1. v6'["changes"] <= MaxMoves
      BY <1>3 DEF Mig!Movable
    <2>2. \A e \in Mig!AllDomains : v1'[e] \in {Unwritten, Broken} \cup 1..(v6'["changes"] + 1)
      BY <1>1, <1>3, <1>5, <1>6 DEF Mig!Bounded
    <2>3. v1'[Mig!First] # Unwritten
      BY <1>1, <1>5, <1>6, DomainFacts DEF Mig!Bounded
    <2> QED BY <1>1, <1>2, <2>1, <2>2, <2>3 DEF Mig!Bounded
  <1>9. \A n \in Migrations, e \in Mig!AllDomains : Mig!By(n, e)' <=> Mig!By(n, e)
    BY <1>2 DEF Mig!By
  <1> QED BY <1>1, <1>2, <1>6, <1>7, <1>8, <1>9, OutsideInv

\* A row of the cloud's own enters a table that no open transaction fills.
LEMMA CloudWritesInv ==
  ASSUME Mig!Movable, Mig!MoveInv, NEW d \in Mig!AllDomains, Mig!CloudWrites(d)
  PROVE  Mig!MoveInv'
  <1> DEFINE row == [by |-> "cloud", version |-> 0]
  <1>1. Mig!Types /\ Mig!Bounded /\ {d} \in SUBSET Mig!AllDomains /\ v3[d] \in Seq(Mig!TableRows)
    BY DEF Mig!MoveInv, Mig!Types
  <1>2. UNCHANGED <<v1, v2, v4>> /\ Mig!Touched({d}) /\ v2
    BY DEF Mig!CloudWrites
  <1>3. /\ v6' \in [{"changes", "faults"} -> Nat] /\ v6'["changes"] = v6["changes"] + 1
        /\ v6["changes"] < MaxMoves /\ v6["changes"] \in Nat
    BY <1>1 DEF Mig!CloudWrites, Mig!Spend, Mig!Types
  <1>4. row \in Mig!TableRows /\ row.by \notin Migrations
    BY DEF Mig!TableRows, Mig!Contents, Mig!Movable
  <1>5. v3' = [v3 EXCEPT ![d] = Append(v3[d], row)]
    BY DEF Mig!CloudWrites
  <1> HIDE DEF row
  <1>6. /\ v3' \in [Mig!AllDomains -> Seq(Mig!TableRows)]
        /\ \A e \in Mig!AllDomains \ {d} : v3'[e] = v3[e]
        /\ \A n \in Migrations, e \in Mig!AllDomains : Mig!By(n, e)' <=> Mig!By(n, e)
    <2> DEFINE longer == Append(v3[d], row)
    <2>1. /\ longer \in Seq(Mig!TableRows)
          /\ \A n : (\E k \in DOMAIN longer : longer[k].by = n)
                    <=> n = row.by \/ \E k \in DOMAIN v3[d] : v3[d][k].by = n
      BY <1>1, <1>4, AppendedRow
    <2> HIDE DEF longer
    <2>2. /\ v3' \in [Mig!AllDomains -> Seq(Mig!TableRows)] /\ v3'[d] = longer
          /\ \A e \in Mig!AllDomains \ {d} : v3'[e] = v3[e]
      BY <1>1, <1>5, <2>1 DEF Mig!Types, longer
    <2>3. ASSUME NEW n \in Migrations, NEW e \in Mig!AllDomains PROVE Mig!By(n, e)' <=> Mig!By(n, e)
      <3>1. CASE e = d
        BY <1>4, <2>1, <2>2, <3>1 DEF Mig!By
      <3>2. CASE e # d
        BY <2>2, <3>2 DEF Mig!By
      <3> QED BY <3>1, <3>2
    <2> QED BY <2>2, <2>3
  <1>7. Mig!Types'
    BY <1>1, <1>2, <1>3, <1>6, TouchedFacts DEF Mig!Types
  <1>8. Mig!Bounded'
    <2>1. v6'["changes"] <= MaxMoves
      BY <1>3 DEF Mig!Movable
    <2>2. \A e \in Mig!AllDomains : v1[e] \in {Unwritten, Broken} \cup 1..(v6'["changes"] + 1)
      BY <1>1, <1>3 DEF Mig!Bounded
    <2> QED BY <1>1, <1>2, <2>1, <2>2 DEF Mig!Bounded
  <1> QED BY <1>1, <1>2, <1>6, <1>7, <1>8, OutsideInv

\* Tables are emptied only while no transaction is open.
LEMMA WipeInv ==
  ASSUME Mig!Movable, Mig!MoveInv, Mig!Wipe
  PROVE  Mig!MoveInv'
  <1>1. Mig!Types /\ Mig!Bounded /\ Mig!AllDomains \in SUBSET Mig!AllDomains
    BY DEF Mig!MoveInv
  <1>2. UNCHANGED <<v1, v2, v4>> /\ Mig!Touched(Mig!AllDomains) /\ v2
        /\ \A i \in Migrations : v4[i].open = {}
    BY DEF Mig!Wipe
  <1>3. /\ v6' \in [{"changes", "faults"} -> Nat] /\ v6'["changes"] = v6["changes"] + 1
        /\ v6["changes"] < MaxMoves /\ v6["changes"] \in Nat
    BY <1>1 DEF Mig!Wipe, Mig!Spend, Mig!Types
  <1>4. v3' = [d \in Mig!AllDomains |-> <<>>]
    BY DEF Mig!Wipe
  <1>5. v3' \in [Mig!AllDomains -> Seq(Mig!TableRows)] /\ \A d \in Mig!AllDomains : v3'[d] = <<>>
    BY <1>4, EmptySeq
  <1>6. \A n \in Migrations, d \in Mig!AllDomains : ~Mig!By(n, d)'
    BY <1>5 DEF Mig!By
  <1>7. Mig!Types'
    BY <1>1, <1>2, <1>3, <1>5, TouchedFacts DEF Mig!Types
  <1>8. Mig!Bounded'
    <2>1. v6'["changes"] <= MaxMoves
      BY <1>3 DEF Mig!Movable
    <2>2. \A e \in Mig!AllDomains : v1[e] \in {Unwritten, Broken} \cup 1..(v6'["changes"] + 1)
      BY <1>1, <1>3 DEF Mig!Bounded
    <2> QED BY <1>1, <1>2, <2>1, <2>2 DEF Mig!Bounded
  <1> QED BY <1>1, <1>2, <1>6, <1>7, <1>8, OutsideInv

\* The schema appears; no row does.
LEMMA MigrateInv ==
  ASSUME Mig!Movable, Mig!MoveInv, Mig!Migrate
  PROVE  Mig!MoveInv'
  <1>1. UNCHANGED <<v1, v3, v4, v5, v6>> /\ v2' = TRUE
    BY DEF Mig!Migrate
  <1>2. Mig!Types' /\ Mig!Bounded' /\ Mig!FirstIsGuarded'
    BY <1>1 DEF Mig!MoveInv, Mig!Types, Mig!Bounded, Mig!FirstIsGuarded, Mig!By
  <1>3. ASSUME NEW j \in Migrations PROVE Mig!InOrder(j)' /\ Mig!Filled(j)' /\ Mig!Looked(j)' /\ Mig!NotThere(j)'
    BY <1>1 DEF Mig!MoveInv, Mig!InOrder, Mig!Filled, Mig!By, Mig!Looked, Mig!Same, Mig!NotThere
  <1> QED BY <1>2, <1>3 DEF Mig!MoveInv

-----------------------------------------------------------------------------
\* Nothing is read and nothing is there.
LEMMA MoveInitInv == Mig!Movable /\ Mig!MigrateInit => Mig!MoveInv
  <1> SUFFICES ASSUME Mig!Movable, Mig!MigrateInit PROVE Mig!MoveInv
    OBVIOUS
  <1>1. v1 \in [Mig!AllDomains -> {Unwritten, 1}] /\ v1[Mig!First] = 1
    BY DEF Mig!MigrateInit, Mig!First
  <1>2. v3 = [d \in Mig!AllDomains |-> <<>>] /\ v2 = FALSE /\ v5 = [i \in Migrations |-> {}]
        /\ v4 = [i \in Migrations |-> Mig!Waiting] /\ v6 = [changes |-> 0, faults |-> 0]
    BY DEF Mig!MigrateInit
  <1>3. /\ Mig!Waiting \in Mig!Scripts /\ Mig!Waiting.pc = "idle" /\ Mig!Waiting.at = 1 /\ Mig!Waiting.open = {}
        /\ Mig!Waiting.report = "none"
    <2>1. [d \in Mig!AllDomains |-> Unwritten] \in [Mig!AllDomains -> Mig!Contents]
      BY DEF Mig!Contents
    <2> QED BY <2>1, DomainFacts DEF Mig!Waiting, Mig!Scripts
  <1>4. \A n \in Migrations, d \in Mig!AllDomains : ~Mig!By(n, d)
    BY <1>2 DEF Mig!By
  <1>5. Mig!Types
    <2>1. v6 \in [{"changes", "faults"} -> Nat]
      BY <1>2
    <2>2. v3 \in [Mig!AllDomains -> Seq(Mig!TableRows)]
      BY <1>2, EmptySeq
    <2>3. v1 \in [Mig!AllDomains -> Mig!Contents]
      BY <1>1 DEF Mig!Contents
    <2> QED BY <1>2, <1>3, <2>1, <2>2, <2>3 DEF Mig!Types
  <1>6. Mig!Bounded
    <2>1. v6["changes"] = 0
      BY <1>2
    <2>2. \A d \in Mig!AllDomains : v1[d] \in {Unwritten, 1} /\ v3[d] = <<>>
      BY <1>1, <1>2
    <2>3. 1 \in 1..(0 + 1) /\ 0 <= MaxMoves /\ 1 # Unwritten
      BY DEF Mig!Movable
    <2> QED BY <1>1, <2>1, <2>2, <2>3 DEF Mig!Bounded
  <1>7. Mig!FirstIsGuarded
    BY <1>2, <1>3, <1>4, DomainFacts DEF Mig!FirstIsGuarded
  <1>8. ASSUME NEW i \in Migrations PROVE Mig!InOrder(i) /\ Mig!Filled(i) /\ Mig!Looked(i) /\ Mig!NotThere(i)
    BY <1>2, <1>3, <1>4 DEF Mig!InOrder, Mig!Filled, Mig!Looked, Mig!NotThere
  <1> QED BY <1>5, <1>6, <1>7, <1>8 DEF Mig!MoveInv

\* Every step keeps it.
LEMMA MoveStepInv == Mig!Movable /\ Mig!MoveInv /\ [Mig!MigrateNext]_(Mig!migrateVars) => Mig!MoveInv'
  <1> SUFFICES ASSUME Mig!Movable, Mig!MoveInv, [Mig!MigrateNext]_(Mig!migrateVars) PROVE Mig!MoveInv'
    OBVIOUS
  <1>1. CASE UNCHANGED Mig!migrateVars
    <2>1. UNCHANGED <<v1, v2, v3, v4, v5, v6>>
      BY <1>1 DEF Mig!migrateVars
    <2>2. Mig!Types' /\ Mig!Bounded' /\ Mig!FirstIsGuarded'
      BY <2>1 DEF Mig!MoveInv, Mig!Types, Mig!Bounded, Mig!FirstIsGuarded, Mig!By
    <2>3. ASSUME NEW j \in Migrations PROVE Mig!InOrder(j)' /\ Mig!Filled(j)' /\ Mig!Looked(j)' /\ Mig!NotThere(j)'
      BY <2>1 DEF Mig!MoveInv, Mig!InOrder, Mig!Filled, Mig!By, Mig!Looked, Mig!Same, Mig!NotThere
    <2> QED BY <2>2, <2>3 DEF Mig!MoveInv
  <1>2. ASSUME NEW i \in Migrations,
               Mig!Start(i) \/ Mig!Read(i) \/ Mig!Check(i) \/ Mig!Import(i) \/ Mig!Commit(i) \/ Mig!Compare(i)
                 \/ Mig!ConnectionLost(i) \/ Mig!Killed(i)
        PROVE  Mig!MoveInv'
    BY <1>2, StartInv, ReadInv, CheckInv, ImportInv, CommitInv, CompareInv, LostInv
  <1>3. ASSUME NEW d \in Mig!AllDomains, Mig!Edit(d) \/ Mig!CloudWrites(d) PROVE Mig!MoveInv'
    BY <1>3, EditInv, CloudWritesInv
  <1>4. CASE Mig!Migrate \/ Mig!Wipe
    BY <1>4, MigrateInv, WipeInv
  <1> QED BY <1>1, <1>2, <1>3, <1>4 DEF Mig!MigrateNext


\* What the invariant says of the reports and the rows.
LEMMA MoveFacts ==
  Mig!Movable /\ Mig!MoveInv => Mig!MigrateTypeOK /\ Mig!MatchIsTrue /\ Mig!ImportedOnce /\ Mig!OneFills
  <1> SUFFICES ASSUME Mig!Movable, Mig!MoveInv
               PROVE  Mig!MigrateTypeOK /\ Mig!MatchIsTrue /\ Mig!ImportedOnce /\ Mig!OneFills
    OBVIOUS
  <1>1. /\ Mig!Types /\ Mig!Bounded /\ Mig!FirstIsGuarded
        /\ \A n \in Migrations : Mig!InOrder(n) /\ Mig!Filled(n) /\ Mig!Looked(n) /\ Mig!NotThere(n)
    BY DEF Mig!MoveInv
  <1>2. Mig!MigrateTypeOK
    <2>1. \A d \in Mig!AllDomains : v1[d] \in {Unwritten, Broken} \cup 1..(MaxMoves + 1)
      <3>1. v6["changes"] \in Nat /\ v6["changes"] <= MaxMoves /\ MaxMoves \in Nat
        BY <1>1 DEF Mig!Types, Mig!Bounded, Mig!Movable
      <3> QED BY <1>1, <3>1 DEF Mig!Bounded
    <2>2. \A i \in Migrations : v4[i].at \in DOMAIN Order /\ v5[i] \subseteq Mig!AllDomains
      BY <1>1 DEF Mig!Types, Mig!Scripts, Mig!Positions, Mig!Movable
    <2> QED BY <1>1, <2>1, <2>2 DEF Mig!MigrateTypeOK, Mig!InOrder, Mig!Bounded
  <1>3. Mig!MatchIsTrue
    BY <1>1 DEF Mig!MatchIsTrue, Mig!Looked, Mig!Same
  <1>4. ASSUME NEW i \in Migrations, NEW j \in Migrations, NEW d \in Mig!AllDomains, NEW e \in Mig!AllDomains,
               Mig!By(i, d), Mig!By(j, e)
        PROVE  i = j
    <2>1. Mig!By(i, Mig!First) /\ Mig!By(j, Mig!First)
      BY <1>1, <1>4, DomainFacts DEF Mig!Filled
    <2> QED BY <1>1, <2>1 DEF Mig!FirstIsGuarded
  <1>5. \A i \in Migrations : \A d, e \in Mig!AllDomains : Mig!By(i, d) /\ v4[i].ds[e] # Unwritten => Mig!By(i, e)
    BY <1>1 DEF Mig!Filled
  <1>6. Mig!ImportedOnce
    BY <1>4, <1>5 DEF Mig!ImportedOnce, Mig!By
  <1> QED BY <1>2, <1>3, <1>4, <1>6 DEF Mig!OneFills
=================================================================================

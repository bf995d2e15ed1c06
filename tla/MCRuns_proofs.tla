------------------------------ MODULE MCRuns_proofs ------------------------------
(***************************************************************************)
(* The run panel and the source runs, for every value of the constants:    *)
(* what a run of MCRuns checks of them, and what MCServer_proofs needs to  *)
(* conclude the same of the server.  A queue is drained, and the runs of   *)
(* the Map are synced, by a recursive function; Iterated says that it is   *)
(* one, and that what each of its steps keeps holds of its value.          *)
(***************************************************************************)
EXTENDS MCRuns, FiniteSetTheorems, SequenceTheorems, WellFoundedInduction, TLAPS

-----------------------------------------------------------------------------
(***************************************************************************)
(* Recursion along a sequence.                                             *)
(***************************************************************************)
\* Numbers have a least one.
LEMMA LeastNumber ==
  ASSUME NEW B \in SUBSET Nat, B # {}
  PROVE  \E m \in B : \A n \in B : m <= n
  <1>1. PICK m \in B : \A y \in B : ~(<<y, m>> \in OpToRel(<, Nat))
    BY NatLessThanWellFounded, WFMin
  <1>2. ASSUME NEW n \in B PROVE m <= n
    <2>1. ~(n < m)
      BY <1>1 DEF OpToRel
    <2> QED BY <2>1
  <1> QED BY <1>2

\* What holds at first, and after a step if it did before, holds all along.
LEMMA KeptAlong ==
  ASSUME NEW N \in Nat, NEW X, NEW f,
         f[0] \in X[0], \A n \in 1 .. N : f[n - 1] \in X[n - 1] => f[n] \in X[n]
  PROVE  \A n \in 0 .. N : f[n] \in X[n]
  <1> DEFINE B == {n \in 0 .. N : f[n] \notin X[n]}
  <1>1. SUFFICES ASSUME B # {} PROVE FALSE
    OBVIOUS
  <1>2. PICK m \in B : \A n \in B : m <= n
    <2>1. B \in SUBSET Nat
      OBVIOUS
    <2> QED BY <1>1, <2>1, LeastNumber
  <1>3. m # 0 /\ m \in 1 .. N
    BY <1>2
  <1>4. m - 1 \in 0 .. N /\ m - 1 \notin B
    BY <1>2, <1>3
  <1> QED BY <1>2, <1>3, <1>4

\* The recursive function that takes a step at each number of 1 .. N.
Iterates(f, N, start, step) ==
  f = [n \in 0 .. N |-> IF n = 0 THEN start ELSE step[<<f[n - 1], n>>]]

\* Such a function exists, and every one has at n a value of X[n], if a step leads from
\* each of these sets to the next.
LEMMA Iterated ==
  ASSUME NEW N \in Nat, NEW X, NEW U, NEW start \in X[0], NEW step,
         \A n \in 0 .. N : X[n] \subseteq U,
         \A n \in 1 .. N : \A Q \in X[n - 1] : step[<<Q, n>>] \in X[n]
  PROVE  /\ \E f : Iterates(f, N, start, step)
         /\ \A f : Iterates(f, N, start, step) => \A n \in 0 .. N : f[n] \in X[n]
  <1> USE DEF Iterates
  <1> DEFINE Good(m, f) == Iterates(f, m, start, step)
             B == {m \in 0 .. N : ~\E f : Good(m, f)}
  <1>1. ASSUME B # {} PROVE FALSE
    <2>1. PICK m \in B : \A n \in B : m <= n
      <3>1. B \in SUBSET Nat
        OBVIOUS
      <3> HIDE DEF B
      <3> QED BY <1>1, <3>1, LeastNumber
    <2>2. m # 0
      <3>1. Good(0, [n \in 0 .. 0 |-> start])
        OBVIOUS
      <3> QED BY <2>1, <3>1
    <2>3. m - 1 \in 0 .. N /\ m - 1 \notin B
      BY <2>1, <2>2
    <2>4. PICK f : Good(m - 1, f)
      BY <2>3
    <2> DEFINE g == [n \in 0 .. m |-> IF n < m THEN f[n] ELSE step[<<f[m - 1], m>>]]
    <2>5. ASSUME NEW n \in 0 .. m
          PROVE  g[n] = IF n = 0 THEN start ELSE step[<<g[n - 1], n>>]
      <3>1. CASE n = m
        <4>1. g[n - 1] = f[m - 1] /\ n # 0
          BY <2>1, <2>2, <3>1
        <4> QED BY SMTT(30), <3>1, <4>1
      <3>2. CASE n # m
        <4>1. n \in 0 .. m - 1 /\ g[n] = f[n]
          BY <2>1, <3>2
        <4>2. f[n] = IF n = 0 THEN start ELSE step[<<f[n - 1], n>>]
          BY <2>4, <4>1
        <4>3. n # 0 => g[n - 1] = f[n - 1]
          BY <2>1, <4>1
        <4> QED BY <4>1, <4>2, <4>3
      <3> QED BY <3>1, <3>2
    <2>6. Good(m, g)
      BY <2>5
    <2> QED BY <2>1, <2>6
  <1>2. ASSUME NEW f, Good(N, f) PROVE \A n \in 0 .. N : f[n] \in X[n]
    <2>1. f[0] = start /\ \A n \in 1 .. N : f[n] = step[<<f[n - 1], n>>]
      BY <1>2
    <2> QED BY <2>1, KeptAlong
  <1>3. N \notin B
    BY <1>1
  <1> QED BY <1>2, <1>3

\* A sequence whose elements are put in a set is a sequence of that set.
LEMMA Mapped ==
  ASSUME NEW A, NEW s \in Seq(A), NEW B, NEW t, t = [i \in DOMAIN s |-> t[i]],
         \A i \in DOMAIN s : t[i] \in B
  PROVE  t \in Seq(B) /\ Len(t) = Len(s) /\ DOMAIN t = DOMAIN s
  <1>1. DOMAIN s = 1 .. Len(s) /\ Len(s) \in Nat
    OBVIOUS
  <1>2. t \in [1 .. Len(s) -> B]
    BY <1>1
  <1> QED BY <1>1, <1>2

\* One element changed.
LEMMA Changed ==
  ASSUME NEW A, NEW s \in Seq(A), NEW i \in DOMAIN s, NEW e \in A
  PROVE  /\ [s EXCEPT ![i] = e] \in Seq(A)
         /\ DOMAIN [s EXCEPT ![i] = e] = DOMAIN s
         /\ Len([s EXCEPT ![i] = e]) = Len(s)
         /\ \A j \in DOMAIN s : [s EXCEPT ![i] = e][j] = IF j = i THEN e ELSE s[j]
  BY Mapped

\* One element more.
LEMMA Appended ==
  ASSUME NEW A, NEW s \in Seq(A), NEW e \in A
  PROVE  /\ Append(s, e) \in Seq(A) /\ Len(Append(s, e)) = Len(s) + 1
         /\ DOMAIN s \subseteq DOMAIN Append(s, e)
         /\ DOMAIN Append(s, e) = DOMAIN s \cup {Len(s) + 1}
         /\ Len(s) + 1 \notin DOMAIN s
         /\ Append(s, e)[Len(s) + 1] = e /\ \A j \in DOMAIN s : Append(s, e)[j] = s[j]
  BY AppendProperties

-----------------------------------------------------------------------------
(***************************************************************************)
(* SourceRuns: v1 is how this instance executes runs, v2 the registry and  *)
(* what the server has in memory.                                          *)
(***************************************************************************)
\* T comes after S in one step: no agent, no result and no source changed, no record
\* was opened again, no lead was lost, and a record closed over finds has them filed.
Carries(S, T) ==
  /\ DOMAIN S.scrapes \subseteq DOMAIN T.scrapes
  /\ \A i \in DOMAIN S.scrapes :
       LET before == S.scrapes[i] after == T.scrapes[i] IN
       /\ after.source = before.source /\ after.agent = before.agent
       /\ after.proc = before.proc /\ after.result = before.result
       /\ after.outcome = "running" => before.outcome = "running"
       /\ /\ before.outcome = "running" /\ after.outcome # "running"
          /\ before.agent = "done" /\ before.result # Src!Rejected
          => \A l \in before.result : T.leads[l] > 0
  /\ \A l \in Links : S.leads[l] > 0 => T.leads[l] > 0

\* No step changes what a state carries to itself.
LEMMA CarriesSelf ==
  ASSUME NEW S, NEW T, T.scrapes = S.scrapes, T.leads = S.leads
  PROVE  Carries(S, T)
  BY DEF Carries

\* Nor do two steps what each of them keeps.
LEMMA CarriesOn ==
  ASSUME NEW S, NEW Q, NEW T, Carries(S, Q), Carries(Q, T), S \in Src!States
  PROVE  Carries(S, T)
  <1>1. \A l \in Links : S.leads[l] > 0 => T.leads[l] > 0
    BY DEF Carries
  <1>2. ASSUME NEW i \in DOMAIN S.scrapes,
               S.scrapes[i].outcome = "running" /\ T.scrapes[i].outcome # "running",
               S.scrapes[i].agent = "done" /\ S.scrapes[i].result # Src!Rejected,
               NEW l \in S.scrapes[i].result
        PROVE  T.leads[l] > 0
    <2>1. S.scrapes[i] \in Src!ScrapeRecords
      BY DEF Src!States
    <2>2. l \in Links
      BY <1>2, <2>1 DEF Src!ScrapeRecords, Src!Results
    <2>3. CASE Q.scrapes[i].outcome = "running"
      BY <1>2, <2>3 DEF Carries
    <2>4. CASE Q.scrapes[i].outcome # "running"
      <3>1. Q.leads[l] > 0
        BY <1>2, <2>4 DEF Carries
      <3> QED BY <2>2, <3>1 DEF Carries
    <2> QED BY <2>3, <2>4
  <1> QED BY <1>1, <1>2 DEF Carries

\* A record is closed: with its outcome, and a reason.
LEMMA Finalized ==
  ASSUME NEW c \in Src!ScrapeRecords, NEW outcome \in Src!Outcomes,
         NEW reason \in {"none", "agent", "rejected", "stalled"}
  PROVE  LET d == Src!FinalizeRunRecord(c, outcome, reason) IN
         /\ d \in Src!ScrapeRecords /\ d.outcome = outcome
         /\ d.source = c.source /\ d.agent = c.agent /\ d.proc = c.proc /\ d.result = c.result
  BY DEF Src!FinalizeRunRecord, Src!ScrapeRecords

\* A result ingested closes its record as what its agent did.
LEMMA IngestedIs ==
  ASSUME NEW c \in Src!ScrapeRecords, Src!ScrapeSound(c), c.agent \in Src!RowEnds
  PROVE  LET d == Src!Ingested(c) IN
         /\ d \in Src!ScrapeRecords /\ Src!ScrapeSound(d) /\ d.outcome # "running"
         /\ d.source = c.source /\ d.agent = c.agent /\ d.proc = c.proc /\ d.result = c.result
  <1>1. CASE c.agent # "done"
    <2>1. Src!Ingested(c) = Src!FinalizeRunRecord(c, "failed", "agent")
      BY <1>1 DEF Src!Ingested
    <2>2. "failed" \in Src!Outcomes
      BY DEF Src!Outcomes
    <2> DEFINE d == Src!FinalizeRunRecord(c, "failed", "agent")
    <2>3. /\ d \in Src!ScrapeRecords /\ d.outcome = "failed" /\ d.source = c.source
          /\ d.agent = c.agent /\ d.proc = c.proc /\ d.result = c.result
      BY <2>2, Finalized
    <2> HIDE DEF d
    <2>4. d.outcome # "running" /\ Src!ScrapeSound(d)
      BY <1>1, <2>3 DEF Src!ScrapeSound, Src!TellsOutcome, Src!RowEnds
    <2>5. Src!Ingested(c) = d
      BY <2>1 DEF d
    <2> QED BY <2>3, <2>4, <2>5
  <1>2. CASE c.agent = "done" /\ c.result = Src!Rejected
    <2>1. Src!Ingested(c) = Src!FinalizeRunRecord(c, "incomplete", "rejected")
      BY <1>2 DEF Src!Ingested
    <2>2. "incomplete" \in Src!Outcomes
      BY DEF Src!Outcomes
    <2> DEFINE d == Src!FinalizeRunRecord(c, "incomplete", "rejected")
    <2>3. /\ d \in Src!ScrapeRecords /\ d.outcome = "incomplete" /\ d.source = c.source
          /\ d.agent = c.agent /\ d.proc = c.proc /\ d.result = c.result
      BY <2>2, Finalized
    <2> HIDE DEF d
    <2>4. d.outcome # "running" /\ Src!ScrapeSound(d)
      BY <1>2, <2>3 DEF Src!ScrapeSound, Src!TellsOutcome, Src!RowEnds
    <2>5. Src!Ingested(c) = d
      BY <2>1 DEF d
    <2> QED BY <2>3, <2>4, <2>5
  <1>3. CASE c.agent = "done" /\ c.result # Src!Rejected
    <2>1. Src!Ingested(c) = Src!FinalizeRunRecord(c, "succeeded", "none")
      BY <1>3 DEF Src!Ingested
    <2>2. "succeeded" \in Src!Outcomes
      BY DEF Src!Outcomes
    <2> DEFINE d == Src!FinalizeRunRecord(c, "succeeded", "none")
    <2>3. /\ d \in Src!ScrapeRecords /\ d.outcome = "succeeded" /\ d.source = c.source
          /\ d.agent = c.agent /\ d.proc = c.proc /\ d.result = c.result
      BY <2>2, Finalized
    <2> HIDE DEF d
    <2>4. d.outcome # "running" /\ Src!ScrapeSound(d)
      BY <1>3, <2>3 DEF Src!ScrapeSound, Src!TellsOutcome, Src!RowEnds
    <2>5. Src!Ingested(c) = d
      BY <2>1 DEF d
    <2> QED BY <2>3, <2>4, <2>5
  <1> QED BY <1>1, <1>2, <1>3

\* Leads that are filed are filed once, and are there.
LEMMA LeadsFiled ==
  ASSUME NEW S \in Src!States, \A l \in Links : S.leads[l] <= 1, NEW finds
  PROVE  LET T == Src!FileLeads(S, finds) IN
         /\ T \in Src!States /\ T.scrapes = S.scrapes /\ T.queue = S.queue
         /\ T.pending = S.pending /\ T.reads = S.reads
         /\ \A l \in Links : T.leads[l] <= 1 /\ (S.leads[l] > 0 \/ l \in finds => T.leads[l] > 0)
  <1> DEFINE leads == [l \in Links |-> IF l \in finds /\ S.leads[l] = 0 THEN 1 ELSE S.leads[l]]
  <1>1. S.leads \in [Links -> Nat]
    BY DEF Src!States
  <1>2. leads \in [Links -> Nat]
    BY <1>1
  <1>3. \A l \in Links : leads[l] <= 1 /\ (S.leads[l] > 0 \/ l \in finds => leads[l] > 0)
    BY <1>1
  <1>4. Src!FileLeads(S, finds) = [S EXCEPT !.leads = leads]
    BY DEF Src!FileLeads
  <1> HIDE DEF leads
  <1> QED BY <1>2, <1>3, <1>4 DEF Src!States

\* Records are rewritten in place: what is sound stays so if each new record is one of
\* the old one's source and agent, not opened again and sound.
LEMMA Rewritten ==
  ASSUME NEW S, Src!Sound(S), NEW T \in Src!States,
         DOMAIN T.scrapes = DOMAIN S.scrapes, T.reads = S.reads, \A l \in Links : T.leads[l] <= 1,
         \A i \in DOMAIN S.scrapes :
           /\ T.scrapes[i].source = S.scrapes[i].source /\ Src!ScrapeSound(T.scrapes[i])
           /\ T.scrapes[i].agent = S.scrapes[i].agent /\ T.scrapes[i].proc = S.scrapes[i].proc
           /\ T.scrapes[i].outcome = "running" => S.scrapes[i].outcome = "running"
  PROVE  Src!Sound(T)
  <1>1. Src!OneRunning(T)
    BY DEF Src!OneRunning, Src!Sound
  <1>2. Src!FinalizesEnded(T)
    BY DEF Src!FinalizesEnded, Src!Sound
  <1> QED BY <1>1, <1>2 DEF Src!Sound

\* What nobody's sweep touches: the queue, the slots and the reads.
SameMemory(S, T) == T.queue = S.queue /\ T.pending = S.pending /\ T.reads = S.reads

\* Results that came in are ingested, with their finds.
LEMMA Reconciled ==
  ASSUME NEW S, Src!Sound(S)
  PROVE  LET T == Src!ReconcileRunnerSourceRuns(S) IN
         /\ Src!Sound(T) /\ Carries(S, T) /\ SameMemory(S, T)
         /\ DOMAIN T.scrapes = DOMAIN S.scrapes
         /\ \A i \in DOMAIN S.scrapes :
              v1 = "runner" /\ S.scrapes[i].agent \in Src!RowEnds => T.scrapes[i].outcome # "running"
  <1> DEFINE unflipped == {i \in DOMAIN S.scrapes : /\ v1 = "runner"
                                                    /\ S.scrapes[i].outcome = "running"
                                                    /\ S.scrapes[i].agent \in Src!RowEnds}
             finds == UNION {Src!FindsOf(S.scrapes[i]) : i \in unflipped}
             F == Src!FileLeads(S, finds)
             scrapes == [i \in DOMAIN S.scrapes |->
                           IF i \in unflipped THEN Src!Ingested(S.scrapes[i]) ELSE S.scrapes[i]]
             T == [F EXCEPT !.scrapes = scrapes]
  <1>1. /\ S \in Src!States /\ \A l \in Links : S.leads[l] <= 1
        /\ \A i \in DOMAIN S.scrapes : S.scrapes[i] \in Src!ScrapeRecords /\ Src!ScrapeSound(S.scrapes[i])
        /\ S.scrapes \in Seq(Src!ScrapeRecords)
    BY DEF Src!Sound, Src!States
  <1>2. /\ F \in Src!States /\ F.scrapes = S.scrapes /\ SameMemory(S, F)
        /\ \A l \in Links : F.leads[l] <= 1 /\ (S.leads[l] > 0 \/ l \in finds => F.leads[l] > 0)
    BY SMTT(30), <1>1, LeadsFiled DEF SameMemory
  <1>3. Src!ReconcileRunnerSourceRuns(S) = T
    BY <1>2 DEF Src!ReconcileRunnerSourceRuns
  <1>4. ASSUME NEW i \in DOMAIN S.scrapes
        PROVE  /\ scrapes[i] \in Src!ScrapeRecords /\ Src!ScrapeSound(scrapes[i])
               /\ scrapes[i].source = S.scrapes[i].source /\ scrapes[i].agent = S.scrapes[i].agent
               /\ scrapes[i].proc = S.scrapes[i].proc /\ scrapes[i].result = S.scrapes[i].result
               /\ IF i \in unflipped THEN scrapes[i].outcome # "running" ELSE scrapes[i] = S.scrapes[i]
    BY <1>1, IngestedIs
  <1>5. scrapes \in Seq(Src!ScrapeRecords) /\ DOMAIN scrapes = DOMAIN S.scrapes
    <2>1. scrapes = [i \in DOMAIN S.scrapes |-> scrapes[i]]
      OBVIOUS
    <2> HIDE DEF scrapes
    <2> QED BY <1>1, <1>4, <2>1, Mapped
  <1>6. /\ T \in Src!States /\ T.scrapes = scrapes /\ T.leads = F.leads /\ SameMemory(S, T)
    <2> HIDE DEF F, scrapes
    <2> QED BY <1>2, <1>5 DEF Src!States, SameMemory
  <1>7. ASSUME NEW i \in DOMAIN S.scrapes, S.scrapes[i].outcome = "running",
               scrapes[i].outcome # "running", S.scrapes[i].agent = "done",
               S.scrapes[i].result # Src!Rejected, NEW l \in S.scrapes[i].result
        PROVE  F.leads[l] > 0
    <2>1. i \in unflipped
      BY <1>4, <1>7
    <2>2. l \in finds
      BY <1>7, <2>1 DEF Src!FindsOf
    <2>3. l \in Links
      BY <1>1, <1>7 DEF Src!ScrapeRecords, Src!Results
    <2> QED BY <1>2, <2>2, <2>3
  <1>8. \A i \in DOMAIN S.scrapes :
          v1 = "runner" /\ S.scrapes[i].agent \in Src!RowEnds => scrapes[i].outcome # "running"
    BY <1>4
  <1>9. \A i \in DOMAIN S.scrapes : scrapes[i].outcome = "running" => S.scrapes[i].outcome = "running"
    BY <1>4
  <1> HIDE DEF T, F, scrapes, unflipped, finds
  <1>10. Src!Sound(T)
    BY <1>2, <1>4, <1>5, <1>6, <1>9, Rewritten DEF SameMemory
  <1>11. Carries(S, T)
    BY <1>2, <1>4, <1>5, <1>6, <1>7, <1>9 DEF Carries
  <1> QED BY <1>3, <1>5, <1>6, <1>8, <1>10, <1>11

\* A record is given up half an hour after its start, whatever its agent does.
LEMMA GivenUp ==
  ASSUME NEW S, Src!Sound(S)
  PROVE  LET T == Src!ReconcileStalledSourceRuns(S) IN
         /\ Src!Sound(T) /\ SameMemory(S, T) /\ T.leads = S.leads
         /\ DOMAIN T.scrapes = DOMAIN S.scrapes
         /\ \A i \in DOMAIN S.scrapes :
              /\ T.scrapes[i].source = S.scrapes[i].source /\ T.scrapes[i].agent = S.scrapes[i].agent
              /\ T.scrapes[i].proc = S.scrapes[i].proc /\ T.scrapes[i].result = S.scrapes[i].result
              /\ T.scrapes[i].outcome = "running" => S.scrapes[i].outcome = "running"
  <1> DEFINE Stalled(c) == Src!FinalizeRunRecord(c, "incomplete", "stalled")
             scrapes == [i \in DOMAIN S.scrapes |->
                           IF S.scrapes[i].old THEN Stalled(S.scrapes[i]) ELSE S.scrapes[i]]
             T == [S EXCEPT !.scrapes = scrapes]
  <1>1. /\ S \in Src!States /\ \A l \in Links : S.leads[l] <= 1
        /\ \A i \in DOMAIN S.scrapes : S.scrapes[i] \in Src!ScrapeRecords /\ Src!ScrapeSound(S.scrapes[i])
        /\ S.scrapes \in Seq(Src!ScrapeRecords)
    BY DEF Src!Sound, Src!States
  <1>2. Src!ReconcileStalledSourceRuns(S) = T
    BY DEF Src!ReconcileStalledSourceRuns
  <1>3. ASSUME NEW c \in Src!ScrapeRecords, Src!ScrapeSound(c)
        PROVE  /\ Stalled(c) \in Src!ScrapeRecords /\ Src!ScrapeSound(Stalled(c))
               /\ Stalled(c).source = c.source /\ Stalled(c).agent = c.agent
               /\ Stalled(c).proc = c.proc /\ Stalled(c).result = c.result
               /\ Stalled(c).outcome # "running"
    <2>1. "incomplete" \in Src!Outcomes
      BY DEF Src!Outcomes
    <2>2. /\ Stalled(c) \in Src!ScrapeRecords /\ Stalled(c).outcome = "incomplete"
          /\ Stalled(c).source = c.source /\ Stalled(c).agent = c.agent
          /\ Stalled(c).proc = c.proc /\ Stalled(c).result = c.result
      BY <2>1, Finalized
    <2> HIDE DEF Stalled
    <2> QED BY <1>3, <2>2 DEF Src!ScrapeSound, Src!TellsOutcome
  <1>4. ASSUME NEW i \in DOMAIN S.scrapes
        PROVE  /\ scrapes[i] \in Src!ScrapeRecords /\ Src!ScrapeSound(scrapes[i])
               /\ scrapes[i].source = S.scrapes[i].source /\ scrapes[i].agent = S.scrapes[i].agent
               /\ scrapes[i].proc = S.scrapes[i].proc /\ scrapes[i].result = S.scrapes[i].result
               /\ scrapes[i].outcome = "running" => S.scrapes[i].outcome = "running"
    <2> HIDE DEF Stalled
    <2> QED BY <1>1, <1>3
  <1>5. scrapes \in Seq(Src!ScrapeRecords) /\ DOMAIN scrapes = DOMAIN S.scrapes
    <2>1. scrapes = [i \in DOMAIN S.scrapes |-> scrapes[i]]
      OBVIOUS
    <2> HIDE DEF scrapes
    <2> QED BY ZenonT(60), <1>1, <1>4, <2>1, Mapped
  <1>6. T \in Src!States /\ T.scrapes = scrapes /\ T.leads = S.leads /\ SameMemory(S, T)
    <2> HIDE DEF scrapes
    <2> QED BY <1>1, <1>5 DEF Src!States, SameMemory
  <1> HIDE DEF T, scrapes
  <1>7. Src!Sound(T)
    BY <1>1, <1>4, <1>5, <1>6, Rewritten DEF SameMemory
  <1> QED BY <1>2, <1>4, <1>5, <1>6, <1>7

\* A sweep looks for results before it gives a record up.
LEMMA Swept ==
  ASSUME NEW S, Src!Sound(S), v1 \in {"runner", "local"}
  PROVE  LET T == Src!Sweep(S) IN
         /\ Src!Sound(T) /\ Carries(S, T) /\ SameMemory(S, T)
         /\ DOMAIN T.scrapes = DOMAIN S.scrapes
  <1> DEFINE Q == Src!ReconcileRunnerSourceRuns(S)
             T == Src!ReconcileStalledSourceRuns(Q)
  <1>1. /\ Src!Sound(Q) /\ Carries(S, Q) /\ SameMemory(S, Q) /\ DOMAIN Q.scrapes = DOMAIN S.scrapes
        /\ \A i \in DOMAIN S.scrapes :
             v1 = "runner" /\ S.scrapes[i].agent \in Src!RowEnds => Q.scrapes[i].outcome # "running"
    BY Reconciled
  <1>2. /\ Src!Sound(T) /\ SameMemory(Q, T) /\ T.leads = Q.leads
        /\ DOMAIN T.scrapes = DOMAIN Q.scrapes
        /\ \A i \in DOMAIN Q.scrapes :
             /\ T.scrapes[i].source = Q.scrapes[i].source /\ T.scrapes[i].agent = Q.scrapes[i].agent
             /\ T.scrapes[i].proc = Q.scrapes[i].proc /\ T.scrapes[i].result = Q.scrapes[i].result
             /\ T.scrapes[i].outcome = "running" => Q.scrapes[i].outcome = "running"
    BY <1>1, GivenUp
  <1>3. Src!Sweep(S) = T
    BY DEF Src!Sweep
  <1> HIDE DEF Q, T
  <1>4. ASSUME NEW i \in DOMAIN Q.scrapes, Q.scrapes[i].outcome = "running",
               Q.scrapes[i].agent = "done", NEW l \in Q.scrapes[i].result
        PROVE  FALSE
    <2>1. v1 = "local"
      BY <1>1, <1>4 DEF Carries, Src!RowEnds
    <2>2. Src!ScrapeSound(Q.scrapes[i])
      BY <1>1 DEF Src!Sound
    <2> QED BY <1>4, <2>1, <2>2 DEF Src!ScrapeSound
  <1>5. Carries(Q, T)
    BY <1>2, <1>4 DEF Carries
  <1>6. Carries(S, T)
    BY <1>1, <1>5, CarriesOn DEF Src!Sound
  <1> QED BY <1>1, <1>2, <1>3, <1>6 DEF SameMemory

-----------------------------------------------------------------------------
\* FiniteSets is one module, here and in SourceRuns.
LEMMA SameSourceCount == \A S : Src!Cardinality(S) = Cardinality(S)
  BY DEF Src!Cardinality, Cardinality

\* Some of a sequence's places are finitely many.
LEMMA PlacesFinite ==
  ASSUME NEW A, NEW s \in Seq(A), NEW P \in SUBSET (DOMAIN s)
  PROVE  IsFiniteSet(P) /\ Cardinality(P) \in Nat
  <1>1. IsFiniteSet(DOMAIN s)
    BY FS_Interval
  <1> QED BY <1>1, FS_Subset, FS_CardinalityType

\* The count of local processes is a number, and grows with the agents that run.
LEMMA RunningGrows ==
  ASSUME NEW S, Src!Sound(S), NEW T, Src!Sound(T), DOMAIN S.scrapes \subseteq DOMAIN T.scrapes,
         \A i \in DOMAIN S.scrapes : T.scrapes[i].agent = S.scrapes[i].agent
  PROVE  /\ Src!RunningCount(S) \in Nat /\ Src!RunningCount(T) \in Nat
         /\ Src!RunningCount(S) <= Src!RunningCount(T)
         /\ DOMAIN T.scrapes = DOMAIN S.scrapes => Src!RunningCount(T) = Src!RunningCount(S)
  <1> DEFINE A == {i \in DOMAIN S.scrapes : S.scrapes[i].agent = "running"}
             B == {i \in DOMAIN T.scrapes : T.scrapes[i].agent = "running"}
  <1>1. S.scrapes \in Seq(Src!ScrapeRecords) /\ T.scrapes \in Seq(Src!ScrapeRecords)
    BY DEF Src!Sound, Src!States
  <1>2. IsFiniteSet(A) /\ Cardinality(A) \in Nat /\ IsFiniteSet(B) /\ Cardinality(B) \in Nat
    <2>1. A \in SUBSET (DOMAIN S.scrapes) /\ B \in SUBSET (DOMAIN T.scrapes)
      OBVIOUS
    <2> HIDE DEF A, B
    <2> QED BY <1>1, <2>1, PlacesFinite
  <1>3. A \in SUBSET B /\ (DOMAIN T.scrapes = DOMAIN S.scrapes => A = B)
    OBVIOUS
  <1>4. /\ Src!RunningCount(S) = IF v1 = "local" THEN Cardinality(A) ELSE 0
        /\ Src!RunningCount(T) = IF v1 = "local" THEN Cardinality(B) ELSE 0
    BY SameSourceCount DEF Src!RunningCount
  <1> HIDE DEF A, B
  <1>5. Cardinality(A) <= Cardinality(B)
    BY <1>2, <1>3, FS_Subset
  <1> QED BY <1>2, <1>3, <1>4, <1>5

\* A read that starts is one read more.
LEMMA ReadStarts ==
  ASSUME NEW S, NEW T, S.reads \in Seq(Src!ReadRecords), NEW r \in Src!ReadRecords,
         T.reads = Append(S.reads, r)
  PROVE  /\ T.reads \in Seq(Src!ReadRecords)
         /\ Src!FromQueue(S) \in Nat
         /\ Src!FromQueue(T) = Src!FromQueue(S) + IF r.fromQueue THEN 1 ELSE 0
  <1> DEFINE A == {n \in DOMAIN S.reads : S.reads[n].fromQueue}
             B == {n \in DOMAIN T.reads : T.reads[n].fromQueue}
             last == Len(S.reads) + 1
  <1>1. /\ T.reads \in Seq(Src!ReadRecords) /\ DOMAIN T.reads = DOMAIN S.reads \cup {last}
        /\ last \notin DOMAIN S.reads /\ T.reads[last] = r
        /\ \A n \in DOMAIN S.reads : T.reads[n] = S.reads[n]
    BY Appended
  <1>2. IsFiniteSet(A) /\ Cardinality(A) \in Nat
    <2>1. A \in SUBSET (DOMAIN S.reads)
      OBVIOUS
    <2> HIDE DEF A
    <2> QED BY <2>1, PlacesFinite
  <1>3. B = IF r.fromQueue THEN A \cup {last} ELSE A
    BY <1>1
  <1>4. last \notin A
    BY <1>1
  <1>5. Src!FromQueue(S) = Cardinality(A) /\ Src!FromQueue(T) = Cardinality(B)
    BY SameSourceCount DEF Src!FromQueue
  <1> HIDE DEF A, B, last
  <1>6. Cardinality(A \cup {last}) = Cardinality(A) + 1
    BY <1>2, <1>4, FS_AddElement
  <1> QED BY <1>1, <1>2, <1>3, <1>5, <1>6

\* A read that returns is one read less: the others have moved up.
LEMMA ReadReturns ==
  ASSUME NEW S, NEW T, S.reads \in Seq(Src!ReadRecords), NEW k \in DOMAIN S.reads,
         T.reads = Src!RemoveAt(S.reads, k)
  PROVE  /\ T.reads \in Seq(Src!ReadRecords)
         /\ Src!FromQueue(S) \in Nat
         /\ Src!FromQueue(T) = Src!FromQueue(S) - IF S.reads[k].fromQueue THEN 1 ELSE 0
         /\ \A n \in DOMAIN T.reads : \E m \in DOMAIN S.reads : T.reads[n] = S.reads[m]
  <1> DEFINE s == S.reads
             t == T.reads
             Old(n) == IF n < k THEN n ELSE n + 1
             A == {n \in DOMAIN s : s[n].fromQueue}
             B == {n \in DOMAIN t : t[n].fromQueue}
             f == [n \in B |-> Old(n)]
  <1>1. Len(s) \in Nat /\ DOMAIN s = 1 .. Len(s) /\ k \in 1 .. Len(s)
    OBVIOUS
  <1>2. /\ SubSeq(s, 1, k - 1) \in Seq(Src!ReadRecords) /\ Len(SubSeq(s, 1, k - 1)) = k - 1
        /\ \A n \in 1 .. k - 1 : SubSeq(s, 1, k - 1)[n] = s[n]
    <2>1. \A n \in 1 .. k - 1 : s[n] \in Src!ReadRecords
      BY <1>1
    <2> QED BY <1>1, <2>1, SubSeqProperties
  <1>3. /\ SubSeq(s, k + 1, Len(s)) \in Seq(Src!ReadRecords)
        /\ Len(SubSeq(s, k + 1, Len(s))) = Len(s) - k
        /\ \A n \in 1 .. Len(s) - k : SubSeq(s, k + 1, Len(s))[n] = s[n + k]
    <2>1. \A n \in k + 1 .. Len(s) : s[n] \in Src!ReadRecords
      BY <1>1
    <2>2. /\ SubSeq(s, k + 1, Len(s)) \in Seq(Src!ReadRecords)
          /\ Len(SubSeq(s, k + 1, Len(s))) = IF k + 1 <= Len(s) THEN Len(s) - (k + 1) + 1 ELSE 0
          /\ \A n \in 1 .. Len(s) - (k + 1) + 1 : SubSeq(s, k + 1, Len(s))[n] = s[k + 1 + n - 1]
      <3> HIDE DEF s
      <3>1. k + 1 \in Int /\ Len(s) \in Int
        BY <1>1
      <3> QED BY SMTT(30), <2>1, <3>1, SubSeqProperties
    <2>3. ASSUME NEW n \in 1 .. Len(s) - k PROVE SubSeq(s, k + 1, Len(s))[n] = s[n + k]
      <3>1. n \in 1 .. Len(s) - (k + 1) + 1 /\ k + 1 + n - 1 = n + k
        BY <1>1
      <3> QED BY <2>2, <3>1
    <2> QED BY <1>1, <2>2, <2>3
  <1>4. t = SubSeq(s, 1, k - 1) \o SubSeq(s, k + 1, Len(s))
    BY DEF Src!RemoveAt
  <1>5. /\ t \in Seq(Src!ReadRecords) /\ Len(t) = Len(s) - 1
        /\ \A n \in 1 .. Len(s) - 1 : t[n] = IF n <= k - 1 THEN SubSeq(s, 1, k - 1)[n]
                                             ELSE SubSeq(s, k + 1, Len(s))[n - (k - 1)]
    <2> DEFINE p == SubSeq(s, 1, k - 1)
               q == SubSeq(s, k + 1, Len(s))
    <2>1. p \in Seq(Src!ReadRecords) /\ q \in Seq(Src!ReadRecords) /\ t = p \o q
      BY <1>2, <1>3, <1>4
    <2>2. Len(p) = k - 1 /\ Len(p) + Len(q) = Len(s) - 1
      BY SMTT(60), <1>1, <1>2, <1>3
    <2> HIDE DEF s, t, p, q
    <2>3. /\ t \in Seq(Src!ReadRecords) /\ Len(t) = Len(p) + Len(q)
          /\ \A n \in 1 .. Len(p) + Len(q) : t[n] = IF n <= Len(p) THEN p[n] ELSE q[n - Len(p)]
      BY <2>1, ConcatProperties
    <2> QED BY <2>2, <2>3 DEF p, q
  <1>6. DOMAIN t = 1 .. Len(s) - 1 /\ \A n \in DOMAIN t : Old(n) \in DOMAIN s \ {k} /\ t[n] = s[Old(n)]
    <2>1. DOMAIN t = 1 .. Len(s) - 1
      BY <1>5
    <2>2. ASSUME NEW n \in 1 .. Len(s) - 1 PROVE Old(n) \in DOMAIN s \ {k} /\ t[n] = s[Old(n)]
      <3>1. CASE n < k
        BY <1>1, <1>2, <1>5, <3>1
      <3>2. CASE ~(n < k)
        <4>1. n - (k - 1) \in 1 .. Len(s) - k /\ n - (k - 1) + k = n + 1
          BY <1>1, <3>2
        <4>2. SubSeq(s, k + 1, Len(s))[n - (k - 1)] = s[n + 1]
          BY <1>3, <4>1
        <4>3. t[n] = SubSeq(s, k + 1, Len(s))[n - (k - 1)]
          <5>1. ~(n <= k - 1)
            BY <1>1, <3>2
          <5> QED BY <1>5, <5>1
        <4>4. Old(n) = n + 1 /\ n + 1 \in DOMAIN s \ {k}
          BY <1>1, <3>2
        <4> QED BY <4>2, <4>3, <4>4
      <3> QED BY <3>1, <3>2
    <2> QED BY <2>1, <2>2
  <1> HIDE DEF t
  <1>7. f \in Bijection(B, A \ {k})
    <2>1. \A n \in B : f[n] \in A \ {k}
      BY <1>6
    <2>2. \A n, m \in B : f[n] = f[m] => n = m
      BY <1>1, <1>6
    <2>3. ASSUME NEW a \in A \ {k} PROVE \E n \in B : f[n] = a
      <3> DEFINE n == IF a < k THEN a ELSE a - 1
      <3>1. n \in DOMAIN t /\ Old(n) = a
        BY <1>1, <1>6
      <3> QED BY <1>6, <3>1
    <2> QED BY <2>1, <2>2, <2>3 DEF Bijection, Injection, Surjection, IsInjective
  <1>8. IsFiniteSet(A) /\ Cardinality(A) \in Nat /\ IsFiniteSet(B)
    <2>1. A \in SUBSET (DOMAIN s) /\ B \in SUBSET (DOMAIN t)
      OBVIOUS
    <2> HIDE DEF A, B, s
    <2>2. s \in Seq(Src!ReadRecords)
      BY DEF s
    <2> QED BY <1>5, <2>1, <2>2, PlacesFinite
  <1>9. Cardinality(B) = Cardinality(A \ {k})
    <2> HIDE DEF A, B, f
    <2> QED BY <1>7, <1>8, FS_Bijection DEF ExistsBijection
  <1>10. Cardinality(A \ {k}) = IF k \in A THEN Cardinality(A) - 1 ELSE Cardinality(A)
    <2> HIDE DEF A
    <2> QED BY <1>8, FS_RemoveElement
  <1>11. Src!FromQueue(S) = Cardinality(A) /\ Src!FromQueue(T) = Cardinality(B)
    BY SameSourceCount DEF Src!FromQueue, t
  <1>12. k \in A <=> S.reads[k].fromQueue
    OBVIOUS
  <1>13. \A n \in DOMAIN t : \E m \in DOMAIN s : t[n] = s[m]
    BY <1>6
  <1> HIDE DEF A, B, s
  <1>14. T.reads = t /\ S.reads = s
    BY DEF t, s
  <1> QED BY <1>5, <1>8, <1>9, <1>10, <1>11, <1>12, <1>13, <1>14

-----------------------------------------------------------------------------
\* The slots held by launches out of the queue are those of the reads under way.
Counted(S) == S.pending = Src!FromQueue(S)

\* No launch out of the queue gets a slot.
Full(S) == Src!RunningCount(S) + S.pending >= PanelSlots

\* In its callback a launch adds a record, unless the source has a running one or the
\* queue of the runner is full.
LEMMA Launched ==
  ASSUME NEW S, Src!Sound(S), v1 \in {"runner", "local"}, NEW s \in Sources
  PROVE  LET T == Src!LaunchTail(S, s) IN
         /\ Src!Sound(T) /\ Carries(S, T) /\ SameMemory(S, T)
         /\ Src!RunningCount(S) <= Src!RunningCount(T)
         /\ Src!RunningCount(S) \in Nat /\ Src!RunningCount(T) \in Nat
  <1> DEFINE c == IF v1 = "runner" THEN Src!Scrape(s, "queued", FALSE)
                                   ELSE Src!Scrape(s, "running", TRUE)
             scrapes == Append(S.scrapes, c)
             T == [S EXCEPT !.scrapes = scrapes]
             last == Len(S.scrapes) + 1
  <1>1. S \in Src!States /\ S.scrapes \in Seq(Src!ScrapeRecords)
    BY DEF Src!Sound, Src!States
  <1>2. CASE Src!LaunchTail(S, s) = S
    BY <1>2, CarriesSelf, RunningGrows DEF SameMemory
  <1>3. CASE Src!LaunchTail(S, s) # S
    <2>1. Src!LaunchTail(S, s) = T /\ ~Src!HasRunningRecord(S, s)
      BY <1>3 DEF Src!LaunchTail
    <2>2. /\ c \in Src!ScrapeRecords /\ Src!ScrapeSound(c) /\ c.source = s
          /\ c.proc => c.agent = "running"
      BY DEF Src!Scrape, Src!ScrapeRecords, Src!AgentStates, Src!Waiting, Src!Results,
             Src!ScrapeSound, Src!TellsOutcome
    <2> HIDE DEF c
    <2>3. /\ scrapes \in Seq(Src!ScrapeRecords) /\ DOMAIN scrapes = DOMAIN S.scrapes \cup {last}
          /\ last \notin DOMAIN S.scrapes /\ scrapes[last] = c
          /\ \A i \in DOMAIN S.scrapes : scrapes[i] = S.scrapes[i]
      BY <1>1, <2>2, Appended
    <2> HIDE DEF scrapes, last
    <2>4. T \in Src!States /\ T.scrapes = scrapes /\ T.leads = S.leads /\ SameMemory(S, T)
      BY <1>1, <2>3 DEF Src!States, SameMemory
    <2> HIDE DEF T
    <2>5. Src!OneRunning(T)
      BY <2>1, <2>2, <2>3, <2>4 DEF Src!OneRunning, Src!Sound, Src!HasRunningRecord
    <2>6. Src!FinalizesEnded(T)
      BY <2>3, <2>4 DEF Src!FinalizesEnded, Src!Sound, SameMemory
    <2>7. Src!Sound(T)
      BY <2>2, <2>3, <2>4, <2>5, <2>6 DEF Src!Sound
    <2>8. Carries(S, T)
      BY <2>3, <2>4 DEF Carries
    <2>9. /\ Src!RunningCount(S) <= Src!RunningCount(T)
          /\ Src!RunningCount(S) \in Nat /\ Src!RunningCount(T) \in Nat
      BY <2>3, <2>4, <2>7, RunningGrows
    <2> QED BY <2>1, <2>4, <2>7, <2>8, <2>9
  <1> QED BY <1>2, <1>3

\* A launch: a record at once, or a read that will make one.
LEMMA LaunchStarted ==
  ASSUME NEW S, Src!Sound(S), Counted(S), v1 \in {"runner", "local"}, NEW s \in Sources,
         NEW fromQueue \in BOOLEAN
  PROVE  LET T == Src!LaunchSourceRun(S, s, fromQueue) IN
         /\ Src!Sound(T) /\ Counted(T) /\ Carries(S, T) /\ T.queue = S.queue
         /\ Src!RunningCount(S) <= Src!RunningCount(T) /\ S.pending <= T.pending
         /\ Src!RunningCount(S) \in Nat /\ Src!RunningCount(T) \in Nat
         /\ S.pending \in Int /\ T.pending \in Int
  <1> DEFINE Q == Src!Sweep(S)
  <1>1. /\ Src!Sound(Q) /\ Carries(S, Q) /\ SameMemory(S, Q) /\ DOMAIN Q.scrapes = DOMAIN S.scrapes
    BY Swept
  <1>2. S \in Src!States /\ Q \in Src!States /\ Counted(Q)
    BY <1>1 DEF Src!Sound, SameMemory, Counted, Src!FromQueue
  <1>3. /\ Src!RunningCount(Q) = Src!RunningCount(S) /\ Src!RunningCount(S) \in Nat
    BY <1>1, RunningGrows DEF Carries
  <1> HIDE DEF Q
  <1>4. CASE v1 = "runner"
    <2> DEFINE T == Src!LaunchTail(Q, s)
    <2>1. /\ Src!Sound(T) /\ Carries(Q, T) /\ SameMemory(Q, T)
          /\ Src!RunningCount(Q) <= Src!RunningCount(T) /\ Src!RunningCount(T) \in Nat
      BY <1>1, Launched
    <2>2. Src!LaunchSourceRun(S, s, fromQueue) = T
      BY <1>4 DEF Src!LaunchSourceRun, Q
    <2> HIDE DEF T
    <2>3. Carries(S, T)
      BY <1>1, <1>2, <2>1, CarriesOn
    <2>4. T.queue = S.queue /\ T.pending = S.pending /\ Counted(T)
      BY <1>1, <1>2, <2>1 DEF SameMemory, Counted, Src!FromQueue
    <2>5. S.pending \in Int
      BY <1>2 DEF Src!States
    <2> QED BY <1>3, <2>1, <2>2, <2>3, <2>4, <2>5
  <1>5. CASE v1 # "runner"
    <2> DEFINE r == Src!Read("launch", s, fromQueue)
               reads == Append(Q.reads, r)
               pending == IF fromQueue THEN Q.pending + 1 ELSE Q.pending
               T == [Q EXCEPT !.reads = reads, !.pending = pending]
    <2>1. Src!LaunchSourceRun(S, s, fromQueue) = T
      BY <1>5 DEF Src!LaunchSourceRun, Q
    <2>2. r \in Src!ReadRecords /\ r.op = "launch" /\ r.fromQueue = fromQueue
      BY DEF Src!Read, Src!ReadRecords
    <2> HIDE DEF r
    <2>3. Q.reads \in Seq(Src!ReadRecords) /\ Q.pending \in Int /\ pending \in Int
      BY <1>2 DEF Src!States
    <2>4. /\ reads \in Seq(Src!ReadRecords) /\ DOMAIN reads = DOMAIN Q.reads \cup {Len(Q.reads) + 1}
          /\ reads[Len(Q.reads) + 1] = r /\ \A n \in DOMAIN Q.reads : reads[n] = Q.reads[n]
      BY <2>2, <2>3, Appended
    <2>5. T \in Src!States /\ T.reads = reads /\ T.pending = pending
      <3> HIDE DEF reads, pending
      <3> QED BY <1>2, <2>3, <2>4 DEF Src!States
    <2>6. T.scrapes = Q.scrapes /\ T.leads = Q.leads /\ T.queue = Q.queue
      BY <1>2 DEF Src!States
    <2> HIDE DEF T
    <2>7. Src!FromQueue(Q) \in Nat /\ Src!FromQueue(T) = Src!FromQueue(Q) + IF fromQueue THEN 1 ELSE 0
      BY <2>2, <2>3, <2>5, ReadStarts
    <2>8. Counted(T)
      BY SMTT(30), <1>2, <2>5, <2>7 DEF Counted
    <2> HIDE DEF reads, pending
    <2>9. Src!FinalizesEnded(T)
      BY <1>1, <2>2, <2>4, <2>5, <2>6 DEF Src!FinalizesEnded, Src!Sound
    <2>10. Src!Sound(T)
      BY <1>1, <2>5, <2>6, <2>9 DEF Src!Sound, Src!OneRunning
    <2>11. Carries(S, T)
      BY <1>1, <1>2, <2>6, CarriesSelf, CarriesOn
    <2>12. Src!RunningCount(T) = Src!RunningCount(S)
      BY <1>3, <2>6 DEF Src!RunningCount
    <2>13. S.pending <= T.pending /\ T.pending \in Int /\ S.pending \in Int
      BY <1>1, <2>3, <2>5 DEF SameMemory, pending
    <2> QED BY <1>1, <1>3, <2>1, <2>6, <2>8, <2>10, <2>11, <2>12, <2>13 DEF SameMemory
  <1> QED BY <1>4, <1>5

\* What is true after n sources of the queue of S had their turn.
DrainedBy(S, n, T) ==
  /\ Src!Sound(T) /\ Counted(T) /\ Carries(S, T)
  /\ Len(T.queue) = Len(S.queue) - n \/ Full(T)

\* The queue is drained as far as there are slots.
LEMMA Drained ==
  ASSUME NEW S, Src!Sound(S), Counted(S), v1 \in {"runner", "local"}, PanelSlots \in Nat
  PROVE  LET T == Src!ProcessQueue(S) IN
         /\ Src!Sound(T) /\ Counted(T) /\ Carries(S, T)
         /\ (T.queue = <<>> \/ Full(T))
  <1> DEFINE N == Len(S.queue)
             X == [n \in 0 .. N |-> {T \in Src!States : DrainedBy(S, n, T)}]
             Step(Q, s) == IF Src!RunningCount(Q) + Q.pending < PanelSlots
                           THEN Src!LaunchSourceRun([Q EXCEPT !.queue = Tail(@)], s, TRUE)
                           ELSE Q
             step == [q \in Src!States \X (1 .. N) |-> Step(q[1], S.queue[q[2]])]
             Follows(f) == Iterates(f, N, S, step)
             Recurs(f) == f = [n \in 0 .. N |-> IF n = 0 THEN S ELSE Step(f[n - 1], S.queue[n])]
  <1>1. N \in Nat /\ S \in Src!States /\ S.queue \in Seq(Sources) /\ DOMAIN S.queue = 1 .. N
    BY DEF Src!Sound, Src!States
  <1>2. S \in X[0]
    BY <1>1, CarriesSelf DEF DrainedBy
  <1>3. \A n \in 0 .. N : X[n] = {T \in Src!States : DrainedBy(S, n, T)}
    OBVIOUS
  <1> HIDE DEF X
  <1>4. ASSUME NEW n \in 1 .. N, NEW Q \in X[n - 1] PROVE Step(Q, S.queue[n]) \in X[n]
    <2>1. /\ Q \in Src!States /\ Src!Sound(Q) /\ Counted(Q) /\ Carries(S, Q)
          /\ (Len(Q.queue) = N - (n - 1) \/ Full(Q))
      <3>1. n - 1 \in 0 .. N
        BY <1>1
      <3>2. Q \in Src!States /\ DrainedBy(S, n - 1, Q)
        BY <1>3, <3>1
      <3> QED BY <3>2 DEF DrainedBy
    <2>2. CASE Src!RunningCount(Q) + Q.pending < PanelSlots
      <3> DEFINE P == [Q EXCEPT !.queue = Tail(@)]
                 T == Src!LaunchSourceRun(P, S.queue[n], TRUE)
      <3>1. /\ Src!RunningCount(Q) \in Nat /\ Q.pending \in Int /\ Q.queue \in Seq(Sources)
        BY <2>1, RunningGrows DEF Src!States
      <3>2. Len(Q.queue) = N - (n - 1)
        BY <2>1, <2>2, <3>1 DEF Full
      <3>3. Q.queue # <<>> /\ Tail(Q.queue) \in Seq(Sources) /\ Len(Tail(Q.queue)) = N - n
        <4>1. Q.queue # <<>>
          BY <1>1, <3>1, <3>2
        <4>2. Tail(Q.queue) \in Seq(Sources) /\ Len(Tail(Q.queue)) = Len(Q.queue) - 1
          BY <3>1, <4>1, HeadTailProperties
        <4> QED BY SMTT(30), <1>1, <3>2, <4>1, <4>2
      <3>4. /\ P \in Src!States /\ P.scrapes = Q.scrapes /\ P.leads = Q.leads /\ P.reads = Q.reads
            /\ P.pending = Q.pending /\ P.queue = Tail(Q.queue)
        BY <2>1, <3>3 DEF Src!States
      <3> HIDE DEF P
      <3>5. Src!Sound(P) /\ Counted(P) /\ Carries(S, P)
        <4>1. Carries(Q, P)
          BY <3>4, CarriesSelf
        <4>2. Carries(S, P)
          BY <1>1, <2>1, <4>1, CarriesOn
        <4> QED BY <2>1, <3>4, <4>2 DEF Src!Sound, Src!OneRunning, Src!FinalizesEnded, Counted, Src!FromQueue
      <3>6. S.queue[n] \in Sources
        BY <1>1
      <3>7. Src!Sound(T) /\ Counted(T) /\ Carries(P, T) /\ T.queue = P.queue
        BY <3>5, <3>6, LaunchStarted
      <3>8. Step(Q, S.queue[n]) = T
        BY <2>2 DEF P
      <3> HIDE DEF T, Step
      <3>9. Carries(S, T) /\ T \in Src!States
        BY <1>1, <3>5, <3>7, CarriesOn DEF Src!Sound
      <3>10. DrainedBy(S, n, T)
        BY <3>3, <3>4, <3>7, <3>9 DEF DrainedBy
      <3> QED BY <1>3, <3>8, <3>9, <3>10
    <2>3. CASE ~(Src!RunningCount(Q) + Q.pending < PanelSlots)
      <3>1. /\ Src!RunningCount(Q) \in Nat /\ Q.pending \in Int
        BY <2>1, RunningGrows DEF Src!States
      <3>2. Full(Q)
        BY <2>3, <3>1 DEF Full
      <3>3. DrainedBy(S, n, Q)
        BY <2>1, <3>2 DEF DrainedBy
      <3>4. Step(Q, S.queue[n]) = Q
        BY <2>3
      <3> HIDE DEF Step
      <3> QED BY <1>3, <2>1, <3>3, <3>4
    <2> QED BY <2>2, <2>3
  <1>5. \A n \in 1 .. N : \A Q \in X[n - 1] : step[<<Q, n>>] \in X[n]
    <2> SUFFICES ASSUME NEW n \in 1 .. N, NEW Q \in X[n - 1] PROVE step[<<Q, n>>] \in X[n]
      OBVIOUS
    <2>1. Q \in Src!States
      <3>1. n - 1 \in 0 .. N
        BY <1>1
      <3> QED BY <1>3, <3>1
    <2>2. step[<<Q, n>>] = Step(Q, S.queue[n])
      <3> HIDE DEF Step
      <3> QED BY <2>1
    <2> HIDE DEF step, Step
    <2> QED BY <1>4, <2>2
  <1> HIDE DEF Step
  <1>6. (\E f : Follows(f)) /\ \A f : Follows(f) => \A n \in 0 .. N : f[n] \in X[n]
    <2>1. \A n \in 0 .. N : X[n] \subseteq Src!States
      BY <1>3
    <2> HIDE DEF step, N
    <2> QED BY <1>1, <1>2, <1>5, <2>1, Iterated
  <1>7. ASSUME NEW f, \A n \in 0 .. N : f[n] \in X[n] PROVE Follows(f) <=> Recurs(f)
    <2>1. ASSUME NEW n \in 1 .. N PROVE f[n - 1] \in Src!States
      <3>1. n - 1 \in 0 .. N
        BY <1>1
      <3> QED BY <1>3, <1>7, <3>1
    <2>2. \A n \in 1 .. N : step[<<f[n - 1], n>>] = Step(f[n - 1], S.queue[n])
      BY <2>1
    <2> HIDE DEF step
    <2>3. [n \in 0 .. N |-> IF n = 0 THEN S ELSE step[<<f[n - 1], n>>]]
            = [n \in 0 .. N |-> IF n = 0 THEN S ELSE Step(f[n - 1], S.queue[n])]
      <3>1. ASSUME NEW n \in 0 .. N
            PROVE  (IF n = 0 THEN S ELSE step[<<f[n - 1], n>>])
                     = (IF n = 0 THEN S ELSE Step(f[n - 1], S.queue[n]))
        <4>1. n = 0 \/ n \in 1 .. N
          BY <1>1
        <4> QED BY <2>2, <4>1
      <3> QED BY <3>1
    <2> QED BY <2>3 DEF Iterates
  <1>8. \E f : Recurs(f)
    <2> HIDE DEF Follows, Recurs
    <2> QED BY <1>6, <1>7
  <1>9. ASSUME NEW f, Recurs(f) PROVE f[N] \in X[N]
    <2>1. f[0] = S /\ \A n \in 1 .. N : f[n] = Step(f[n - 1], S.queue[n])
      BY SMTT(30), <1>1, <1>9
    <2>2. f[0] \in X[0] /\ \A n \in 1 .. N : f[n - 1] \in X[n - 1] => f[n] \in X[n]
      BY <1>2, <1>4, <2>1
    <2>3. \A n \in 0 .. N : f[n] \in X[n]
      <3> HIDE DEF N
      <3> QED BY <1>1, <2>2, KeptAlong
    <2>4. N \in 0 .. N
      BY <1>1
    <2> QED BY <2>3, <2>4
  <1>10. Src!ProcessQueue(S) = (CHOOSE f : Recurs(f))[N]
    BY DEF Src!ProcessQueue, Step
  <1>11. Src!ProcessQueue(S) \in X[N]
    <2> HIDE DEF Recurs
    <2> QED BY <1>8, <1>9, <1>10
  <1> DEFINE T == Src!ProcessQueue(S)
  <1>12. /\ T \in Src!States /\ Src!Sound(T) /\ Counted(T) /\ Carries(S, T)
         /\ (Len(T.queue) = N - N \/ Full(T))
    <2>1. N \in 0 .. N
      BY <1>1
    <2> QED BY <1>3, <1>11, <2>1 DEF DrainedBy
  <1>13. T.queue \in Seq(Sources)
    BY <1>12 DEF Src!States
  <1> HIDE DEF T
  <1>14. Len(T.queue) = N - N => T.queue = <<>>
    BY <1>1, <1>13
  <1> QED BY <1>12, <1>14 DEF T

-----------------------------------------------------------------------------
\* An item waits only while the slots are taken, or a stopped process has yet to close.
Busy(T) ==
  \/ T.queue = <<>> \/ Full(T)
  \/ \E i \in DOMAIN T.scrapes : T.scrapes[i].agent = "stopped" /\ T.scrapes[i].proc

\* A record that closes between S and T over finds has them filed.
Closes(S, T) ==
  \A i \in DOMAIN S.scrapes :
    /\ S.scrapes[i].outcome = "running" /\ T.scrapes[i].outcome # "running"
    /\ T.scrapes[i].agent = "done" /\ T.scrapes[i].result # Src!Rejected
    => \A l \in T.scrapes[i].result : T.leads[l] > 0

\* What every step of the sources leads to.
Arrives(T) == Src!Sound(T) /\ Counted(T) /\ Busy(T) /\ Closes(v2, T)

\* A step that arrives there keeps the invariant, and loses no finds.
LEMMA SourcesArrive ==
  ASSUME NEW T, Arrives(T), Src!Becomes(T), v1 \in {"runner", "local"}
  PROVE  Src!SourcesInv' /\ Src!ClosesWithFinds
  <1>1. v2' = T /\ v1' = v1
    BY DEF Src!Becomes
  <1>2. Src!AgentStates' = Src!AgentStates
    BY <1>1 DEF Src!AgentStates
  <1>3. Src!ScrapeRecords' = Src!ScrapeRecords
    BY <1>2 DEF Src!ScrapeRecords
  <1>4. Src!States' = Src!States
    BY <1>3 DEF Src!States
  <1>5. Src!Sound(v2)'
    <2>1. v2' \in Src!States' /\ \A l \in Links : v2'.leads[l] <= 1
      BY <1>1, <1>4 DEF Arrives, Src!Sound
    <2>2. Src!OneRunning(v2)'
      BY <1>1 DEF Arrives, Src!Sound, Src!OneRunning
    <2>3. \A i \in DOMAIN v2'.scrapes : Src!ScrapeSound(v2.scrapes[i])'
      BY <1>1 DEF Arrives, Src!Sound, Src!ScrapeSound
    <2>4. Src!FinalizesEnded(v2)'
      BY <1>1 DEF Arrives, Src!Sound, Src!FinalizesEnded
    <2> QED BY <2>1, <2>2, <2>3, <2>4 DEF Src!Sound
  <1>6. (v2.pending = Src!FromQueue(v2))'
    BY <1>1 DEF Arrives, Counted, Src!FromQueue
  <1>7. Src!NoIdleSlot'
    BY <1>1 DEF Arrives, Busy, Full, Src!NoIdleSlot, Src!RunningCount
  <1>8. Src!ClosesWithFinds
    BY <1>1 DEF Arrives, Closes, Src!ClosesWithFinds
  <1> QED BY <1>1, <1>5, <1>6, <1>7, <1>8 DEF Src!SourcesInv

\* One record changed, and with it its agent: what the change must keep.
LEMMA OneChanged ==
  ASSUME NEW S, Src!Sound(S), NEW i \in DOMAIN S.scrapes, NEW d \in Src!ScrapeRecords,
         Src!ScrapeSound(d), d.source = S.scrapes[i].source,
         d.outcome = "running" => S.scrapes[i].outcome = "running",
         \/ S.scrapes[i].proc \/ S.scrapes[i].agent \notin {"done", "failed", "stopped"} \/ v1 = "runner"
         \/ d.agent = S.scrapes[i].agent /\ d.proc = S.scrapes[i].proc
  PROVE  LET T == [S EXCEPT !.scrapes = [S.scrapes EXCEPT ![i] = d]] IN
         /\ Src!Sound(T) /\ SameMemory(S, T) /\ T.leads = S.leads
         /\ DOMAIN T.scrapes = DOMAIN S.scrapes /\ T.scrapes[i] = d
         /\ \A j \in DOMAIN S.scrapes : j # i => T.scrapes[j] = S.scrapes[j]
  <1> DEFINE scrapes == [S.scrapes EXCEPT ![i] = d]
             T == [S EXCEPT !.scrapes = scrapes]
  <1>1. S \in Src!States /\ S.scrapes \in Seq(Src!ScrapeRecords)
    BY DEF Src!Sound, Src!States
  <1>2. /\ scrapes \in Seq(Src!ScrapeRecords) /\ DOMAIN scrapes = DOMAIN S.scrapes
        /\ scrapes[i] = d /\ \A j \in DOMAIN S.scrapes : j # i => scrapes[j] = S.scrapes[j]
    BY <1>1, Changed
  <1> HIDE DEF scrapes
  <1>3. T \in Src!States /\ T.scrapes = scrapes /\ T.leads = S.leads /\ SameMemory(S, T)
    BY <1>1, <1>2 DEF Src!States, SameMemory
  <1> HIDE DEF T
  <1>4. Src!OneRunning(T)
    BY <1>2, <1>3 DEF Src!OneRunning, Src!Sound
  <1>5. Src!FinalizesEnded(T)
    BY <1>2, <1>3 DEF Src!FinalizesEnded, Src!Sound, SameMemory
  <1>6. Src!Sound(T)
    BY <1>2, <1>3, <1>4, <1>5 DEF Src!Sound
  <1> QED BY <1>2, <1>3, <1>6 DEF T, scrapes

\* Agents that run as before leave the slots taken as before.
LEMMA BusyKept ==
  ASSUME NEW S, Src!Sound(S), Busy(S), NEW T, Src!Sound(T), Carries(S, T),
         T.queue = S.queue, S.pending <= T.pending, PanelSlots \in Nat
  PROVE  Busy(T)
  <1>1. /\ Src!RunningCount(S) \in Nat /\ Src!RunningCount(T) \in Nat
        /\ Src!RunningCount(S) <= Src!RunningCount(T)
    BY RunningGrows DEF Carries
  <1>2. S.pending \in Int /\ T.pending \in Int
    BY DEF Src!Sound, Src!States
  <1>3. Full(S) => Full(T)
    BY <1>1, <1>2 DEF Full
  <1> QED BY <1>3 DEF Busy, Carries

\* What was carried on from a state with the same outcomes closed nothing over lost finds.
LEMMA CarriedCloses ==
  ASSUME NEW S, NEW U, NEW T, Carries(U, T), DOMAIN S.scrapes \subseteq DOMAIN U.scrapes,
         \A i \in DOMAIN S.scrapes : S.scrapes[i].outcome = "running" => U.scrapes[i].outcome = "running"
  PROVE  Closes(S, T)
  BY DEF Carries, Closes

\* A state whose rows are a laptop's has no process, and no slot taken by one.
LEMMA NoProcess ==
  ASSUME NEW S, Src!Sound(S), v1 = "runner"
  PROVE  Src!RunningCount(S) = 0 /\ \A i \in DOMAIN S.scrapes : ~S.scrapes[i].proc
  BY DEF Src!RunningCount, Src!Sound, Src!ScrapeSound

\* Sources in any order, without those that wait already, join the queue.
LEMMA FannedOut ==
  ASSUME NEW S, Src!Sound(S), Counted(S), v1 \in {"runner", "local"}, PanelSlots \in Nat,
         NEW order \in Seq(Sources)
  PROVE  LET T == Src!FanOut(S, order) IN
         Src!Sound(T) /\ Counted(T) /\ Carries(S, T) /\ Busy(T)
  <1> DEFINE queue == S.queue \o order
             U == [S EXCEPT !.queue = queue]
             T == Src!ProcessQueue(U)
  <1>1. S \in Src!States /\ S.queue \in Seq(Sources)
    BY DEF Src!Sound, Src!States
  <1>2. queue \in Seq(Sources)
    BY <1>1, ConcatProperties
  <1> HIDE DEF queue
  <1>3. /\ U \in Src!States /\ U.scrapes = S.scrapes /\ U.leads = S.leads /\ U.reads = S.reads
        /\ U.pending = S.pending
    BY <1>1, <1>2 DEF Src!States
  <1>4. Src!FanOut(S, order) = T
    BY DEF Src!FanOut, queue
  <1> HIDE DEF U
  <1>5. Src!Sound(U) /\ Counted(U) /\ Carries(S, U)
    BY <1>3, CarriesSelf DEF Src!Sound, Src!OneRunning, Src!FinalizesEnded, Counted, Src!FromQueue
  <1>6. Src!Sound(T) /\ Counted(T) /\ Carries(U, T) /\ (T.queue = <<>> \/ Full(T))
    BY <1>5, Drained
  <1> HIDE DEF T
  <1>7. Carries(S, T) /\ Busy(T)
    BY <1>1, <1>5, <1>6, CarriesOn DEF Busy
  <1> QED BY <1>4, <1>6, <1>7

\* An order of some sources is a sequence of sources.
LEMMA OrderOfSources ==
  ASSUME NEW A \in SUBSET Sources, NEW order \in Src!SetToSeqs(A)
  PROVE  order \in Seq(Sources)
  <1>1. IsFiniteSet(A) /\ Cardinality(A) \in Nat
    <2>1. IsFiniteSet(Sources)
      BY RunsAssumption
    <2> QED BY <2>1, FS_Subset, FS_CardinalityType
  <1>2. order \in [1 .. Cardinality(A) -> A]
    BY SameSourceCount DEF Src!SetToSeqs
  <1> QED BY <1>1, <1>2

-----------------------------------------------------------------------------
(***************************************************************************)
(* The steps of the sources.                                               *)
(***************************************************************************)
\* What a step finds.
LEMMA SourcesBefore ==
  ASSUME Src!SourcesInv
  PROVE  /\ v1 \in {"runner", "local"} /\ Src!Sound(v2) /\ Counted(v2) /\ Busy(v2)
         /\ v2 \in Src!States /\ v2.scrapes \in Seq(Src!ScrapeRecords)
         /\ v2.queue \in Seq(Sources) /\ v2.reads \in Seq(Src!ReadRecords)
         /\ PanelSlots \in Nat /\ PanelSlots > 0
         /\ \A i \in DOMAIN v2.scrapes : v2.scrapes[i] \in Src!ScrapeRecords /\ Src!ScrapeSound(v2.scrapes[i])
  <1>1. Src!Sound(v2) /\ v2 \in Src!States
    BY DEF Src!SourcesInv, Src!Sound
  <1>2. /\ v2.scrapes \in Seq(Src!ScrapeRecords) /\ v2.queue \in Seq(Sources)
        /\ v2.reads \in Seq(Src!ReadRecords)
    BY <1>1 DEF Src!States
  <1>3. PanelSlots \in Nat /\ PanelSlots > 0
    BY RunsAssumption DEF Panel!PanelAssumption
  <1>4. Busy(v2)
    BY DEF Src!SourcesInv, Src!NoIdleSlot, Busy, Full
  <1>5. \A i \in DOMAIN v2.scrapes : v2.scrapes[i] \in Src!ScrapeRecords /\ Src!ScrapeSound(v2.scrapes[i])
    BY <1>1, <1>2 DEF Src!Sound
  <1> QED BY <1>1, <1>2, <1>3, <1>4, <1>5 DEF Src!SourcesInv, Counted

\* A launch from the panel.
LEMMA PostSourceRunStep ==
  ASSUME Src!SourcesInv, NEW s \in Sources, Src!PostSourceRun(s)
  PROVE  Src!SourcesInv' /\ Src!ClosesWithFinds
  <1> DEFINE T == Src!LaunchSourceRun(v2, s, FALSE)
  <1>1. /\ v1 \in {"runner", "local"} /\ Src!Sound(v2) /\ Counted(v2) /\ Busy(v2) /\ PanelSlots \in Nat
    BY SourcesBefore
  <1>2. /\ Src!Sound(T) /\ Counted(T) /\ Carries(v2, T) /\ T.queue = v2.queue /\ v2.pending <= T.pending
    BY <1>1, LaunchStarted
  <1>3. Src!Becomes(T)
    BY DEF Src!PostSourceRun
  <1> HIDE DEF T
  <1>4. Busy(T) /\ Closes(v2, T)
    BY <1>1, <1>2, BusyKept, CarriedCloses
  <1> QED BY <1>1, <1>2, <1>3, <1>4, SourcesArrive DEF Arrives

\* The due sources: the workbook is read first, or they join the queue at once.
LEMMA RunAllDueStep ==
  ASSUME Src!SourcesInv, NEW due \in SUBSET Sources, Src!RunAllDue(due)
  PROVE  Src!SourcesInv' /\ Src!ClosesWithFinds
  <1> DEFINE eligible == Src!Eligible(v2, due)
  <1>1. /\ v1 \in {"runner", "local"} /\ Src!Sound(v2) /\ Counted(v2) /\ Busy(v2) /\ PanelSlots \in Nat
        /\ v2 \in Src!States /\ v2.reads \in Seq(Src!ReadRecords)
    BY SourcesBefore
  <1>2. eligible \in SUBSET Sources
    BY DEF Src!Eligible
  <1>3. CASE v1 = "local"
    <2> DEFINE r == Src!Read("fan-out", eligible, FALSE)
               reads == Append(v2.reads, r)
               T == [v2 EXCEPT !.reads = reads]
    <2>1. Src!Becomes(T)
      BY <1>3 DEF Src!RunAllDue
    <2> HIDE DEF eligible
    <2>2. r \in Src!ReadRecords /\ r.op = "fan-out" /\ ~r.fromQueue
      BY <1>2 DEF Src!Read, Src!ReadRecords
    <2> HIDE DEF r
    <2>3. /\ reads \in Seq(Src!ReadRecords) /\ DOMAIN reads = DOMAIN v2.reads \cup {Len(v2.reads) + 1}
          /\ reads[Len(v2.reads) + 1] = r /\ \A n \in DOMAIN v2.reads : reads[n] = v2.reads[n]
      BY <1>1, <2>2, Appended
    <2>4. /\ T \in Src!States /\ T.reads = reads /\ T.scrapes = v2.scrapes /\ T.leads = v2.leads
          /\ T.queue = v2.queue /\ T.pending = v2.pending
      <3> HIDE DEF reads
      <3> QED BY <1>1, <2>3 DEF Src!States
    <2> HIDE DEF T
    <2>5. Src!FromQueue(v2) \in Nat /\ Src!FromQueue(T) = Src!FromQueue(v2) + 0
      BY <1>1, <2>2, <2>4, ReadStarts
    <2> HIDE DEF reads
    <2>6. Src!FinalizesEnded(T)
      BY <1>1, <2>2, <2>3, <2>4 DEF Src!FinalizesEnded, Src!Sound
    <2>7. Src!Sound(T) /\ Counted(T)
      BY <1>1, <2>4, <2>5, <2>6 DEF Src!Sound, Src!OneRunning, Counted
    <2>8. Busy(T) /\ Closes(v2, T)
      BY <1>1, <2>4 DEF Busy, Full, Src!RunningCount, Closes
    <2> QED BY <1>1, <2>1, <2>7, <2>8, SourcesArrive DEF Arrives
  <1>4. CASE v1 # "local"
    <2>1. PICK order \in Src!SetToSeqs(eligible \ Src!ToSet(v2.queue)) : Src!Becomes(Src!FanOut(v2, order))
      BY <1>4 DEF Src!RunAllDue
    <2>2. eligible \ Src!ToSet(v2.queue) \in SUBSET Sources
      BY <1>2
    <2> HIDE DEF eligible
    <2>3. order \in Seq(Sources)
      BY <2>1, <2>2, OrderOfSources
    <2> DEFINE T == Src!FanOut(v2, order)
    <2>4. Src!Sound(T) /\ Counted(T) /\ Carries(v2, T) /\ Busy(T)
      BY <1>1, <2>3, FannedOut
    <2> HIDE DEF T
    <2>5. Closes(v2, T)
      BY <2>4, CarriedCloses
    <2> QED BY <1>1, <2>1, <2>4, <2>5, SourcesArrive DEF Arrives, T
  <1> QED BY <1>3, <1>4

\* The registry is looked at, or a run the panel does not know.
LEMMA SweepStep ==
  ASSUME Src!SourcesInv, Src!GetSources \/ Src!PollRun
  PROVE  Src!SourcesInv' /\ Src!ClosesWithFinds
  <1>1. /\ v1 \in {"runner", "local"} /\ Src!Sound(v2) /\ Counted(v2) /\ Busy(v2) /\ PanelSlots \in Nat
        /\ v2 \in Src!States
    BY SourcesBefore
  <1>2. PICK T : Src!Becomes(T) /\ Src!Sound(T) /\ Carries(v2, T) /\ SameMemory(v2, T)
    <2>1. CASE Src!GetSources
      BY <1>1, <2>1, Swept DEF Src!GetSources
    <2>2. CASE Src!PollRun
      BY <1>1, <2>2, Reconciled DEF Src!PollRun
    <2> QED BY <2>1, <2>2
  <1>3. Counted(T)
    BY <1>1, <1>2 DEF Counted, SameMemory, Src!FromQueue
  <1>4. T.queue = v2.queue /\ v2.pending <= T.pending
    BY <1>1, <1>2 DEF SameMemory, Src!States
  <1>5. Busy(T) /\ Closes(v2, T)
    BY <1>1, <1>2, <1>4, BusyKept, CarriedCloses
  <1> QED BY <1>1, <1>2, <1>3, <1>5, SourcesArrive DEF Arrives

\* A row that waits is cancelled, claimed, or swept; what it makes of the state.
LEMMA RowMoves ==
  ASSUME Src!SourcesInv, NEW i \in DOMAIN v2.scrapes, v2.scrapes[i].agent \in Src!Waiting,
         NEW agent \in Src!Waiting \cup Src!RowEnds, NEW result \in Src!Results,
         NEW U, U = Src!Settled(i, agent, result)
  PROVE  /\ v1 = "runner" /\ Src!Sound(U) /\ Counted(U) /\ Busy(U) /\ SameMemory(v2, U)
         /\ DOMAIN U.scrapes = DOMAIN v2.scrapes
         /\ U.scrapes[i].agent = agent /\ U.scrapes[i].result = result
         /\ \A j \in DOMAIN v2.scrapes : U.scrapes[j].outcome = v2.scrapes[j].outcome
  <1> DEFINE c == v2.scrapes[i]
             d == [c EXCEPT !.agent = agent, !.result = result]
  <1>1. /\ v1 \in {"runner", "local"} /\ Src!Sound(v2) /\ Counted(v2) /\ Busy(v2)
        /\ c \in Src!ScrapeRecords /\ Src!ScrapeSound(c)
    BY SourcesBefore
  <1>2. v1 = "runner"
    BY <1>1 DEF Src!ScrapeRecords, Src!AgentStates, Src!Waiting
  <1>3. c.agent \notin {"done", "failed", "dead"}
    BY DEF Src!Waiting
  <1>4. /\ d \in Src!ScrapeRecords /\ d.agent = agent /\ d.result = result
        /\ d.source = c.source /\ d.outcome = c.outcome /\ d.proc = c.proc
    <2> HIDE DEF c
    <2> QED BY <1>1, <1>2 DEF Src!ScrapeRecords, Src!AgentStates
  <1> HIDE DEF d
  <1>5. Src!ScrapeSound(d)
    BY <1>1, <1>2, <1>3, <1>4 DEF Src!ScrapeSound, Src!TellsOutcome
  <1> DEFINE T == [v2 EXCEPT !.scrapes = [v2.scrapes EXCEPT ![i] = d]]
  <1>6. U = T
    BY SourcesBefore DEF Src!Settled, Src!States, d
  <1>10. /\ Src!Sound(T) /\ SameMemory(v2, T) /\ DOMAIN T.scrapes = DOMAIN v2.scrapes
        /\ T.scrapes[i] = d /\ \A j \in DOMAIN v2.scrapes : j # i => T.scrapes[j] = v2.scrapes[j]
    <2> HIDE DEF T
    <2> QED BY <1>1, <1>2, <1>4, <1>5, OneChanged DEF T
  <1> HIDE DEF T
  <1>7. /\ Src!Sound(U) /\ SameMemory(v2, U) /\ DOMAIN U.scrapes = DOMAIN v2.scrapes
        /\ U.scrapes[i] = d /\ \A j \in DOMAIN v2.scrapes : j # i => U.scrapes[j] = v2.scrapes[j]
    BY <1>6, <1>10
  <1>8. Counted(U)
    BY <1>1, <1>7 DEF Counted, SameMemory, Src!FromQueue
  <1>9. Busy(U)
    <2>1. Src!RunningCount(U) = Src!RunningCount(v2) /\ \A j \in DOMAIN v2.scrapes : ~v2.scrapes[j].proc
      BY <1>1, <1>2, <1>7, NoProcess
    <2> QED BY <1>1, <1>7, <2>1 DEF Busy, Full, SameMemory
  <1> QED BY <1>2, <1>4, <1>7, <1>8, <1>9

\* A queued row is cancelled; of a settled one the record is reconciled; a process is killed.
LEMMA StopRunStep ==
  ASSUME Src!SourcesInv, NEW i \in DOMAIN v2.scrapes, Src!StopRun(i)
  PROVE  Src!SourcesInv' /\ Src!ClosesWithFinds
  <1> DEFINE c == v2.scrapes[i]
  <1>1. /\ v1 \in {"runner", "local"} /\ Src!Sound(v2) /\ Counted(v2) /\ Busy(v2) /\ PanelSlots \in Nat
        /\ c \in Src!ScrapeRecords /\ Src!ScrapeSound(c) /\ v2 \in Src!States
    BY SourcesBefore
  <1>2. CASE /\ c.agent = "queued"
             /\ Src!Becomes(Src!ReconcileRunnerSourceRuns([v2 EXCEPT !.scrapes[i].agent = "failed"]))
    <2> DEFINE U == [v2 EXCEPT !.scrapes[i].agent = "failed"]
               T == Src!ReconcileRunnerSourceRuns(U)
    <2>1. U = Src!Settled(i, "failed", c.result)
      BY <1>1 DEF Src!Settled, Src!States, Src!ScrapeRecords
    <2>2. c.agent \in Src!Waiting /\ "failed" \in Src!RowEnds /\ c.result \in Src!Results
      BY <1>1, <1>2 DEF Src!Waiting, Src!RowEnds, Src!ScrapeRecords
    <2>3. /\ Src!Sound(U) /\ Counted(U) /\ Busy(U) /\ DOMAIN U.scrapes = DOMAIN v2.scrapes
          /\ \A j \in DOMAIN v2.scrapes : U.scrapes[j].outcome = v2.scrapes[j].outcome
      <3> HIDE DEF U
      <3> QED BY <2>1, <2>2, RowMoves
    <2> HIDE DEF U
    <2>4. Src!Sound(T) /\ Carries(U, T) /\ SameMemory(U, T)
      BY <2>3, Reconciled
    <2>5. Src!Becomes(T)
      BY <1>2 DEF U
    <2> HIDE DEF T
    <2>6. Counted(T) /\ T.queue = U.queue /\ U.pending <= T.pending
      BY <2>3, <2>4 DEF Counted, SameMemory, Src!FromQueue, Src!Sound, Src!States
    <2>7. Busy(T) /\ Closes(v2, T)
      BY <1>1, <2>3, <2>4, <2>6, BusyKept, CarriedCloses
    <2> QED BY <1>1, <2>4, <2>5, <2>6, <2>7, SourcesArrive DEF Arrives
  <1>3. CASE Src!Becomes(Src!ReconcileRunnerSourceRuns(v2))
    BY <1>3, SweepStep DEF Src!PollRun
  <1>4. CASE /\ c.proc /\ Src!Becomes([v2 EXCEPT !.scrapes[i].agent = "stopped"])
    <2> DEFINE d == [c EXCEPT !.agent = "stopped"]
               T == [v2 EXCEPT !.scrapes = [v2.scrapes EXCEPT ![i] = d]]
    <2>1. v1 = "local" /\ c.agent \in {"running", "stopped"}
      BY <1>1, <1>4 DEF Src!ScrapeSound
    <2>2. /\ d \in Src!ScrapeRecords /\ d.agent = "stopped" /\ d.result = c.result
          /\ d.source = c.source /\ d.outcome = c.outcome /\ d.proc
      <3> HIDE DEF c
      <3> QED BY <1>1, <1>4, <2>1 DEF Src!ScrapeRecords, Src!AgentStates
    <2>3. Src!Becomes(T)
      BY <1>4
    <2> HIDE DEF d
    <2>4. Src!ScrapeSound(d)
      BY <1>1, <2>1, <2>2 DEF Src!ScrapeSound, Src!TellsOutcome
    <2>5. /\ Src!Sound(T) /\ SameMemory(v2, T) /\ DOMAIN T.scrapes = DOMAIN v2.scrapes
          /\ T.scrapes[i] = d /\ \A j \in DOMAIN v2.scrapes : j # i => T.scrapes[j] = v2.scrapes[j]
      BY <1>1, <1>4, <2>2, <2>4, OneChanged
    <2> HIDE DEF T
    <2>6. Counted(T)
      BY <1>1, <2>5 DEF Counted, SameMemory, Src!FromQueue
    <2>7. Busy(T)
      BY <2>2, <2>5 DEF Busy
    <2>8. Closes(v2, T)
      BY <2>2, <2>5 DEF Closes
    <2> QED BY <1>1, <2>3, <2>5, <2>6, <2>7, <2>8, SourcesArrive DEF Arrives
  <1> QED BY <1>2, <1>3, <1>4 DEF Src!StopRun

\* A laptop claims a row, or loses its lease.
LEMMA RowStep ==
  ASSUME Src!SourcesInv, NEW i \in DOMAIN v2.scrapes, Src!RunnerClaims(i) \/ Src!LeaseSwept(i)
  PROVE  Src!SourcesInv' /\ Src!ClosesWithFinds
  <1> DEFINE c == v2.scrapes[i]
  <1>1. PICK agent \in {"queued", "held", "dead"} :
          c.agent \in Src!Waiting /\ Src!Becomes([v2 EXCEPT !.scrapes[i].agent = agent])
    BY DEF Src!RunnerClaims, Src!LeaseSwept, Src!Waiting
  <1> DEFINE U == [v2 EXCEPT !.scrapes[i].agent = agent]
  <1>2. c \in Src!ScrapeRecords /\ v1 \in {"runner", "local"}
    BY SourcesBefore
  <1>3. U = Src!Settled(i, agent, c.result)
    BY <1>2, SourcesBefore DEF Src!Settled, Src!States, Src!ScrapeRecords
  <1>4. agent \in Src!Waiting \cup Src!RowEnds /\ c.result \in Src!Results
    BY <1>2 DEF Src!Waiting, Src!RowEnds, Src!ScrapeRecords
  <1>5. /\ Src!Sound(U) /\ Counted(U) /\ Busy(U) /\ DOMAIN U.scrapes = DOMAIN v2.scrapes
        /\ \A j \in DOMAIN v2.scrapes : U.scrapes[j].outcome = v2.scrapes[j].outcome
    <2> HIDE DEF U
    <2> QED BY <1>1, <1>3, <1>4, RowMoves
  <1> HIDE DEF U
  <1>6. Closes(v2, U)
    BY <1>5 DEF Closes
  <1> QED BY <1>1, <1>2, <1>5, <1>6, SourcesArrive DEF Arrives, U

\* A result is ingested into its record, also over one given up before.
LEMMA IngestedOne ==
  ASSUME NEW S, Src!Sound(S), NEW i \in DOMAIN S.scrapes, S.scrapes[i].agent \in Src!RowEnds
  PROVE  LET T == Src!IngestSourceRunResult(S, i) IN
         Src!Sound(T) /\ Carries(S, T) /\ SameMemory(S, T)
  <1> DEFINE c == S.scrapes[i]
             d == Src!Ingested(c)
             F == Src!FileLeads(S, Src!FindsOf(c))
             scrapes == [S.scrapes EXCEPT ![i] = d]
             T == [F EXCEPT !.scrapes = scrapes]
  <1>1. /\ S \in Src!States /\ \A l \in Links : S.leads[l] <= 1
        /\ c \in Src!ScrapeRecords /\ Src!ScrapeSound(c) /\ S.scrapes \in Seq(Src!ScrapeRecords)
    BY DEF Src!Sound, Src!States
  <1>2. /\ F \in Src!States /\ F.scrapes = S.scrapes /\ SameMemory(S, F)
        /\ \A l \in Links : F.leads[l] <= 1 /\ (S.leads[l] > 0 \/ l \in Src!FindsOf(c) => F.leads[l] > 0)
    BY <1>1, LeadsFiled DEF SameMemory
  <1>3. Src!IngestSourceRunResult(S, i) = T
    BY <1>2 DEF Src!IngestSourceRunResult
  <1>4. /\ d \in Src!ScrapeRecords /\ Src!ScrapeSound(d) /\ d.outcome # "running"
        /\ d.source = c.source /\ d.agent = c.agent /\ d.proc = c.proc /\ d.result = c.result
    <2> HIDE DEF c
    <2> QED BY <1>1, IngestedIs DEF c
  <1> HIDE DEF d
  <1>5. /\ scrapes \in Seq(Src!ScrapeRecords) /\ DOMAIN scrapes = DOMAIN S.scrapes
        /\ \A j \in DOMAIN S.scrapes : scrapes[j] = IF j = i THEN d ELSE S.scrapes[j]
    BY <1>1, <1>4, Changed
  <1>6. /\ T \in Src!States /\ T.scrapes = scrapes /\ T.leads = F.leads /\ SameMemory(S, T)
    <2> HIDE DEF F, scrapes
    <2> QED BY <1>2, <1>5 DEF Src!States, SameMemory
  <1>7. ASSUME NEW l \in c.result, c.agent = "done", c.result # Src!Rejected
        PROVE  F.leads[l] > 0
    <2>1. l \in Src!FindsOf(c)
      BY <1>7 DEF Src!FindsOf
    <2>2. l \in Links
      BY <1>1, <1>7 DEF Src!ScrapeRecords, Src!Results
    <2> QED BY <1>2, <2>1, <2>2
  <1> HIDE DEF T, F, scrapes
  <1>8. \A j \in DOMAIN S.scrapes : Src!ScrapeSound(S.scrapes[j])
    BY DEF Src!Sound
  <1>9. Src!Sound(T)
    BY <1>2, <1>4, <1>5, <1>6, <1>8, Rewritten DEF SameMemory
  <1>10. Carries(S, T)
    BY <1>2, <1>4, <1>5, <1>6, <1>7 DEF Carries
  <1> QED BY <1>3, <1>6, <1>9, <1>10

\* The laptop delivers, or gives up.
LEMMA RunnerReportsStep ==
  ASSUME Src!SourcesInv, NEW i \in DOMAIN v2.scrapes, Src!RunnerReports(i)
  PROVE  Src!SourcesInv' /\ Src!ClosesWithFinds
  <1>1. PICK agent \in {"done", "failed"}, result \in Src!Results :
          Src!Becomes(Src!IngestSourceRunResult(Src!Settled(i, agent, result), i))
    <2>1. {} \in Src!Results
      BY DEF Src!Results
    <2> QED BY <2>1 DEF Src!RunnerReports
  <1> DEFINE U == Src!Settled(i, agent, result)
             T == Src!IngestSourceRunResult(U, i)
  <1>2. v2.scrapes[i].agent \in Src!Waiting /\ agent \in Src!RowEnds
    BY DEF Src!RunnerReports, Src!Waiting, Src!RowEnds
  <1>3. /\ v1 = "runner" /\ Src!Sound(U) /\ Counted(U) /\ Busy(U) /\ SameMemory(v2, U)
        /\ DOMAIN U.scrapes = DOMAIN v2.scrapes /\ U.scrapes[i].agent = agent
        /\ \A j \in DOMAIN v2.scrapes : U.scrapes[j].outcome = v2.scrapes[j].outcome
    <2> HIDE DEF U
    <2> QED BY <1>2, RowMoves DEF U
  <1>4. Src!Becomes(T) /\ PanelSlots \in Nat
    BY <1>1, SourcesBefore
  <1> HIDE DEF U
  <1>5. Src!Sound(T) /\ Carries(U, T) /\ SameMemory(U, T)
    BY <1>2, <1>3, IngestedOne
  <1> HIDE DEF T
  <1>6. Counted(T) /\ T.queue = U.queue /\ U.pending <= T.pending
    BY <1>3, <1>5 DEF Counted, SameMemory, Src!FromQueue, Src!Sound, Src!States
  <1>7. Busy(T) /\ Closes(v2, T)
    BY <1>3, <1>4, <1>5, <1>6, BusyKept, CarriedCloses
  <1> QED BY <1>3, <1>4, <1>5, <1>6, <1>7, SourcesArrive DEF Arrives

\* A restart forgets the queue, the slots and the reads, and the processes are gone.
LEMMA ForgottenIs ==
  ASSUME NEW S, Src!Sound(S), NEW T, T = Src!Forgotten(S)
  PROVE  /\ Src!Sound(T) /\ Counted(T) /\ Busy(T) /\ DOMAIN T.scrapes = DOMAIN S.scrapes
         /\ \A i \in DOMAIN S.scrapes : T.scrapes[i].outcome = S.scrapes[i].outcome
  <1> DEFINE Gone(c) == [c EXCEPT !.agent = "gone", !.proc = FALSE]
             scrapes == [i \in DOMAIN S.scrapes |->
                           IF S.scrapes[i].proc THEN Gone(S.scrapes[i]) ELSE S.scrapes[i]]
  <1>1. /\ S \in Src!States /\ S.scrapes \in Seq(Src!ScrapeRecords)
        /\ \A i \in DOMAIN S.scrapes : S.scrapes[i] \in Src!ScrapeRecords /\ Src!ScrapeSound(S.scrapes[i])
    BY DEF Src!Sound, Src!States
  <1>2. T = [S EXCEPT !.queue = <<>>, !.pending = 0, !.reads = <<>>, !.scrapes = scrapes]
    BY DEF Src!Forgotten
  <1>3. ASSUME NEW c \in Src!ScrapeRecords, Src!ScrapeSound(c), c.proc
        PROVE  /\ Gone(c) \in Src!ScrapeRecords /\ Src!ScrapeSound(Gone(c))
               /\ Gone(c).source = c.source /\ Gone(c).outcome = c.outcome
    <2>1. v1 = "local" /\ c.agent \in {"running", "stopped"}
      BY <1>3 DEF Src!ScrapeSound
    <2>2. /\ Gone(c) \in Src!ScrapeRecords /\ Gone(c).source = c.source
          /\ Gone(c).outcome = c.outcome /\ Gone(c).agent = "gone" /\ ~Gone(c).proc
          /\ Gone(c).result = c.result
      BY <1>3, <2>1 DEF Src!ScrapeRecords, Src!AgentStates
    <2> HIDE DEF Gone
    <2> QED BY <1>3, <2>1, <2>2 DEF Src!ScrapeSound, Src!TellsOutcome
  <1>4. ASSUME NEW i \in DOMAIN S.scrapes
        PROVE  /\ scrapes[i] \in Src!ScrapeRecords /\ Src!ScrapeSound(scrapes[i])
               /\ scrapes[i].source = S.scrapes[i].source /\ scrapes[i].outcome = S.scrapes[i].outcome
    <2> HIDE DEF Gone
    <2> QED BY <1>1, <1>3
  <1>5. scrapes \in Seq(Src!ScrapeRecords) /\ DOMAIN scrapes = DOMAIN S.scrapes
    <2>1. scrapes = [i \in DOMAIN S.scrapes |-> scrapes[i]]
      OBVIOUS
    <2> HIDE DEF scrapes
    <2> QED BY <1>1, <1>4, <2>1, Mapped
  <1> HIDE DEF scrapes
  <1>6. /\ T \in Src!States /\ T.scrapes = scrapes /\ T.leads = S.leads /\ T.queue = <<>>
        /\ T.pending = 0 /\ T.reads = <<>>
    <2>1. <<>> \in Seq(Sources) /\ <<>> \in Seq(Src!ReadRecords) /\ 0 \in Int
      OBVIOUS
    <2>2. T = [scrapes |-> scrapes, leads |-> S.leads, queue |-> <<>>, pending |-> 0, reads |-> <<>>]
      BY <1>1, <1>2 DEF Src!States
    <2>3. S.leads \in [Links -> Nat]
      BY <1>1 DEF Src!States
    <2> QED BY <1>5, <2>1, <2>2, <2>3 DEF Src!States
  <1>7. Src!OneRunning(T) /\ Src!FinalizesEnded(T)
    BY <1>4, <1>5, <1>6 DEF Src!OneRunning, Src!FinalizesEnded, Src!Sound
  <1>8. Src!Sound(T)
    BY <1>4, <1>5, <1>6, <1>7 DEF Src!Sound
  <1>9. Counted(T)
    <2>1. {n \in DOMAIN T.reads : T.reads[n].fromQueue} = {}
      BY <1>6
    <2> QED BY <1>6, <2>1, SameSourceCount, FS_EmptySet DEF Counted, Src!FromQueue
  <1>10. Busy(T)
    BY <1>6 DEF Busy
  <1> QED BY <1>4, <1>5, <1>6, <1>8, <1>9, <1>10

\* The server dies, in the midst of an ingest or not.
LEMMA DeathStep ==
  ASSUME Src!SourcesInv,
         Src!Restart \/ \E i \in DOMAIN v2.scrapes : Src!DiesInIngest(i)
  PROVE  Src!SourcesInv' /\ Src!ClosesWithFinds
  <1>1. PICK S, T : /\ Src!Sound(S) /\ T = Src!Forgotten(S) /\ Src!Becomes(T)
                    /\ DOMAIN S.scrapes = DOMAIN v2.scrapes
                    /\ \A i \in DOMAIN v2.scrapes : S.scrapes[i].outcome = v2.scrapes[i].outcome
    <2>1. CASE Src!Restart
      BY <2>1, SourcesBefore DEF Src!Restart
    <2>2. CASE \E i \in DOMAIN v2.scrapes : Src!DiesInIngest(i)
      <3>1. PICK i \in DOMAIN v2.scrapes : Src!DiesInIngest(i)
        BY <2>2
      <3>2. PICK finds \in SUBSET Links, filed \in SUBSET Links :
              Src!Becomes(Src!Forgotten(Src!FileLeads(Src!Settled(i, "done", finds), filed)))
        BY <3>1 DEF Src!DiesInIngest
      <3> DEFINE U == Src!Settled(i, "done", finds)
                 F == Src!FileLeads(U, filed)
      <3>3. v2.scrapes[i].agent \in Src!Waiting /\ "done" \in Src!RowEnds /\ finds \in Src!Results
        BY <3>1 DEF Src!DiesInIngest, Src!Waiting, Src!RowEnds, Src!Results
      <3>4. /\ Src!Sound(U) /\ DOMAIN U.scrapes = DOMAIN v2.scrapes
            /\ \A j \in DOMAIN v2.scrapes : U.scrapes[j].outcome = v2.scrapes[j].outcome
        <4> HIDE DEF U
        <4> QED BY <3>3, RowMoves DEF U
      <3>5. Src!Becomes(Src!Forgotten(F))
        BY <3>2
      <3> HIDE DEF U
      <3>6. /\ F \in Src!States /\ F.scrapes = U.scrapes /\ F.reads = U.reads
            /\ \A l \in Links : F.leads[l] <= 1
        BY <3>4, LeadsFiled DEF Src!Sound
      <3> HIDE DEF F
      <3>7. Src!Sound(F)
        BY <3>4, <3>6 DEF Src!Sound, Src!OneRunning, Src!FinalizesEnded
      <3> QED BY <3>4, <3>5, <3>6, <3>7
    <2> QED BY <2>1, <2>2
  <1>2. /\ Src!Sound(T) /\ Counted(T) /\ Busy(T) /\ DOMAIN T.scrapes = DOMAIN S.scrapes
        /\ \A i \in DOMAIN S.scrapes : T.scrapes[i].outcome = S.scrapes[i].outcome
    BY <1>1, ForgottenIs
  <1>3. Closes(v2, T)
    BY <1>1, <1>2 DEF Closes
  <1> QED BY <1>1, <1>2, <1>3, SourcesBefore, SourcesArrive DEF Arrives

\* Half an hour passes.
LEMMA GetsOldStep ==
  ASSUME Src!SourcesInv, NEW i \in DOMAIN v2.scrapes, Src!GetsOld(i)
  PROVE  Src!SourcesInv' /\ Src!ClosesWithFinds
  <1> DEFINE c == v2.scrapes[i]
             d == [c EXCEPT !.old = TRUE]
             T == [v2 EXCEPT !.scrapes = [v2.scrapes EXCEPT ![i] = d]]
  <1>1. /\ v1 \in {"runner", "local"} /\ Src!Sound(v2) /\ Counted(v2) /\ Busy(v2) /\ PanelSlots \in Nat
        /\ c \in Src!ScrapeRecords /\ Src!ScrapeSound(c) /\ v2 \in Src!States
    BY SourcesBefore
  <1>2. Src!Becomes(T)
    BY DEF Src!GetsOld
  <1>3. /\ d \in Src!ScrapeRecords /\ d.agent = c.agent /\ d.result = c.result
        /\ d.source = c.source /\ d.outcome = c.outcome /\ d.proc = c.proc
    <2> HIDE DEF c
    <2> QED BY <1>1 DEF Src!ScrapeRecords
  <1> HIDE DEF d
  <1>4. Src!ScrapeSound(d)
    BY <1>1, <1>3 DEF Src!ScrapeSound, Src!TellsOutcome
  <1>5. /\ Src!Sound(T) /\ SameMemory(v2, T) /\ T.leads = v2.leads
        /\ DOMAIN T.scrapes = DOMAIN v2.scrapes
        /\ T.scrapes[i] = d /\ \A j \in DOMAIN v2.scrapes : j # i => T.scrapes[j] = v2.scrapes[j]
    BY <1>1, <1>3, <1>4, OneChanged
  <1> HIDE DEF T
  <1>6. Carries(v2, T)
    BY <1>3, <1>5 DEF Carries
  <1>7. Counted(T) /\ T.queue = v2.queue /\ v2.pending <= T.pending
    BY <1>1, <1>5 DEF Counted, SameMemory, Src!FromQueue, Src!States
  <1>8. Busy(T) /\ Closes(v2, T)
    BY <1>1, <1>5, <1>6, <1>7, BusyKept, CarriedCloses
  <1> QED BY <1>1, <1>2, <1>5, <1>7, <1>8, SourcesArrive DEF Arrives

\* A local process closes: its record is finalized after a read, its slot filled now.
LEMMA ProcClosesStep ==
  ASSUME Src!SourcesInv, NEW i \in DOMAIN v2.scrapes, NEW exit0 \in BOOLEAN, Src!ProcCloses(i, exit0)
  PROVE  Src!SourcesInv' /\ Src!ClosesWithFinds
  <1> DEFINE c == v2.scrapes[i]
             agent == IF c.agent = "stopped" THEN "stopped" ELSE IF exit0 THEN "done" ELSE "failed"
             d == [c EXCEPT !.agent = agent, !.proc = FALSE]
             Q == [v2 EXCEPT !.scrapes = [v2.scrapes EXCEPT ![i] = d]]
             r == Src!Read("finalize", i, FALSE)
             reads == Append(v2.reads, r)
             U == [Q EXCEPT !.reads = reads]
             T == Src!ProcessQueue(U)
  <1>1. /\ v1 \in {"runner", "local"} /\ Src!Sound(v2) /\ Counted(v2) /\ Busy(v2) /\ PanelSlots \in Nat
        /\ c \in Src!ScrapeRecords /\ Src!ScrapeSound(c) /\ v2 \in Src!States
        /\ v2.reads \in Seq(Src!ReadRecords) /\ v2.scrapes \in Seq(Src!ScrapeRecords)
    BY SourcesBefore
  <1>2. v1 = "local" /\ c.proc /\ c.agent \in {"running", "stopped"}
    BY <1>1 DEF Src!ProcCloses, Src!ScrapeSound
  <1>3. Src!Becomes(T)
    <2>1. U = [v2 EXCEPT !.scrapes[i].agent = agent, !.scrapes[i].proc = FALSE, !.reads = reads]
      BY <1>1 DEF Src!States
    <2> HIDE DEF U
    <2> QED BY <2>1 DEF Src!ProcCloses
  <1> HIDE DEF T
  <1>4. agent \in {"stopped", "done", "failed"}
    OBVIOUS
  <1> HIDE DEF agent
  <1>5. /\ d \in Src!ScrapeRecords /\ d.agent = agent /\ d.result = c.result
        /\ d.source = c.source /\ d.outcome = c.outcome /\ ~d.proc
    <2> HIDE DEF c
    <2> QED BY <1>1, <1>2, <1>4 DEF Src!ScrapeRecords, Src!AgentStates
  <1> HIDE DEF d
  <1>6. Src!ScrapeSound(d)
    BY <1>1, <1>2, <1>5 DEF Src!ScrapeSound, Src!TellsOutcome
  <1>7. /\ Src!Sound(Q) /\ SameMemory(v2, Q) /\ Q.leads = v2.leads
        /\ DOMAIN Q.scrapes = DOMAIN v2.scrapes
        /\ Q.scrapes[i] = d /\ \A j \in DOMAIN v2.scrapes : j # i => Q.scrapes[j] = v2.scrapes[j]
    BY <1>1, <1>2, <1>5, <1>6, OneChanged
  <1> HIDE DEF Q
  <1>8. r \in Src!ReadRecords /\ r.op = "finalize" /\ r.what = i /\ ~r.fromQueue
    BY <1>1 DEF Src!Read, Src!ReadRecords
  <1> HIDE DEF r
  <1>9. /\ reads \in Seq(Src!ReadRecords) /\ DOMAIN reads = DOMAIN v2.reads \cup {Len(v2.reads) + 1}
        /\ reads[Len(v2.reads) + 1] = r /\ \A n \in DOMAIN v2.reads : reads[n] = v2.reads[n]
    BY <1>1, <1>8, Appended
  <1>10. /\ U \in Src!States /\ U.reads = reads /\ U.scrapes = Q.scrapes /\ U.leads = Q.leads
         /\ U.queue = Q.queue /\ U.pending = Q.pending
    <2> HIDE DEF reads
    <2> QED BY <1>7, <1>9 DEF Src!States, Src!Sound
  <1> HIDE DEF U
  <1>11. Src!FromQueue(U) = Src!FromQueue(v2) + 0 /\ Src!FromQueue(v2) \in Nat
    BY <1>1, <1>8, <1>10, ReadStarts
  <1> HIDE DEF reads
  <1>12. Src!FinalizesEnded(U)
    <2>1. \A n \in DOMAIN v2.reads : Q.reads[n] = v2.reads[n]
      BY <1>7 DEF SameMemory
    <2>2. Src!FinalizesEnded(Q) /\ DOMAIN Q.reads = DOMAIN v2.reads
      BY <1>7 DEF Src!Sound, SameMemory
    <2> QED BY <1>2, <1>4, <1>5, <1>7, <1>8, <1>9, <1>10, <2>1, <2>2 DEF Src!FinalizesEnded
  <1>13. Src!Sound(U) /\ Counted(U)
    BY <1>1, <1>7, <1>10, <1>11, <1>12 DEF Src!Sound, Src!OneRunning, Counted, SameMemory
  <1>14. Src!Sound(T) /\ Counted(T) /\ Carries(U, T) /\ (T.queue = <<>> \/ Full(T))
    BY <1>1, <1>13, Drained DEF T
  <1>15. Closes(v2, T) /\ Busy(T)
    <2>1. \A j \in DOMAIN v2.scrapes : U.scrapes[j].outcome = v2.scrapes[j].outcome
      BY <1>5, <1>7, <1>10
    <2>2. DOMAIN v2.scrapes \subseteq DOMAIN U.scrapes
      BY <1>7, <1>10
    <2> QED BY <1>14, <2>1, <2>2, CarriedCloses DEF Busy
  <1> QED BY <1>1, <1>3, <1>14, <1>15, SourcesArrive DEF Arrives

\* A read is taken from those under way.
LEMMA ReadDropped ==
  ASSUME Src!SourcesInv, NEW n \in DOMAIN v2.reads, NEW reads, reads = Src!RemoveAt(v2.reads, n)
  PROVE  LET S == [v2 EXCEPT !.reads = reads] IN
         /\ v2.reads[n] \in Src!ReadRecords /\ Src!Sound(S) /\ Carries(v2, S)
         /\ S.scrapes = v2.scrapes /\ S.leads = v2.leads /\ S.queue = v2.queue /\ S.pending = v2.pending
         /\ Src!FromQueue(v2) \in Nat
         /\ Src!FromQueue(S) = Src!FromQueue(v2) - IF v2.reads[n].fromQueue THEN 1 ELSE 0
  <1> DEFINE S == [v2 EXCEPT !.reads = reads]
  <1>1. /\ Src!Sound(v2) /\ v2 \in Src!States /\ v2.reads \in Seq(Src!ReadRecords)
    BY SourcesBefore
  <1>2. /\ S.reads = reads /\ S.scrapes = v2.scrapes /\ S.leads = v2.leads
        /\ S.queue = v2.queue /\ S.pending = v2.pending
    BY <1>1 DEF Src!States
  <1>3. S.reads \in Seq(Src!ReadRecords) => S \in Src!States
    BY <1>1, <1>2 DEF Src!States
  <1> HIDE DEF S
  <1>4. S.reads = Src!RemoveAt(v2.reads, n)
    BY <1>2
  <1>5. /\ S.reads \in Seq(Src!ReadRecords) /\ Src!FromQueue(v2) \in Nat
        /\ Src!FromQueue(S) = Src!FromQueue(v2) - IF v2.reads[n].fromQueue THEN 1 ELSE 0
        /\ \A k \in DOMAIN S.reads : \E m \in DOMAIN v2.reads : S.reads[k] = v2.reads[m]
    BY SMTT(30), <1>1, <1>4, ReadReturns
  <1>6. S \in Src!States
    BY <1>3, <1>5
  <1>7. Src!FinalizesEnded(S)
    BY <1>1, <1>2, <1>5 DEF Src!FinalizesEnded, Src!Sound
  <1>8. Src!Sound(S) /\ Carries(v2, S)
    BY <1>1, <1>2, <1>6, <1>7, CarriesSelf DEF Src!Sound, Src!OneRunning
  <1>9. v2.reads[n] \in Src!ReadRecords
    BY <1>1
  <1> QED BY <1>2, <1>5, <1>8, <1>9 DEF S

\* A launch goes on, on registry and rows read afresh, and a slot given back is filled.
LEMMA LaunchReturns ==
  ASSUME Src!SourcesInv, NEW n \in DOMAIN v2.reads, v2.reads[n].op = "launch",
         NEW S, S = [v2 EXCEPT !.reads = Src!RemoveAt(v2.reads, n)],
         LET T == Src!LaunchTail(S, v2.reads[n].what) IN
         Src!Becomes(IF v2.reads[n].fromQueue THEN Src!AfterLaunch(T) ELSE T)
  PROVE  Src!SourcesInv' /\ Src!ClosesWithFinds
  <1> DEFINE r == v2.reads[n]
             P == Src!LaunchTail(S, r.what)
  <1>1. /\ v1 \in {"runner", "local"} /\ Src!Sound(v2) /\ Counted(v2) /\ Busy(v2) /\ PanelSlots \in Nat
        /\ v2 \in Src!States /\ v2.reads \in Seq(Src!ReadRecords)
    BY SourcesBefore
  <1>2. /\ r \in Src!ReadRecords /\ Src!Sound(S) /\ Carries(v2, S)
        /\ S.scrapes = v2.scrapes /\ S.leads = v2.leads /\ S.queue = v2.queue /\ S.pending = v2.pending
        /\ Src!FromQueue(v2) \in Nat
        /\ Src!FromQueue(S) = Src!FromQueue(v2) - IF r.fromQueue THEN 1 ELSE 0
    BY ReadDropped
  <1>3. r.what \in Sources /\ r.fromQueue \in BOOLEAN
    BY <1>2 DEF Src!ReadRecords
  <1>9. /\ Src!Sound(P) /\ Carries(S, P) /\ SameMemory(S, P)
    BY <1>1, <1>2, <1>3, Launched
  <1>10. Src!Becomes(IF r.fromQueue THEN Src!AfterLaunch(P) ELSE P)
    OBVIOUS
  <1> HIDE DEF P, r
  <1>11. Carries(v2, P) /\ P.queue = v2.queue /\ P.pending = v2.pending
    BY <1>1, <1>2, <1>9, CarriesOn DEF SameMemory
  <1>12. P \in Src!States /\ v2.pending \in Int /\ v2.pending = Src!FromQueue(v2)
         /\ Src!FromQueue(P) = Src!FromQueue(S)
    BY <1>1, <1>9 DEF Src!Sound, Src!States, Counted, SameMemory, Src!FromQueue
  <1>13. CASE r.fromQueue
    <2> DEFINE pending == P.pending - 1
               U == [P EXCEPT !.pending = pending]
               T == Src!ProcessQueue(U)
    <2>1. pending \in Int
      BY <1>11, <1>12
    <2>2. Src!Becomes(T)
      BY <1>10, <1>13 DEF Src!AfterLaunch
    <2>3. pending = Src!FromQueue(P)
      BY <1>2, <1>11, <1>12, <1>13
    <2> HIDE DEF pending
    <2>4. /\ U \in Src!States /\ U.pending = pending /\ U.scrapes = P.scrapes /\ U.leads = P.leads
          /\ U.queue = P.queue /\ U.reads = P.reads
      BY <1>12, <2>1 DEF Src!States
    <2> HIDE DEF U
    <2>5. Src!Sound(U) /\ Counted(U)
      BY <1>9, <2>3, <2>4 DEF Src!Sound, Src!OneRunning, Src!FinalizesEnded, Counted, Src!FromQueue
    <2>6. Src!Sound(T) /\ Counted(T) /\ Carries(U, T) /\ (T.queue = <<>> \/ Full(T))
      BY <1>1, <2>5, Drained
    <2> HIDE DEF T
    <2>7. Carries(v2, U)
      BY <1>1, <1>11, <2>4, CarriesSelf, CarriesOn
    <2>8. Carries(v2, T)
      BY <1>1, <2>6, <2>7, CarriesOn
    <2>9. Closes(v2, T) /\ Busy(T)
      BY <2>6, <2>8, CarriedCloses DEF Busy
    <2> QED BY <1>1, <2>2, <2>6, <2>9, SourcesArrive DEF Arrives
  <1>14. CASE ~r.fromQueue
    <2>1. Counted(P)
      BY <1>2, <1>11, <1>12, <1>14 DEF Counted
    <2>2. v2.pending <= P.pending
      BY <1>11, <1>12
    <2>3. Busy(P) /\ Closes(v2, P)
      BY <1>1, <1>9, <1>11, <2>2, BusyKept, CarriedCloses
    <2> QED BY <1>1, <1>9, <1>10, <1>14, <2>1, <2>3, SourcesArrive DEF Arrives
  <1> QED BY <1>13, <1>14

\* A fan-out, or a close, goes on.
LEMMA OtherReturns ==
  ASSUME Src!SourcesInv, NEW n \in DOMAIN v2.reads, v2.reads[n].op # "launch",
         NEW S, S = [v2 EXCEPT !.reads = Src!RemoveAt(v2.reads, n)]
  PROVE  /\ v2.reads[n] \in Src!ReadRecords /\ Src!Sound(S) /\ Counted(S) /\ Busy(S)
         /\ S.scrapes = v2.scrapes /\ S.leads = v2.leads /\ S.queue = v2.queue /\ S.pending = v2.pending
         /\ Carries(v2, S)
  <1> DEFINE r == v2.reads[n]
  <1>1. /\ Src!Sound(v2) /\ Counted(v2) /\ Busy(v2)
    BY SourcesBefore
  <1>2. /\ r \in Src!ReadRecords /\ Src!Sound(S) /\ Carries(v2, S)
        /\ S.scrapes = v2.scrapes /\ S.leads = v2.leads /\ S.queue = v2.queue /\ S.pending = v2.pending
        /\ Src!FromQueue(v2) \in Nat
        /\ Src!FromQueue(S) = Src!FromQueue(v2) - IF r.fromQueue THEN 1 ELSE 0
    BY ReadDropped
  <1>3. ~r.fromQueue
    BY <1>2 DEF Src!ReadRecords
  <1>4. Counted(S) /\ Busy(S)
    BY <1>1, <1>2, <1>3 DEF Counted, Busy, Full, Src!RunningCount
  <1> QED BY <1>2, <1>4

\* A workbook read returns.
LEMMA DiscoveryReadStep ==
  ASSUME Src!SourcesInv, NEW n \in DOMAIN v2.reads, Src!DiscoveryRead(n)
  PROVE  Src!SourcesInv' /\ Src!ClosesWithFinds
  <1> DEFINE r == v2.reads[n]
             S == [v2 EXCEPT !.reads = Src!RemoveAt(v2.reads, n)]
  <1>1. /\ v1 \in {"runner", "local"} /\ PanelSlots \in Nat
    BY SourcesBefore
  <1>2. CASE /\ r.op = "launch"
             /\ LET T == Src!LaunchTail(S, r.what) IN
                Src!Becomes(IF r.fromQueue THEN Src!AfterLaunch(T) ELSE T)
    <2> HIDE DEF S
    <2> QED BY <1>2, LaunchReturns DEF S
  <1>3. CASE /\ r.op = "fan-out"
             /\ \E order \in Src!SetToSeqs(r.what \ Src!ToSet(S.queue)) : Src!Becomes(Src!FanOut(S, order))
    <2>1. /\ r \in Src!ReadRecords /\ Src!Sound(S) /\ Counted(S) /\ Carries(v2, S)
      <3> HIDE DEF S
      <3> QED BY <1>3, OtherReturns DEF S
    <2>2. r.what \ Src!ToSet(S.queue) \in SUBSET Sources
      <3>1. r.what \in SUBSET Sources
        BY <1>3, <2>1 DEF Src!ReadRecords
      <3> QED BY <3>1
    <2> HIDE DEF S, r
    <2>3. PICK order \in Src!SetToSeqs(r.what \ Src!ToSet(S.queue)) : Src!Becomes(Src!FanOut(S, order))
      BY <1>3
    <2>4. order \in Seq(Sources)
      BY <2>2, <2>3, OrderOfSources
    <2> DEFINE T == Src!FanOut(S, order)
    <2>5. Src!Sound(T) /\ Counted(T) /\ Carries(S, T) /\ Busy(T)
      BY <1>1, <2>1, <2>4, FannedOut
    <2>6. Src!Becomes(T)
      BY <2>3
    <2> HIDE DEF T
    <2>7. Carries(v2, T)
      BY <2>1, <2>5, CarriesOn, SourcesBefore
    <2>8. Closes(v2, T)
      BY <2>7, CarriedCloses
    <2> QED BY <1>1, <2>5, <2>6, <2>8, SourcesArrive DEF Arrives
  <1>4. CASE /\ r.op = "finalize"
             /\ Src!Becomes([S EXCEPT !.scrapes[r.what] =
                               Src!FinalizeRunRecord(@, Src!OutcomeOf(@.agent), "none")])
    <2>1. /\ r \in Src!ReadRecords /\ Src!Sound(S) /\ Counted(S) /\ Busy(S) /\ Carries(v2, S)
          /\ S.scrapes = v2.scrapes
      <3> HIDE DEF S
      <3> QED BY <1>4, OtherReturns DEF S
    <2> DEFINE i == r.what
               c == S.scrapes[i]
               d == Src!FinalizeRunRecord(c, Src!OutcomeOf(c.agent), "none")
               T == [S EXCEPT !.scrapes = [S.scrapes EXCEPT ![i] = d]]
    <2>2. Src!Becomes(T)
      BY SMTT(30), <1>4
    <2>3. /\ v1 = "local" /\ i \in DOMAIN S.scrapes /\ ~c.proc /\ c.agent \in {"done", "failed", "stopped"}
      <3>1. Src!FinalizesEnded(v2)
        BY SourcesBefore DEF Src!Sound
      <3> HIDE DEF S
      <3> QED BY <1>4, <2>1, <3>1 DEF Src!FinalizesEnded
    <2> HIDE DEF S, r
    <2>4. c \in Src!ScrapeRecords /\ Src!ScrapeSound(c)
      BY <2>1, <2>3 DEF Src!Sound, Src!States
    <2> HIDE DEF i
    <2>5. Src!OutcomeOf(c.agent) \in Src!Outcomes
      BY DEF Src!OutcomeOf, Src!Outcomes
    <2>6. /\ d \in Src!ScrapeRecords /\ d.outcome = Src!OutcomeOf(c.agent)
          /\ d.source = c.source /\ d.agent = c.agent /\ d.proc = c.proc /\ d.result = c.result
      <3> HIDE DEF c
      <3> QED BY <2>4, <2>5, Finalized
    <2> HIDE DEF d
    <2>7. c.result = {} /\ {} # Src!Rejected
      BY <2>3, <2>4 DEF Src!ScrapeSound, Src!Rejected
    <2>8. Src!ScrapeSound(d) /\ d.outcome # "running"
      <3>1. d.outcome # "running"
        BY <2>6 DEF Src!OutcomeOf
      <3>2. Src!TellsOutcome(d)
        BY <2>3, <2>6, <2>7 DEF Src!OutcomeOf, Src!TellsOutcome
      <3> QED BY <2>3, <2>4, <2>6, <2>7, <3>1, <3>2 DEF Src!ScrapeSound
    <2>9. /\ Src!Sound(T) /\ SameMemory(S, T) /\ T.leads = S.leads
          /\ DOMAIN T.scrapes = DOMAIN S.scrapes
          /\ T.scrapes[i] = d /\ \A j \in DOMAIN S.scrapes : j # i => T.scrapes[j] = S.scrapes[j]
      BY <2>1, <2>3, <2>6, <2>8, OneChanged
    <2> HIDE DEF T
    <2>10. Carries(S, T)
      BY <2>6, <2>7, <2>8, <2>9 DEF Carries
    <2>11. Counted(T) /\ T.queue = S.queue /\ S.pending <= T.pending
      BY <2>1, <2>9 DEF Counted, SameMemory, Src!FromQueue, Src!Sound, Src!States
    <2>12. Carries(v2, T)
      BY <2>1, <2>10, CarriesOn, SourcesBefore
    <2>13. Busy(T) /\ Closes(v2, T)
      BY <1>1, <2>1, <2>9, <2>10, <2>11, <2>12, BusyKept, CarriedCloses
    <2> QED BY <1>1, <2>2, <2>9, <2>11, <2>13, SourcesArrive DEF Arrives
  <1> QED BY <1>2, <1>3, <1>4 DEF Src!DiscoveryRead

-----------------------------------------------------------------------------
\* The registry starts empty.
LEMMA SourcesStart ==
  ASSUME Src!Init
  PROVE  Src!SourcesInv
  <1>1. v1 \in {"runner", "local"}
    BY RunsAssumption DEF Src!Init
  <1>2. /\ v2.scrapes = <<>> /\ v2.leads = [l \in Links |-> 0] /\ v2.queue = <<>>
        /\ v2.pending = 0 /\ v2.reads = <<>>
    BY DEF Src!Init
  <1>3. v2 \in Src!States
    <2>1. /\ <<>> \in Seq(Src!ScrapeRecords) /\ <<>> \in Seq(Sources) /\ <<>> \in Seq(Src!ReadRecords)
          /\ [l \in Links |-> 0] \in [Links -> Nat] /\ 0 \in Int
      OBVIOUS
    <2> QED BY <2>1 DEF Src!Init, Src!States
  <1>4. Src!Sound(v2)
    BY <1>2, <1>3 DEF Src!Sound, Src!OneRunning, Src!FinalizesEnded
  <1>5. v2.pending = Src!FromQueue(v2)
    <2>1. {n \in DOMAIN v2.reads : v2.reads[n].fromQueue} = {}
      BY <1>2
    <2> QED BY <1>2, <2>1, SameSourceCount, FS_EmptySet DEF Src!FromQueue
  <1>6. Src!NoIdleSlot
    BY <1>2 DEF Src!NoIdleSlot
  <1> QED BY <1>1, <1>4, <1>5, <1>6 DEF Src!SourcesInv

\* Every step of the sources keeps the invariant and loses no finds.
LEMMA SourcesStep ==
  ASSUME Src!SourcesInv, Src!Next
  PROVE  Src!SourcesInv' /\ Src!ClosesWithFinds
  <1>1. CASE Src!Owner
    <2>1. CASE \E s \in Sources : Src!PostSourceRun(s)
      BY <2>1, PostSourceRunStep
    <2>2. CASE \E due \in SUBSET Sources : Src!RunAllDue(due)
      BY <2>2, RunAllDueStep
    <2>3. CASE Src!GetSources \/ Src!PollRun
      BY <2>3, SweepStep
    <2>4. CASE \E i \in DOMAIN v2.scrapes : Src!StopRun(i)
      BY <2>4, StopRunStep
    <2> QED BY <1>1, <2>1, <2>2, <2>3, <2>4 DEF Src!Owner
  <1>2. CASE Src!Agents
    <2>1. PICK i \in DOMAIN v2.scrapes :
            \/ Src!RunnerClaims(i) \/ Src!LeaseSwept(i) \/ Src!RunnerReports(i) \/ Src!DiesInIngest(i)
            \/ \E exit0 \in BOOLEAN : Src!ProcCloses(i, exit0)
      BY <1>2 DEF Src!Agents
    <2>2. CASE Src!RunnerClaims(i) \/ Src!LeaseSwept(i)
      BY <2>2, RowStep
    <2>3. CASE Src!RunnerReports(i)
      BY <2>3, RunnerReportsStep
    <2>4. CASE Src!DiesInIngest(i)
      BY <2>4, DeathStep
    <2>5. CASE \E exit0 \in BOOLEAN : Src!ProcCloses(i, exit0)
      BY <2>5, ProcClosesStep
    <2> QED BY <2>1, <2>2, <2>3, <2>4, <2>5
  <1>3. CASE Src!Restart
    BY <1>3, DeathStep
  <1>4. CASE \E n \in DOMAIN v2.reads : Src!DiscoveryRead(n)
    BY <1>4, DiscoveryReadStep
  <1>5. CASE \E i \in DOMAIN v2.scrapes : Src!GetsOld(i)
    BY <1>5, GetsOldStep
  <1> QED BY <1>1, <1>2, <1>3, <1>4, <1>5 DEF Src!Next

\* What the invariant says of a source: one running record, leads filed once, and records
\* that tell what became of their agents.
LEMMA SourcesHold ==
  ASSUME Src!SourcesInv
  PROVE  /\ Src!OneRunningRecord /\ Src!NoIdleSlot /\ Src!LeadFiledOnce
         /\ Src!RecordTellsOutcome /\ Src!SourceTypeOK
  <1>1. /\ v2 \in Src!States /\ v2.scrapes \in Seq(Src!ScrapeRecords) /\ v2.queue \in Seq(Sources)
        /\ Src!Sound(v2)
    BY SourcesBefore
  <1>2. Src!OneRunningRecord
    <2> SUFFICES ASSUME NEW s \in Sources
                 PROVE  Src!Cardinality({i \in DOMAIN v2.scrapes :
                          v2.scrapes[i].source = s /\ v2.scrapes[i].outcome = "running"}) <= 1
      BY DEF Src!OneRunningRecord
    <2> DEFINE A == {i \in DOMAIN v2.scrapes :
                       v2.scrapes[i].source = s /\ v2.scrapes[i].outcome = "running"}
    <2>1. \A i, j \in A : i = j
      BY <1>1 DEF Src!Sound, Src!OneRunning
    <2> HIDE DEF A
    <2>2. CASE A = {}
      BY <2>2, FS_EmptySet, SameSourceCount DEF A
    <2>3. CASE A # {}
      <3>1. PICK i : A = {i}
        BY <2>1, <2>3
      <3> QED BY <3>1, FS_Singleton, SameSourceCount DEF A
    <2> QED BY <2>2, <2>3
  <1>3. Src!LeadFiledOnce /\ Src!RecordTellsOutcome
    BY <1>1 DEF Src!Sound, Src!LeadFiledOnce, Src!RecordTellsOutcome, Src!ScrapeSound
  <1>4. Src!SourceTypeOK
    BY <1>1 DEF Src!SourceTypeOK, Src!SourcesInv, Src!States
  <1> QED BY <1>2, <1>3, <1>4 DEF Src!SourcesInv

-----------------------------------------------------------------------------
(***************************************************************************)
(* RunPanel: v1 is the panel, v2 the rows that a run was created for.      *)
(***************************************************************************)
\* A run closes with an exit code 0, or its process ends with it after a stop.
ClosedWell(before, after) ==
  \/ before.status = "running" /\ after.status = "done"
  \/ before.proc /\ ~after.proc /\ after.status \in {"done", "stopped"}

\* Of the runs D, one of a routine on a job closes between S and T.
ClosesOn(D, S, T, routine, job) ==
  \E i \in D : /\ S.runs[i].routine = routine /\ S.runs[i].job = job
               /\ ClosedWell(S.runs[i], T.runs[i])

\* A job's status stays, or moves forward on the evidence of a run.
Moves(D, S, T, job) ==
  LET before == S.jobs[job].status after == T.jobs[job].status IN
  \/ after = before
  \/ /\ before \in {"lead", "queued"} /\ after = "drafted" /\ T.jobs[job].materials = "good"
     /\ ClosesOn(D, S, T, "first-draft-job", job)
  \/ /\ before \in {"lead", "queued", "drafted"} /\ after = "ready"
     /\ T.jobs[job].materials = "good" /\ ClosesOn(D, S, T, "finalize-job", job)

\* T comes after S in one step: runs and rows are added, a run that is closed stays so, and
\* no job moves without the evidence of one of the runs D.
Evolves(D, S, T) ==
  /\ DOMAIN S.runs \subseteq DOMAIN T.runs /\ DOMAIN S.rows \subseteq DOMAIN T.rows
  /\ \A i \in DOMAIN S.runs :
       /\ T.runs[i].routine = S.runs[i].routine /\ T.runs[i].job = S.runs[i].job
       /\ S.runs[i].status # "running" => T.runs[i].status = S.runs[i].status
       /\ T.runs[i].proc => S.runs[i].proc
  /\ \A job \in PanelJobs : T.jobs[job].materials = S.jobs[job].materials /\ Moves(D, S, T, job)

\* Rows are added, or items.
LEMMA EvolvesSelf ==
  ASSUME NEW D, NEW S, NEW T, T.runs = S.runs, DOMAIN S.rows \subseteq DOMAIN T.rows, T.jobs = S.jobs
  PROVE  Evolves(D, S, T)
  BY DEF Evolves, Moves

\* One after the other.
LEMMA EvolvesOn ==
  ASSUME NEW S, NEW D \in SUBSET DOMAIN S.runs, NEW Q, NEW T, Evolves(D, S, Q), Evolves(D, Q, T)
  PROVE  Evolves(D, S, T)
  <1>1. \A i \in DOMAIN S.runs :
          /\ i \in DOMAIN Q.runs
          /\ Q.runs[i].routine = S.runs[i].routine /\ Q.runs[i].job = S.runs[i].job
          /\ T.runs[i].routine = Q.runs[i].routine /\ T.runs[i].job = Q.runs[i].job
          /\ S.runs[i].status # "running" => Q.runs[i].status = S.runs[i].status
          /\ Q.runs[i].status # "running" => T.runs[i].status = Q.runs[i].status
          /\ Q.runs[i].proc => S.runs[i].proc
          /\ T.runs[i].proc => Q.runs[i].proc
    BY DEF Evolves
  <1>2. ASSUME NEW i \in DOMAIN S.runs,
               ClosedWell(S.runs[i], Q.runs[i]) \/ ClosedWell(Q.runs[i], T.runs[i])
        PROVE  ClosedWell(S.runs[i], T.runs[i])
    BY <1>1, <1>2 DEF ClosedWell
  <1>3. ASSUME NEW routine, NEW job,
               ClosesOn(D, S, Q, routine, job) \/ ClosesOn(D, Q, T, routine, job)
        PROVE  ClosesOn(D, S, T, routine, job)
    BY <1>1, <1>2, <1>3 DEF ClosesOn
  <1>4. ASSUME NEW job \in PanelJobs
        PROVE  T.jobs[job].materials = S.jobs[job].materials /\ Moves(D, S, T, job)
    <2>1. /\ Q.jobs[job].materials = S.jobs[job].materials
          /\ T.jobs[job].materials = Q.jobs[job].materials
          /\ Moves(D, S, Q, job) /\ Moves(D, Q, T, job)
      BY DEF Evolves
    <2> QED BY <1>3, <2>1 DEF Moves
  <1>5. /\ DOMAIN S.runs \subseteq DOMAIN T.runs /\ DOMAIN S.rows \subseteq DOMAIN T.rows
        /\ \A i \in DOMAIN S.runs :
             /\ T.runs[i].routine = S.runs[i].routine /\ T.runs[i].job = S.runs[i].job
             /\ S.runs[i].status # "running" => T.runs[i].status = S.runs[i].status
             /\ T.runs[i].proc => S.runs[i].proc
    BY <1>1 DEF Evolves
  <1> QED BY <1>4, <1>5 DEF Evolves

\* FiniteSets is one module, here and in RunPanel.
LEMMA SamePanelCount == \A S : Panel!Cardinality(S) = Cardinality(S)
  BY DEF Panel!Cardinality, Cardinality

\* The constants are what the code makes of the environment.
LEMMA PanelConstants ==
  /\ Dispatch \in {"runner", "local"} /\ DraftGaps \subseteq {"older", "agent"}
  /\ PanelSlots \in Nat /\ PanelSlots > 0 /\ RowAttempts \in Nat /\ RowAttempts > 0
  /\ BatchSizes \subseteq Nat /\ IsFiniteSet(PanelJobs)
  /\ OwnerEdits \subseteq Panel!Statuses
  BY RunsAssumption DEF Panel!PanelAssumption

RunningAt(P) == {i \in DOMAIN P.runs : P.runs[i].status = "running"}

\* The running runs are a finite number, one more or fewer with each.
LEMMA RunsCounted ==
  ASSUME NEW P, NEW A, P.runs \in Seq(A)
  PROVE  /\ IsFiniteSet(RunningAt(P)) /\ Cardinality(RunningAt(P)) \in Nat
         /\ Panel!RunningCount(P) = Cardinality(RunningAt(P))
  <1>1. RunningAt(P) \in SUBSET DOMAIN P.runs
    BY DEF RunningAt
  <1>2. Panel!RunningCount(P) = Cardinality(RunningAt(P))
    BY SamePanelCount DEF Panel!RunningCount, RunningAt
  <1> QED BY <1>1, <1>2, PlacesFinite

\* Fewer runs run.
LEMMA RunningFewer ==
  ASSUME NEW P, NEW T, NEW A, P.runs \in Seq(A), T.runs \in Seq(A),
         RunningAt(T) \subseteq RunningAt(P)
  PROVE  /\ Panel!RunningCount(T) <= Panel!RunningCount(P)
         /\ Panel!RunningCount(T) \in Nat /\ Panel!RunningCount(P) \in Nat
  BY RunsCounted, FS_Subset

\* What is sound is in particular of its type.
LEMMA PanelTyped ==
  ASSUME NEW P, Panel!Sound(P)
  PROVE  /\ P \in Panel!States /\ P.runs \in Seq(Panel!RunRecords) /\ P.queue \in Seq(Panel!Items)
         /\ P.rows \in Seq(Panel!RowRecords) /\ P.jobs \in [PanelJobs -> Panel!JobRecords]
         /\ \A i \in DOMAIN P.runs : P.runs[i] \in Panel!RunRecords /\ Panel!RunSound(P.runs[i], P.rows)
         /\ \A k \in DOMAIN P.rows : P.rows[k] \in Panel!RowRecords
         /\ Panel!RunningCount(P) \in Nat /\ Panel!RunningCount(P) <= PanelSlots
  <1>1. /\ P \in Panel!States /\ P.runs \in Seq(Panel!RunRecords) /\ P.queue \in Seq(Panel!Items)
        /\ P.rows \in Seq(Panel!RowRecords) /\ P.jobs \in [PanelJobs -> Panel!JobRecords]
    BY DEF Panel!Sound, Panel!States
  <1>2. Panel!RunningCount(P) \in Nat /\ Panel!RunningCount(P) <= PanelSlots
    BY <1>1, RunsCounted DEF Panel!Sound
  <1>3. /\ \A i \in DOMAIN P.runs : P.runs[i] \in Panel!RunRecords /\ Panel!RunSound(P.runs[i], P.rows)
        /\ \A k \in DOMAIN P.rows : P.rows[k] \in Panel!RowRecords
    BY <1>1 DEF Panel!Sound
  <1> QED BY <1>1, <1>2, <1>3

\* A run is added, with its row if it has one, for what neither runs nor waits.
LEMMA RunAdded ==
  ASSUME NEW D, NEW P, Panel!Sound(P), Panel!RunningCount(P) < PanelSlots,
         NEW r \in Panel!RunRecords, NEW rows \in Seq(Panel!RowRecords),
         DOMAIN P.rows \subseteq DOMAIN rows, \A k \in DOMAIN P.rows : rows[k] = P.rows[k],
         \A k \in DOMAIN rows : rows[k].status = "queued" => rows[k].attempts < RowAttempts,
         Panel!RunSound(r, rows),
         \A i \in DOMAIN P.runs :
           ~(P.runs[i].status = "running" /\ P.runs[i].routine = r.routine /\ P.runs[i].job = r.job),
         \A n \in DOMAIN P.queue : P.queue[n] # [routine |-> r.routine, job |-> r.job]
  PROVE  LET T == [P EXCEPT !.rows = rows, !.runs = Append(P.runs, r)] IN
         /\ Panel!Sound(T) /\ Evolves(D, P, T) /\ T.queue = P.queue
         /\ \A i \in DOMAIN P.runs : T.runs[i] = P.runs[i]
  <1> DEFINE runs == Append(P.runs, r)
             last == Len(P.runs) + 1
             T == [P EXCEPT !.rows = rows, !.runs = runs]
  <1>1. /\ P \in Panel!States /\ P.runs \in Seq(Panel!RunRecords)
        /\ \A i \in DOMAIN P.runs : Panel!RunSound(P.runs[i], P.rows)
        /\ Panel!RunningCount(P) \in Nat /\ Panel!Unique(P)
    BY PanelTyped DEF Panel!Sound
  <1>2. /\ runs \in Seq(Panel!RunRecords) /\ DOMAIN runs = DOMAIN P.runs \cup {last}
        /\ last \notin DOMAIN P.runs /\ runs[last] = r
        /\ \A i \in DOMAIN P.runs : runs[i] = P.runs[i]
    BY <1>1, Appended
  <1> HIDE DEF runs, last
  <1>3. /\ T \in Panel!States /\ T.runs = runs /\ T.rows = rows /\ T.queue = P.queue /\ T.jobs = P.jobs
    BY <1>1, <1>2 DEF Panel!States
  <1> HIDE DEF T
  <1>4. \A i \in DOMAIN T.runs : Panel!RunSound(T.runs[i], T.rows)
    <2> SUFFICES ASSUME NEW i \in DOMAIN P.runs PROVE Panel!RunSound(P.runs[i], rows)
      BY <1>2, <1>3
    <2> QED BY <1>1 DEF Panel!RunSound
  <1>5. Panel!Unique(T)
    <2>1. \A i, j \in DOMAIN T.runs :
            /\ T.runs[i].status = "running" /\ T.runs[j].status = "running"
            /\ T.runs[i].routine = T.runs[j].routine /\ T.runs[i].job = T.runs[j].job
            => i = j
      <3> SUFFICES ASSUME NEW i \in DOMAIN T.runs, NEW j \in DOMAIN T.runs,
                          T.runs[i].status = "running", T.runs[j].status = "running",
                          T.runs[i].routine = T.runs[j].routine, T.runs[i].job = T.runs[j].job
                   PROVE  i = j
        OBVIOUS
      <3>1. CASE i \in DOMAIN P.runs /\ j \in DOMAIN P.runs
        <4>1. T.runs[i] = P.runs[i] /\ T.runs[j] = P.runs[j]
          BY <1>2, <1>3, <3>1
        <4> QED BY <1>1, <3>1, <4>1 DEF Panel!Unique
      <3>2. CASE i = last \/ j = last
        BY <1>2, <1>3, <3>2
      <3> QED BY <1>2, <1>3, <3>1, <3>2
    <2>2. \A i \in DOMAIN T.runs, n \in DOMAIN T.queue :
            T.runs[i].status = "running" =>
              T.queue[n] # [routine |-> T.runs[i].routine, job |-> T.runs[i].job]
      <3> SUFFICES ASSUME NEW i \in DOMAIN T.runs, NEW n \in DOMAIN P.queue, T.runs[i].status = "running"
                   PROVE  P.queue[n] # [routine |-> T.runs[i].routine, job |-> T.runs[i].job]
        BY <1>3
      <3>1. CASE i = last
        BY <1>2, <1>3, <3>1
      <3>2. CASE i # last
        <4>1. i \in DOMAIN P.runs /\ T.runs[i] = P.runs[i]
          BY <1>2, <1>3, <3>2
        <4> QED BY ZenonT(60), <1>1, <4>1 DEF Panel!Unique
      <3> QED BY <3>1, <3>2
    <2>3. \A m, n \in DOMAIN T.queue : T.queue[m] = T.queue[n] => m = n
      BY <1>1, <1>3 DEF Panel!Unique
    <2> QED BY <2>1, <2>2, <2>3 DEF Panel!Unique
  <1>6. Panel!RunningCount(T) <= PanelSlots
    <2>1. RunningAt(T) \subseteq RunningAt(P) \cup {last}
      BY <1>2, <1>3 DEF RunningAt
    <2>2. last \notin RunningAt(P) /\ T.runs \in Seq(Panel!RunRecords)
      BY <1>2, <1>3 DEF RunningAt
    <2>3. /\ IsFiniteSet(RunningAt(P)) /\ Panel!RunningCount(P) = Cardinality(RunningAt(P))
          /\ Cardinality(RunningAt(T)) \in Nat /\ Panel!RunningCount(T) = Cardinality(RunningAt(T))
      BY <1>1, <2>2, RunsCounted
    <2>4. Cardinality(RunningAt(P) \cup {last}) = Cardinality(RunningAt(P)) + 1
          /\ IsFiniteSet(RunningAt(P) \cup {last})
      BY <2>2, <2>3, FS_AddElement
    <2>5. Cardinality(RunningAt(T)) <= Cardinality(RunningAt(P)) + 1
      BY <2>1, <2>4, FS_Subset
    <2> QED BY <1>1, <2>3, <2>5, PanelConstants
  <1>7. Panel!Sound(T)
    BY <1>3, <1>4, <1>5, <1>6 DEF Panel!Sound
  <1>8. \A i \in DOMAIN P.runs : T.runs[i] = P.runs[i]
    BY <1>2, <1>3
  <1>9. Evolves(D, P, T)
    <2>1. DOMAIN P.runs \subseteq DOMAIN T.runs /\ DOMAIN P.rows \subseteq DOMAIN T.rows
      BY <1>2, <1>3
    <2> QED BY <1>3, <1>8, <2>1 DEF Evolves, Moves
  <1> QED BY <1>3, <1>7, <1>8, <1>9 DEF T, runs

\* A run is started: with a process, with a row, or failed at once.
LEMMA Started ==
  ASSUME NEW D, NEW P, Panel!Sound(P), Panel!RunningCount(P) < PanelSlots,
         NEW routine \in Panel!Routines, NEW job \in PanelJobs,
         \A i \in DOMAIN P.runs :
           ~(P.runs[i].status = "running" /\ P.runs[i].routine = routine /\ P.runs[i].job = job),
         \A n \in DOMAIN P.queue : P.queue[n] # [routine |-> routine, job |-> job]
  PROVE  LET T == Panel!StartRun(P, routine, job) IN
         /\ Panel!Sound(T) /\ Evolves(D, P, T) /\ T.queue = P.queue
         /\ \A i \in DOMAIN P.runs : T.runs[i] = P.runs[i]
  <1>1. /\ P \in Panel!States /\ P.rows \in Seq(Panel!RowRecords) /\ Len(P.rows) \in Nat
        /\ P.runs \in Seq(Panel!RunRecords)
        /\ \A k \in DOMAIN P.rows : P.rows[k].status = "queued" => P.rows[k].attempts < RowAttempts
    BY PanelTyped DEF Panel!Sound
  <1>2. CASE Dispatch = "local" \/ (Dispatch # "local" /\ Panel!Inflight(P) >= PanelInflight)
    <2> DEFINE r == IF Dispatch = "local" THEN Panel!Run(routine, job, "running", 0, TRUE)
                                          ELSE Panel!Run(routine, job, "failed", 0, FALSE)
               rows == P.rows
               T == [P EXCEPT !.rows = rows, !.runs = Append(P.runs, r)]
    <2>1. r \in Panel!RunRecords /\ r.routine = routine /\ r.job = job /\ Panel!RunSound(r, rows)
      BY DEF Panel!Run, Panel!RunRecords, Panel!RunSound
    <2>2. Panel!StartRun(P, routine, job) = T
      BY <1>1, <1>2 DEF Panel!StartRun, Panel!States
    <2> HIDE DEF r
    <2>3. \A k \in DOMAIN rows : rows[k].status = "queued" => rows[k].attempts < RowAttempts
      BY <1>1
    <2>4. DOMAIN P.rows \subseteq DOMAIN rows /\ \A k \in DOMAIN P.rows : rows[k] = P.rows[k]
      OBVIOUS
    <2>5. rows \in Seq(Panel!RowRecords)
      BY <1>1
    <2> HIDE DEF rows
    <2>6. /\ \A i \in DOMAIN P.runs :
               ~(P.runs[i].status = "running" /\ P.runs[i].routine = r.routine /\ P.runs[i].job = r.job)
          /\ \A n \in DOMAIN P.queue : P.queue[n] # [routine |-> r.routine, job |-> r.job]
      BY <2>1
    <2>7. r \in Panel!RunRecords /\ Panel!RunSound(r, rows)
      BY <2>1
    <2>8. /\ Panel!Sound(T) /\ Evolves(D, P, T) /\ T.queue = P.queue
          /\ \A i \in DOMAIN P.runs : T.runs[i] = P.runs[i]
      BY ZenonT(60), <2>3, <2>4, <2>5, <2>6, <2>7, RunAdded
    <2> QED BY <2>2, <2>8
  <1>3. CASE Dispatch # "local" /\ ~(Panel!Inflight(P) >= PanelInflight)
    <2> DEFINE r == Panel!Run(routine, job, "running", Len(P.rows) + 1, FALSE)
               e == Panel!Row(routine, job)
               rows == Append(P.rows, e)
               T == [P EXCEPT !.rows = rows, !.runs = Append(P.runs, r)]
    <2>1. e \in Panel!RowRecords /\ e.attempts < RowAttempts
      BY PanelConstants DEF Panel!Row, Panel!RowRecords, Panel!Pending
    <2> HIDE DEF e
    <2>2. /\ rows \in Seq(Panel!RowRecords) /\ DOMAIN rows = DOMAIN P.rows \cup {Len(P.rows) + 1}
          /\ rows[Len(P.rows) + 1] = e /\ \A k \in DOMAIN P.rows : rows[k] = P.rows[k]
      BY <1>1, <2>1, Appended
    <2>3. Panel!StartRun(P, routine, job) = T
      BY <1>1, <1>3 DEF Panel!StartRun, Panel!States, e
    <2> HIDE DEF rows
    <2>4. r \in Panel!RunRecords /\ r.routine = routine /\ r.job = job /\ Panel!RunSound(r, rows)
      BY <1>1, <2>2 DEF Panel!Run, Panel!RunRecords, Panel!RunSound
    <2> HIDE DEF r
    <2>5. \A k \in DOMAIN rows : rows[k].status = "queued" => rows[k].attempts < RowAttempts
      BY <1>1, <2>1, <2>2
    <2>6. DOMAIN P.rows \subseteq DOMAIN rows /\ \A k \in DOMAIN P.rows : rows[k] = P.rows[k]
      BY <2>2
    <2>7. rows \in Seq(Panel!RowRecords)
      BY <2>2
    <2>8. /\ Panel!Sound(T) /\ Evolves(D, P, T) /\ T.queue = P.queue
          /\ \A i \in DOMAIN P.runs : T.runs[i] = P.runs[i]
      <3>1. /\ \A i \in DOMAIN P.runs :
                 ~(P.runs[i].status = "running" /\ P.runs[i].routine = r.routine /\ P.runs[i].job = r.job)
            /\ \A n \in DOMAIN P.queue : P.queue[n] # [routine |-> r.routine, job |-> r.job]
        BY <2>4
      <3>2. r \in Panel!RunRecords /\ Panel!RunSound(r, rows)
        BY <2>4
      <3> QED BY ZenonT(60), <2>5, <2>6, <2>7, <3>1, <3>2, RunAdded
    <2> QED BY <2>3, <2>8
  <1> QED BY <1>2, <1>3

\* The items of S from its n-th on are what waits in T.
LeftOf(S, n, T) ==
  /\ Len(T.queue) = Len(S.queue) - n
  /\ \A m \in 1 .. Len(S.queue) - n : T.queue[m] = S.queue[m + n]

\* What is true after n items of the queue of S had their turn.
StartedBy(D, S, n, T) ==
  /\ Panel!Sound(T) /\ Evolves(D, S, T)
  /\ LeftOf(S, n, T) \/ ~(Panel!RunningCount(T) < PanelSlots)

\* The first item leaves the queue, and is started.
LEMMA HeadStarted ==
  ASSUME NEW S, NEW D \in SUBSET DOMAIN S.runs, Panel!Sound(S), NEW n \in 1 .. Len(S.queue),
         NEW Q, Panel!Sound(Q), Evolves(D, S, Q), LeftOf(S, n - 1, Q), Panel!RunningCount(Q) < PanelSlots
  PROVE  LET T == Panel!StartRun([Q EXCEPT !.queue = Tail(@)], S.queue[n].routine, S.queue[n].job) IN
         Panel!Sound(T) /\ Evolves(D, S, T) /\ LeftOf(S, n, T)
  <1> DEFINE P == [Q EXCEPT !.queue = Tail(@)]
             item == S.queue[n]
             T == Panel!StartRun(P, item.routine, item.job)
  <1>1. /\ S.queue \in Seq(Panel!Items) /\ Len(S.queue) \in Nat /\ item \in Panel!Items
    BY PanelTyped
  <1>2. /\ Q \in Panel!States /\ Q.queue \in Seq(Panel!Items) /\ Q.runs \in Seq(Panel!RunRecords)
    BY PanelTyped
  <1>3. /\ Len(Q.queue) = Len(S.queue) - (n - 1) /\ Q.queue # <<>>
        /\ \A m \in 1 .. Len(Q.queue) : Q.queue[m] = S.queue[m + (n - 1)]
    BY <1>1, <1>2 DEF LeftOf
  <1>4. /\ Tail(Q.queue) \in Seq(Panel!Items) /\ Len(Tail(Q.queue)) = Len(S.queue) - n
        /\ \A m \in 1 .. Len(S.queue) - n : Tail(Q.queue)[m] = Q.queue[m + 1]
    <2>1. /\ Tail(Q.queue) \in Seq(Panel!Items) /\ Len(Tail(Q.queue)) = Len(Q.queue) - 1
          /\ \A m \in 1 .. Len(Q.queue) - 1 : Tail(Q.queue)[m] = Q.queue[m + 1]
      BY <1>2, <1>3, HeadTailProperties
    <2>2. Len(Q.queue) - 1 = Len(S.queue) - n
      BY <1>1, <1>3
    <2> QED BY <2>1, <2>2
  <1>5. Q.queue[1] = item /\ 1 \in DOMAIN Q.queue
    BY <1>1, <1>2, <1>3
  <1>6. /\ P \in Panel!States /\ P.runs = Q.runs /\ P.rows = Q.rows /\ P.jobs = Q.jobs
        /\ P.queue = Tail(Q.queue)
    BY <1>2, <1>4 DEF Panel!States
  <1> HIDE DEF P
  <1>7. \A m \in DOMAIN P.queue : m + 1 \in DOMAIN Q.queue /\ P.queue[m] = Q.queue[m + 1]
    BY <1>1, <1>2, <1>3, <1>4, <1>6
  <1>8. Panel!Unique(Q)
    BY DEF Panel!Sound
  <1>9. Panel!Unique(P)
    <2>1. \A i \in DOMAIN P.runs, m \in DOMAIN P.queue :
            P.runs[i].status = "running" =>
              P.queue[m] # [routine |-> P.runs[i].routine, job |-> P.runs[i].job]
      BY <1>6, <1>7, <1>8 DEF Panel!Unique
    <2>2. ASSUME NEW k \in DOMAIN P.queue, NEW m \in DOMAIN P.queue, P.queue[k] = P.queue[m]
          PROVE  k = m
      <3>1. k + 1 = m + 1
        BY <1>7, <1>8, <2>2 DEF Panel!Unique
      <3>2. k \in Nat /\ m \in Nat
        BY <1>4, <1>6
      <3> QED BY <3>1, <3>2
    <2>3. \A i, j \in DOMAIN P.runs :
            /\ P.runs[i].status = "running" /\ P.runs[j].status = "running"
            /\ P.runs[i].routine = P.runs[j].routine /\ P.runs[i].job = P.runs[j].job
            => i = j
      BY <1>6, <1>8 DEF Panel!Unique
    <2> QED BY <2>1, <2>2, <2>3 DEF Panel!Unique
  <1>10. Panel!RunningCount(P) = Panel!RunningCount(Q)
    BY <1>6 DEF Panel!RunningCount
  <1>11. Panel!Sound(P) /\ Panel!RunningCount(P) < PanelSlots
    BY <1>6, <1>9, <1>10 DEF Panel!Sound
  <1>12. item.routine \in Panel!Routines /\ item.job \in PanelJobs
         /\ item = [routine |-> item.routine, job |-> item.job]
    BY <1>1 DEF Panel!Items
  <1>13. \A i \in DOMAIN P.runs :
           ~(P.runs[i].status = "running" /\ P.runs[i].routine = item.routine /\ P.runs[i].job = item.job)
    BY <1>5, <1>6, <1>8, <1>12 DEF Panel!Unique
  <1>14. \A m \in DOMAIN P.queue : P.queue[m] # [routine |-> item.routine, job |-> item.job]
    <2> SUFFICES ASSUME NEW m \in DOMAIN P.queue PROVE P.queue[m] # item
      BY <1>12
    <2>1. m + 1 # 1 /\ m + 1 \in DOMAIN Q.queue /\ P.queue[m] = Q.queue[m + 1]
      BY <1>4, <1>6, <1>7
    <2> QED BY <1>5, <1>8, <2>1 DEF Panel!Unique
  <1> HIDE DEF item
  <1>15. Panel!Sound(T) /\ Evolves(D, P, T) /\ T.queue = P.queue
    BY <1>11, <1>12, <1>13, <1>14, Started
  <1> HIDE DEF T
  <1>16. Evolves(D, S, T)
    <2>1. Evolves(D, Q, P)
      BY <1>6, EvolvesSelf
    <2>2. D \in SUBSET DOMAIN Q.runs
      BY DEF Evolves
    <2>3. Evolves(D, Q, T)
      BY <1>15, <2>1, <2>2, EvolvesOn
    <2> QED BY <2>3, EvolvesOn
  <1>17. LeftOf(S, n, T)
    <2>1. Len(T.queue) = Len(S.queue) - n
      BY <1>4, <1>6, <1>15
    <2>2. ASSUME NEW m \in 1 .. Len(S.queue) - n PROVE T.queue[m] = S.queue[m + n]
      <3>1. T.queue[m] = Q.queue[m + 1]
        BY <1>4, <1>6, <1>15
      <3>2. m + 1 \in 1 .. Len(Q.queue) /\ m + 1 + (n - 1) = m + n
        BY <1>1, <1>3
      <3> QED BY <1>3, <3>1, <3>2
    <2> QED BY <2>1, <2>2 DEF LeftOf
  <1> QED BY <1>15, <1>16, <1>17 DEF T, P, item

\* The queue is drained as far as there are slots.
LEMMA PanelDrained ==
  ASSUME NEW S, NEW D \in SUBSET DOMAIN S.runs, Panel!Sound(S)
  PROVE  LET T == Panel!ProcessQueue(S) IN
         /\ Panel!Sound(T) /\ Evolves(D, S, T)
         /\ T.queue = <<>> \/ Panel!RunningCount(T) = PanelSlots
  <1> DEFINE N == Len(S.queue)
             X == [n \in 0 .. N |-> {T \in Panel!States : StartedBy(D, S, n, T)}]
             Step(Q, item) == IF Panel!RunningCount(Q) < PanelSlots
                              THEN Panel!StartRun([Q EXCEPT !.queue = Tail(@)], item.routine, item.job)
                              ELSE Q
             step == [q \in Panel!States \X (1 .. N) |-> Step(q[1], S.queue[q[2]])]
             Follows(f) == Iterates(f, N, S, step)
             Recurs(f) == f = [n \in 0 .. N |-> IF n = 0 THEN S ELSE Step(f[n - 1], S.queue[n])]
  <1>1. N \in Nat /\ S \in Panel!States /\ S.queue \in Seq(Panel!Items) /\ DOMAIN S.queue = 1 .. N
    BY PanelTyped
  <1>2. S \in X[0]
    <2>1. Evolves(D, S, S)
      BY EvolvesSelf
    <2>2. LeftOf(S, 0, S)
      BY <1>1 DEF LeftOf
    <2> QED BY <1>1, <2>1, <2>2 DEF StartedBy
  <1>3. \A n \in 0 .. N : X[n] = {T \in Panel!States : StartedBy(D, S, n, T)}
    OBVIOUS
  <1> HIDE DEF X
  <1>4. ASSUME NEW n \in 1 .. N, NEW Q \in X[n - 1] PROVE Step(Q, S.queue[n]) \in X[n]
    <2>1. /\ Q \in Panel!States /\ Panel!Sound(Q) /\ Evolves(D, S, Q)
          /\ LeftOf(S, n - 1, Q) \/ ~(Panel!RunningCount(Q) < PanelSlots)
      <3>1. n - 1 \in 0 .. N
        BY <1>1
      <3>2. Q \in Panel!States /\ StartedBy(D, S, n - 1, Q)
        BY <1>3, <3>1
      <3> QED BY <3>2 DEF StartedBy
    <2>2. CASE Panel!RunningCount(Q) < PanelSlots
      <3> DEFINE T == Panel!StartRun([Q EXCEPT !.queue = Tail(@)], S.queue[n].routine, S.queue[n].job)
      <3>1. Panel!Sound(T) /\ Evolves(D, S, T) /\ LeftOf(S, n, T)
        BY <2>1, <2>2, HeadStarted
      <3>2. Step(Q, S.queue[n]) = T
        BY <2>2
      <3> HIDE DEF T, Step
      <3>3. StartedBy(D, S, n, T) /\ T \in Panel!States
        BY <3>1 DEF StartedBy, Panel!Sound
      <3> QED BY <1>3, <3>2, <3>3
    <2>3. CASE ~(Panel!RunningCount(Q) < PanelSlots)
      <3>1. StartedBy(D, S, n, Q)
        BY <2>1, <2>3 DEF StartedBy
      <3>2. Step(Q, S.queue[n]) = Q
        BY <2>3
      <3> HIDE DEF Step
      <3> QED BY <1>3, <2>1, <3>1, <3>2
    <2> QED BY <2>2, <2>3
  <1>5. \A n \in 1 .. N : \A Q \in X[n - 1] : step[<<Q, n>>] \in X[n]
    <2> SUFFICES ASSUME NEW n \in 1 .. N, NEW Q \in X[n - 1] PROVE step[<<Q, n>>] \in X[n]
      OBVIOUS
    <2>1. Q \in Panel!States
      <3>1. n - 1 \in 0 .. N
        BY <1>1
      <3> QED BY <1>3, <3>1
    <2>2. step[<<Q, n>>] = Step(Q, S.queue[n])
      <3> HIDE DEF Step
      <3> QED BY <2>1
    <2> HIDE DEF step, Step
    <2> QED BY <1>4, <2>2
  <1> HIDE DEF Step
  <1>6. (\E f : Follows(f)) /\ \A f : Follows(f) => \A n \in 0 .. N : f[n] \in X[n]
    <2>1. \A n \in 0 .. N : X[n] \subseteq Panel!States
      BY <1>3
    <2> HIDE DEF step, N
    <2> QED BY <1>1, <1>2, <1>5, <2>1, Iterated
  <1>7. ASSUME NEW f, \A n \in 0 .. N : f[n] \in X[n] PROVE Follows(f) <=> Recurs(f)
    <2>1. ASSUME NEW n \in 1 .. N PROVE f[n - 1] \in Panel!States
      <3>1. n - 1 \in 0 .. N
        BY <1>1
      <3> QED BY <1>3, <1>7, <3>1
    <2>2. \A n \in 1 .. N : step[<<f[n - 1], n>>] = Step(f[n - 1], S.queue[n])
      BY <2>1
    <2> HIDE DEF step
    <2>3. [n \in 0 .. N |-> IF n = 0 THEN S ELSE step[<<f[n - 1], n>>]]
            = [n \in 0 .. N |-> IF n = 0 THEN S ELSE Step(f[n - 1], S.queue[n])]
      <3>1. ASSUME NEW n \in 0 .. N
            PROVE  (IF n = 0 THEN S ELSE step[<<f[n - 1], n>>])
                     = (IF n = 0 THEN S ELSE Step(f[n - 1], S.queue[n]))
        <4>1. n = 0 \/ n \in 1 .. N
          BY <1>1
        <4> QED BY <2>2, <4>1
      <3> QED BY <3>1
    <2> QED BY <2>3 DEF Iterates
  <1>8. \E f : Recurs(f)
    <2> HIDE DEF Follows, Recurs
    <2> QED BY <1>6, <1>7
  <1>9. ASSUME NEW f, Recurs(f) PROVE f[N] \in X[N]
    <2>1. f[0] = S /\ \A n \in 1 .. N : f[n] = Step(f[n - 1], S.queue[n])
      <3>1. f = [n \in 0 .. N |-> IF n = 0 THEN S ELSE Step(f[n - 1], S.queue[n])]
        BY <1>9
      <3> HIDE DEF N
      <3>2. 0 \in 0 .. N /\ \A n \in 1 .. N : n \in 0 .. N /\ n # 0
        BY <1>1
      <3> QED BY <3>1, <3>2, Zenon
    <2>2. f[0] \in X[0] /\ \A n \in 1 .. N : f[n - 1] \in X[n - 1] => f[n] \in X[n]
      BY <1>2, <1>4, <2>1
    <2>3. \A n \in 0 .. N : f[n] \in X[n]
      <3> HIDE DEF N
      <3> QED BY <1>1, <2>2, KeptAlong
    <2>4. N \in 0 .. N
      BY <1>1
    <2> QED BY <2>3, <2>4
  <1>10. Panel!ProcessQueue(S) = (CHOOSE f : Recurs(f))[N]
    BY DEF Panel!ProcessQueue, Step
  <1>11. Panel!ProcessQueue(S) \in X[N]
    <2> HIDE DEF Recurs
    <2> QED BY <1>8, <1>9, <1>10
  <1> DEFINE T == Panel!ProcessQueue(S)
  <1>12. /\ Panel!Sound(T) /\ Evolves(D, S, T)
         /\ LeftOf(S, N, T) \/ ~(Panel!RunningCount(T) < PanelSlots)
    <2>1. N \in 0 .. N
      BY <1>1
    <2> QED BY <1>3, <1>11, <2>1 DEF StartedBy
  <1> HIDE DEF T
  <1>13. T.queue \in Seq(Panel!Items) /\ Panel!RunningCount(T) \in Nat /\ Panel!RunningCount(T) <= PanelSlots
    BY <1>12, PanelTyped
  <1>14. LeftOf(S, N, T) => T.queue = <<>>
    BY <1>1, <1>13 DEF LeftOf
  <1> QED BY <1>12, <1>13, <1>14, PanelConstants DEF T

-----------------------------------------------------------------------------
\* An item waits only while all slots are taken, or a stopped process has yet to close.
PanelBusy(T) ==
  \/ T.queue = <<>> \/ Panel!RunningCount(T) = PanelSlots
  \/ \E i \in DOMAIN T.runs : T.runs[i].status = "stopped" /\ T.runs[i].proc

\* One run changed: closed, stopped, or without its process.
LEMMA RunChanged ==
  ASSUME NEW D, NEW P, Panel!Sound(P), NEW i \in DOMAIN P.runs, NEW r \in Panel!RunRecords,
         Panel!RunSound(r, P.rows), r.routine = P.runs[i].routine, r.job = P.runs[i].job,
         P.runs[i].status # "running" => r.status = P.runs[i].status,
         r.proc => P.runs[i].proc
  PROVE  LET T == [P EXCEPT !.runs = [P.runs EXCEPT ![i] = r]] IN
         /\ Panel!Sound(T) /\ Evolves(D, P, T)
         /\ T.queue = P.queue /\ T.rows = P.rows /\ T.jobs = P.jobs
         /\ DOMAIN T.runs = DOMAIN P.runs /\ T.runs[i] = r
         /\ \A j \in DOMAIN P.runs : j # i => T.runs[j] = P.runs[j]
  <1> DEFINE runs == [P.runs EXCEPT ![i] = r]
             T == [P EXCEPT !.runs = runs]
  <1>1. /\ P \in Panel!States /\ P.runs \in Seq(Panel!RunRecords)
        /\ \A j \in DOMAIN P.runs : Panel!RunSound(P.runs[j], P.rows)
        /\ Panel!RunningCount(P) \in Nat /\ Panel!RunningCount(P) <= PanelSlots /\ Panel!Unique(P)
    BY PanelTyped DEF Panel!Sound
  <1>2. /\ runs \in Seq(Panel!RunRecords) /\ DOMAIN runs = DOMAIN P.runs /\ runs[i] = r
        /\ \A j \in DOMAIN P.runs : j # i => runs[j] = P.runs[j]
    BY <1>1, Changed
  <1> HIDE DEF runs
  <1>3. /\ T \in Panel!States /\ T.runs = runs /\ T.queue = P.queue /\ T.rows = P.rows /\ T.jobs = P.jobs
    BY <1>1, <1>2 DEF Panel!States
  <1> HIDE DEF T
  <1>4. ASSUME NEW j \in DOMAIN P.runs
        PROVE  /\ runs[j].routine = P.runs[j].routine /\ runs[j].job = P.runs[j].job
               /\ P.runs[j].status # "running" => runs[j].status = P.runs[j].status
               /\ runs[j].proc => P.runs[j].proc
               /\ Panel!RunSound(runs[j], P.rows)
    BY <1>1, <1>2
  <1>5. Panel!Unique(T)
    <2>1. \A j \in DOMAIN T.runs : T.runs[j].status = "running" => P.runs[j].status = "running"
      BY <1>2, <1>3, <1>4
    <2>2. \A j \in DOMAIN T.runs : j \in DOMAIN P.runs /\ T.runs[j].routine = P.runs[j].routine
                                   /\ T.runs[j].job = P.runs[j].job
      BY <1>2, <1>3, <1>4
    <2> QED BY SMTT(60), <1>1, <1>3, <2>1, <2>2 DEF Panel!Unique
  <1>6. Panel!RunningCount(T) <= PanelSlots
    <2>1. RunningAt(T) \subseteq RunningAt(P)
      BY <1>2, <1>3, <1>4 DEF RunningAt
    <2>2. T.runs \in Seq(Panel!RunRecords)
      BY <1>2, <1>3
    <2>3. Panel!RunningCount(T) <= Panel!RunningCount(P) /\ Panel!RunningCount(T) \in Nat
      BY <1>1, <2>1, <2>2, RunningFewer
    <2> QED BY <1>1, <2>3, PanelConstants
  <1>7. Panel!Sound(T)
    BY <1>1, <1>2, <1>3, <1>4, <1>5, <1>6 DEF Panel!Sound
  <1>8. Evolves(D, P, T)
    BY <1>2, <1>3, <1>4 DEF Evolves, Moves
  <1> QED BY <1>2, <1>3, <1>7, <1>8 DEF T, runs

\* One row changed that waited, to a row of the same routine and job.
LEMMA RowChanged ==
  ASSUME NEW D, NEW P, Panel!Sound(P), NEW k \in DOMAIN P.rows, NEW e \in Panel!RowRecords,
         P.rows[k].status \in Panel!Pending, e.status = "queued" => e.attempts < RowAttempts
  PROVE  LET T == [P EXCEPT !.rows = [P.rows EXCEPT ![k] = e]] IN
         /\ Panel!Sound(T) /\ Evolves(D, P, T)
         /\ T.queue = P.queue /\ T.runs = P.runs /\ T.jobs = P.jobs
         /\ DOMAIN T.rows = DOMAIN P.rows /\ T.rows[k] = e
         /\ \A j \in DOMAIN P.rows : j # k => T.rows[j] = P.rows[j]
  <1> DEFINE rows == [P.rows EXCEPT ![k] = e]
             T == [P EXCEPT !.rows = rows]
  <1>1. /\ P \in Panel!States /\ P.rows \in Seq(Panel!RowRecords)
        /\ \A i \in DOMAIN P.runs : Panel!RunSound(P.runs[i], P.rows)
        /\ \A j \in DOMAIN P.rows : P.rows[j].status = "queued" => P.rows[j].attempts < RowAttempts
    BY PanelTyped DEF Panel!Sound
  <1>2. /\ rows \in Seq(Panel!RowRecords) /\ DOMAIN rows = DOMAIN P.rows /\ rows[k] = e
        /\ \A j \in DOMAIN P.rows : j # k => rows[j] = P.rows[j]
    BY <1>1, Changed
  <1> HIDE DEF rows
  <1>3. /\ T \in Panel!States /\ T.rows = rows /\ T.queue = P.queue /\ T.runs = P.runs /\ T.jobs = P.jobs
    BY <1>1, <1>2 DEF Panel!States
  <1> HIDE DEF T
  <1>4. ASSUME NEW i \in DOMAIN P.runs PROVE Panel!RunSound(P.runs[i], rows)
    BY <1>1, <1>2 DEF Panel!RunSound
  <1>5. \A j \in DOMAIN rows : rows[j].status = "queued" => rows[j].attempts < RowAttempts
    BY <1>1, <1>2
  <1>6. Panel!Unique(T) /\ Panel!RunningCount(T) <= PanelSlots
    BY <1>3 DEF Panel!Unique, Panel!RunningCount, Panel!Sound
  <1>7. Panel!Sound(T)
    BY <1>3, <1>4, <1>5, <1>6 DEF Panel!Sound
  <1>8. Evolves(D, P, T)
    BY <1>2, <1>3, EvolvesSelf
  <1> QED BY <1>2, <1>3, <1>7, <1>8 DEF T, rows

\* A run that closed well advances its job, if the materials are there.
LEMMA Advanced ==
  ASSUME NEW P, NEW D \in SUBSET DOMAIN P.runs, Panel!Sound(P), NEW Q, Panel!Sound(Q),
         Evolves(D, P, Q), Q.jobs = P.jobs, NEW i \in D, NEW ok \in BOOLEAN,
         ok => ClosedWell(P.runs[i], Q.runs[i])
  PROVE  LET T == Panel!MaybeAutoAdvanceJob(Q, P.runs[i].routine, ok, P.runs[i].job) IN
         /\ Panel!Sound(T) /\ Evolves(D, P, T)
         /\ T.queue = Q.queue /\ T.runs = Q.runs /\ T.rows = Q.rows
  <1> DEFINE routine == P.runs[i].routine
             job == P.runs[i].job
             status == Panel!NextStatusAfterRun(routine, ok, Q.jobs[job])
             jobs == [Q.jobs EXCEPT ![job].status = status]
             T == [Q EXCEPT !.jobs = jobs]
  <1>1. Panel!MaybeAutoAdvanceJob(Q, routine, ok, job) = T
    BY DEF Panel!MaybeAutoAdvanceJob
  <1>2. /\ routine \in Panel!Routines /\ job \in PanelJobs /\ Q \in Panel!States
        /\ Q.jobs \in [PanelJobs -> Panel!JobRecords]
    BY PanelTyped DEF Panel!RunRecords
  <1> DEFINE old == Q.jobs[job]
  <1>3. /\ status = old.status
           \/ /\ ok /\ old.materials = "good"
              /\ \/ routine = "first-draft-job" /\ old.status \in {"lead", "queued"} /\ status = "drafted"
                 \/ routine = "finalize-job" /\ old.status = "drafted" /\ status = "ready"
    <2>1. old \in Panel!JobRecords
      BY <1>2
    <2>2. old.materials \in {"none", "good", "overlong"}
      BY <2>1 DEF Panel!JobRecords
    <2> HIDE DEF old, routine, job
    <2> QED BY <2>2 DEF old, Panel!NextStatusAfterRun, Panel!DraftDone
  <1>4. status \in Panel!Statuses
    BY <1>2, <1>3 DEF Panel!JobRecords, Panel!Statuses
  <1> HIDE DEF status
  <1>5. /\ jobs \in [PanelJobs -> Panel!JobRecords]
        /\ \A j \in PanelJobs : /\ jobs[j].materials = Q.jobs[j].materials
                                /\ j # job => jobs[j].status = Q.jobs[j].status
        /\ jobs[job].status = status
    BY <1>2, <1>4 DEF Panel!JobRecords
  <1> HIDE DEF jobs
  <1>6. T \in Panel!States /\ T.jobs = jobs /\ T.queue = Q.queue /\ T.runs = Q.runs /\ T.rows = Q.rows
    BY <1>2, <1>5 DEF Panel!States
  <1> HIDE DEF T
  <1>7. Panel!Sound(T)
    BY <1>6 DEF Panel!Sound, Panel!Unique, Panel!RunningCount
  <1>8. ASSUME NEW j \in PanelJobs
        PROVE  T.jobs[j].materials = P.jobs[j].materials /\ Moves(D, P, T, j)
    <2>1. CASE j # job
      BY SMTT(30), <1>5, <1>6, <2>1 DEF Moves
    <2>2. CASE j = job /\ status = old.status
      BY <1>5, <1>6, <2>2 DEF Moves
    <2>3. CASE j = job /\ status # old.status
      <3>1. ok /\ ClosesOn(D, P, T, routine, job)
        BY SMTT(30), <1>3, <1>6, <2>3 DEF ClosesOn
      <3>2. T.jobs[j].materials = "good" /\ T.jobs[j].status = status /\ P.jobs[j] = old
        BY <1>3, <1>5, <1>6, <2>3
      <3>3. T.jobs[j].materials = P.jobs[j].materials
        BY <1>5, <1>6
      <3> HIDE DEF routine, old
      <3> QED BY SMTT(30), <1>3, <2>3, <3>1, <3>2, <3>3 DEF Moves
    <2> QED BY <2>1, <2>2, <2>3
  <1>9. Evolves(D, P, T)
    BY <1>6, <1>8 DEF Evolves
  <1> QED BY <1>1, <1>6, <1>7, <1>9

\* A run whose row has settled closes, and its slot is filled.
LEMMA RunSynced ==
  ASSUME NEW P, NEW D \in SUBSET DOMAIN P.runs, Panel!Sound(P), PanelBusy(P), NEW i \in D
  PROVE  LET T == Panel!SyncRun(P, i) IN
         Panel!Sound(T) /\ Evolves(D, P, T) /\ PanelBusy(T)
  <1> DEFINE run == P.runs[i]
             ok == P.rows[run.row].status = "done"
             status == IF ok THEN "done" ELSE "failed"
             r == [run EXCEPT !.status = status]
             Q == [P EXCEPT !.runs = [P.runs EXCEPT ![i] = r]]
             A == Panel!MaybeAutoAdvanceJob(Q, run.routine, ok, run.job)
             T == Panel!ProcessQueue(A)
  <1>1. CASE run.row = 0 \/ run.status # "running" \/ P.rows[run.row].status \in Panel!Pending
    <2>1. Panel!SyncRun(P, i) = P
      BY <1>1 DEF Panel!SyncRun
    <2>2. Evolves(D, P, P)
      BY EvolvesSelf
    <2> QED BY <2>1, <2>2
  <1>2. CASE ~(run.row = 0 \/ run.status # "running" \/ P.rows[run.row].status \in Panel!Pending)
    <2>1. Panel!SyncRun(P, i) = T
      BY <1>2 DEF Panel!SyncRun
    <2> HIDE DEF T
    <2>2. run \in Panel!RunRecords /\ Panel!RunSound(run, P.rows)
      BY PanelTyped
    <2>3. ok \in BOOLEAN /\ status \in {"done", "failed"} /\ (status = "done" <=> ok)
      OBVIOUS
    <2> HIDE DEF A
    <2>4. /\ r \in Panel!RunRecords /\ r.status = status /\ r.row = run.row /\ r.proc = run.proc
          /\ r.routine = run.routine /\ r.job = run.job
      <3> HIDE DEF run, status
      <3> QED BY <2>2, <2>3 DEF Panel!RunRecords
    <2> HIDE DEF r
    <2>5. Panel!RunSound(r, P.rows)
      <3> HIDE DEF run, status
      <3> QED BY SMTT(30), <1>2, <2>2, <2>3, <2>4 DEF Panel!RunSound
    <2>6. /\ Panel!Sound(Q) /\ Evolves(D, P, Q) /\ Q.jobs = P.jobs
          /\ DOMAIN Q.runs = DOMAIN P.runs /\ Q.runs[i] = r
      BY <1>2, <2>4, <2>5, RunChanged
    <2> HIDE DEF Q
    <2>7. ok => ClosedWell(P.runs[i], Q.runs[i])
      BY <1>2, <2>3, <2>4, <2>6 DEF ClosedWell
    <2> HIDE DEF ok, status
    <2>8. Panel!Sound(A) /\ Evolves(D, P, A) /\ A.runs = Q.runs
      BY <2>3, <2>6, <2>7, Advanced DEF A
    <2>9. D \in SUBSET DOMAIN A.runs
      BY <2>6, <2>8
    <2>10. /\ Panel!Sound(T) /\ Evolves(D, A, T)
           /\ T.queue = <<>> \/ Panel!RunningCount(T) = PanelSlots
      BY <2>8, <2>9, PanelDrained DEF T
    <2>11. Evolves(D, P, T)
      BY <2>8, <2>10, EvolvesOn
    <2> QED BY <2>1, <2>10, <2>11 DEF PanelBusy
  <1> QED BY <1>1, <1>2

\* What is true after the first n runs of the Map had their turn.
SyncedBy(S, T) == Panel!Sound(T) /\ Evolves(DOMAIN S.runs, S, T) /\ PanelBusy(T)

\* The runs of the Map are synced one after the other.
LEMMA RunsSynced ==
  ASSUME NEW S, Panel!Sound(S), PanelBusy(S), NEW which
  PROVE  SyncedBy(S, Panel!SyncRuns(S, which))
  <1> DEFINE N == Len(S.runs)
             X == [n \in 0 .. N |-> {T \in Panel!States : SyncedBy(S, T)}]
             Step(Q, n) == IF n \in which THEN Panel!SyncRun(Q, n) ELSE Q
             step == [q \in Panel!States \X (1 .. N) |-> Step(q[1], q[2])]
             Follows(f) == Iterates(f, N, S, step)
             Recurs(f) == f = [n \in 0 .. N |-> IF n = 0 THEN S ELSE
                                                IF n \in which THEN Panel!SyncRun(f[n - 1], n) ELSE f[n - 1]]
  <1>1. N \in Nat /\ S \in Panel!States /\ DOMAIN S.runs = 1 .. N
    BY PanelTyped
  <1>2. S \in X[0]
    <2>1. Evolves(DOMAIN S.runs, S, S)
      BY EvolvesSelf
    <2> QED BY <1>1, <2>1 DEF SyncedBy
  <1>3. \A n \in 0 .. N : X[n] = {T \in Panel!States : SyncedBy(S, T)}
    OBVIOUS
  <1> HIDE DEF X
  <1>4. ASSUME NEW n \in 1 .. N, NEW Q \in X[n - 1] PROVE Step(Q, n) \in X[n]
    <2>1. Q \in Panel!States /\ SyncedBy(S, Q)
      <3>1. n - 1 \in 0 .. N
        BY <1>1
      <3> QED BY <1>3, <3>1
    <2> DEFINE T == Step(Q, n)
    <2>2. SyncedBy(S, T)
      <3>1. CASE n \in which
        <4>1. DOMAIN S.runs \in SUBSET DOMAIN Q.runs /\ n \in DOMAIN S.runs
          BY <1>1, <2>1 DEF SyncedBy, Evolves
        <4> DEFINE R == Panel!SyncRun(Q, n)
        <4>2. Panel!Sound(R) /\ Evolves(DOMAIN S.runs, Q, R) /\ PanelBusy(R)
          BY <2>1, <4>1, RunSynced DEF SyncedBy
        <4> HIDE DEF R
        <4>3. Evolves(DOMAIN S.runs, S, R)
          BY <2>1, <4>2, EvolvesOn DEF SyncedBy
        <4>4. T = R
          BY <3>1 DEF R
        <4> QED BY <4>2, <4>3, <4>4 DEF SyncedBy
      <3>2. CASE n \notin which
        BY <2>1, <3>2
      <3> QED BY <3>1, <3>2
    <2> HIDE DEF T
    <2>3. T \in Panel!States
      BY <2>2 DEF SyncedBy, Panel!Sound
    <2> QED BY <1>3, <2>2, <2>3 DEF T
  <1>5. \A n \in 1 .. N : \A Q \in X[n - 1] : step[<<Q, n>>] \in X[n]
    <2> SUFFICES ASSUME NEW n \in 1 .. N, NEW Q \in X[n - 1] PROVE step[<<Q, n>>] \in X[n]
      OBVIOUS
    <2>1. Q \in Panel!States
      <3>1. n - 1 \in 0 .. N
        BY <1>1
      <3> QED BY <1>3, <3>1
    <2>2. step[<<Q, n>>] = Step(Q, n)
      <3> HIDE DEF Step
      <3> QED BY <2>1
    <2> HIDE DEF step, Step
    <2> QED BY <1>4, <2>2
  <1>6. (\E f : Follows(f)) /\ \A f : Follows(f) => \A n \in 0 .. N : f[n] \in X[n]
    <2>1. \A n \in 0 .. N : X[n] \subseteq Panel!States
      BY <1>3
    <2> HIDE DEF step, Step, N
    <2> QED BY <1>1, <1>2, <1>5, <2>1, Iterated
  <1>7. ASSUME NEW f, \A n \in 0 .. N : f[n] \in X[n] PROVE Follows(f) <=> Recurs(f)
    <2>1. ASSUME NEW n \in 1 .. N PROVE f[n - 1] \in Panel!States
      <3>1. n - 1 \in 0 .. N
        BY <1>1
      <3> QED BY <1>3, <1>7, <3>1
    <2>2. \A n \in 1 .. N : step[<<f[n - 1], n>>] = Step(f[n - 1], n)
      <3> HIDE DEF Step
      <3> QED BY <2>1
    <2> HIDE DEF step
    <2>3. [n \in 0 .. N |-> IF n = 0 THEN S ELSE step[<<f[n - 1], n>>]]
            = [n \in 0 .. N |-> IF n = 0 THEN S ELSE Step(f[n - 1], n)]
      <3>1. ASSUME NEW n \in 0 .. N
            PROVE  (IF n = 0 THEN S ELSE step[<<f[n - 1], n>>])
                     = (IF n = 0 THEN S ELSE Step(f[n - 1], n))
        <4>1. n = 0 \/ n \in 1 .. N
          BY <1>1
        <4> HIDE DEF Step
        <4> QED BY <2>2, <4>1
      <3> HIDE DEF Step
      <3> QED BY <3>1
    <2> QED BY <2>3 DEF Iterates
  <1>8. \E f : Recurs(f)
    <2> HIDE DEF Follows, Recurs
    <2> QED BY <1>6, <1>7
  <1>9. ASSUME NEW f, Recurs(f) PROVE f[N] \in X[N]
    <2>1. f[0] = S /\ \A n \in 1 .. N : f[n] = Step(f[n - 1], n)
      <3>1. f = [n \in 0 .. N |-> IF n = 0 THEN S ELSE Step(f[n - 1], n)]
        BY <1>9
      <3> HIDE DEF N, Step
      <3> QED BY <1>1, <3>1
    <2> HIDE DEF Step
    <2>2. f[0] \in X[0] /\ \A n \in 1 .. N : f[n - 1] \in X[n - 1] => f[n] \in X[n]
      BY <1>2, <1>4, <2>1
    <2>3. \A n \in 0 .. N : f[n] \in X[n]
      <3> HIDE DEF N
      <3> QED BY <1>1, <2>2, KeptAlong
    <2>4. N \in 0 .. N
      BY <1>1
    <2> QED BY <2>3, <2>4
  <1>10. Panel!SyncRuns(S, which) = (CHOOSE f : Recurs(f))[N]
    BY DEF Panel!SyncRuns
  <1>11. Panel!SyncRuns(S, which) \in X[N]
    <2> HIDE DEF Recurs
    <2> QED BY <1>8, <1>9, <1>10
  <1>12. N \in 0 .. N
    BY <1>1
  <1> QED BY <1>3, <1>11, <1>12

\* What is true after n jobs of a batch had their turn.
QueuedBy(S, T) == Panel!Sound(T) /\ T.runs = S.runs /\ T.rows = S.rows /\ T.jobs = S.jobs

\* A job that is valid waits.
LEMMA JobQueued ==
  ASSUME NEW Q, Panel!Sound(Q), NEW routine \in Panel!Routines, NEW job \in PanelJobs,
         Panel!Valid(Q, routine, job)
  PROVE  QueuedBy(Q, [Q EXCEPT !.queue = Append(@, [routine |-> routine, job |-> job])])
  <1> DEFINE item == [routine |-> routine, job |-> job]
             queue == Append(Q.queue, item)
             last == Len(Q.queue) + 1
             T == [Q EXCEPT !.queue = queue]
  <1>1. Q \in Panel!States /\ Q.queue \in Seq(Panel!Items) /\ Panel!Unique(Q)
    BY PanelTyped DEF Panel!Sound
  <1>2. item \in Panel!Items /\ item.routine = routine /\ item.job = job
    BY DEF Panel!Items
  <1>3. /\ \A i \in DOMAIN Q.runs :
             ~(Q.runs[i].status = "running" /\ Q.runs[i].routine = routine /\ Q.runs[i].job = job)
        /\ \A n \in DOMAIN Q.queue : Q.queue[n] # item
    BY DEF Panel!Valid, Panel!HasPendingOrActiveRun
  <1> HIDE DEF item
  <1>4. /\ queue \in Seq(Panel!Items) /\ DOMAIN queue = DOMAIN Q.queue \cup {last}
        /\ last \notin DOMAIN Q.queue /\ queue[last] = item
        /\ \A n \in DOMAIN Q.queue : queue[n] = Q.queue[n]
    BY <1>1, <1>2, Appended
  <1> HIDE DEF queue, last
  <1>5. T \in Panel!States /\ T.queue = queue /\ T.runs = Q.runs /\ T.rows = Q.rows /\ T.jobs = Q.jobs
    BY <1>1, <1>4 DEF Panel!States
  <1> HIDE DEF T
  <1>6. Panel!Unique(T)
    <2>1. \A i, j \in DOMAIN T.runs :
            /\ T.runs[i].status = "running" /\ T.runs[j].status = "running"
            /\ T.runs[i].routine = T.runs[j].routine /\ T.runs[i].job = T.runs[j].job
            => i = j
      BY <1>1, <1>5 DEF Panel!Unique
    <2>2. ASSUME NEW i \in DOMAIN T.runs, NEW n \in DOMAIN T.queue, T.runs[i].status = "running"
          PROVE  T.queue[n] # [routine |-> T.runs[i].routine, job |-> T.runs[i].job]
      <3>1. CASE n = last
        BY <1>2, <1>3, <1>4, <1>5, <2>2, <3>1
      <3>2. CASE n # last
        <4>1. n \in DOMAIN Q.queue /\ T.queue[n] = Q.queue[n]
          BY <1>4, <1>5, <3>2
        <4> QED BY <1>1, <1>5, <2>2, <4>1 DEF Panel!Unique
      <3> QED BY <3>1, <3>2
    <2>3. ASSUME NEW m \in DOMAIN T.queue, NEW n \in DOMAIN T.queue, T.queue[m] = T.queue[n]
          PROVE  m = n
      <3>1. CASE m = last \/ n = last
        BY <1>3, <1>4, <1>5, <2>3, <3>1
      <3>2. CASE m # last /\ n # last
        BY <1>1, <1>4, <1>5, <2>3, <3>2 DEF Panel!Unique
      <3> QED BY <3>1, <3>2
    <2> QED BY <2>1, <2>2, <2>3 DEF Panel!Unique
  <1>7. Panel!Sound(T)
    BY <1>5, <1>6 DEF Panel!Sound, Panel!RunningCount
  <1> QED BY <1>5, <1>7 DEF QueuedBy, T, queue, item

\* The valid jobs of a batch join the queue one after the other.
LEMMA JobsQueued ==
  ASSUME NEW S, Panel!Sound(S), NEW routine \in Panel!Routines,
         NEW N \in Nat, NEW jobIds \in [1 .. N -> PanelJobs]
  PROVE  QueuedBy(S, Panel!Queued(S, routine, jobIds))
  <1> DEFINE X == [n \in 0 .. N |-> {T \in Panel!States : QueuedBy(S, T)}]
             Step(Q, job) == IF Panel!Valid(Q, routine, job)
                             THEN [Q EXCEPT !.queue = Append(@, [routine |-> routine, job |-> job])]
                             ELSE Q
             step == [q \in Panel!States \X (1 .. N) |-> Step(q[1], jobIds[q[2]])]
             Follows(f) == Iterates(f, N, S, step)
             Recurs(f) == f = [n \in 0 .. N |-> IF n = 0 THEN S ELSE Step(f[n - 1], jobIds[n])]
  <1>1. N \in Nat /\ S \in Panel!States /\ Len(jobIds) = N
    BY PanelTyped
  <1>2. S \in X[0]
    BY <1>1 DEF QueuedBy
  <1>3. \A n \in 0 .. N : X[n] = {T \in Panel!States : QueuedBy(S, T)}
    OBVIOUS
  <1> HIDE DEF X
  <1>4. ASSUME NEW n \in 1 .. N, NEW Q \in X[n - 1] PROVE Step(Q, jobIds[n]) \in X[n]
    <2>1. Q \in Panel!States /\ QueuedBy(S, Q)
      <3>1. n - 1 \in 0 .. N
        BY <1>1
      <3> QED BY <1>3, <3>1
    <2> DEFINE T == Step(Q, jobIds[n])
    <2>2. QueuedBy(S, T)
      <3>1. jobIds[n] \in PanelJobs /\ Panel!Sound(Q)
        BY <2>1 DEF QueuedBy
      <3>2. CASE Panel!Valid(Q, routine, jobIds[n])
        <4> DEFINE R == [Q EXCEPT !.queue = Append(@, [routine |-> routine, job |-> jobIds[n]])]
        <4>1. QueuedBy(Q, R)
          BY <3>1, <3>2, JobQueued
        <4>2. T = R
          BY <3>2
        <4> HIDE DEF R, T
        <4> QED BY <2>1, <4>1, <4>2 DEF QueuedBy
      <3>3. CASE ~Panel!Valid(Q, routine, jobIds[n])
        BY <2>1, <3>3
      <3> QED BY <3>2, <3>3
    <2> HIDE DEF T
    <2>3. T \in Panel!States
      BY <2>2 DEF QueuedBy, Panel!Sound
    <2> QED BY <1>3, <2>2, <2>3 DEF T
  <1>5. \A n \in 1 .. N : \A Q \in X[n - 1] : step[<<Q, n>>] \in X[n]
    <2> SUFFICES ASSUME NEW n \in 1 .. N, NEW Q \in X[n - 1] PROVE step[<<Q, n>>] \in X[n]
      OBVIOUS
    <2>1. Q \in Panel!States
      <3>1. n - 1 \in 0 .. N
        BY <1>1
      <3> QED BY <1>3, <3>1
    <2>2. step[<<Q, n>>] = Step(Q, jobIds[n])
      <3> HIDE DEF Step
      <3> QED BY <2>1
    <2> HIDE DEF step, Step
    <2> QED BY <1>4, <2>2
  <1> HIDE DEF Step
  <1>6. (\E f : Follows(f)) /\ \A f : Follows(f) => \A n \in 0 .. N : f[n] \in X[n]
    <2>1. \A n \in 0 .. N : X[n] \subseteq Panel!States
      BY <1>3
    <2> HIDE DEF step
    <2> QED BY <1>1, <1>2, <1>5, <2>1, Iterated
  <1>7. ASSUME NEW f, \A n \in 0 .. N : f[n] \in X[n] PROVE Follows(f) <=> Recurs(f)
    <2>1. ASSUME NEW n \in 1 .. N PROVE f[n - 1] \in Panel!States
      <3>1. n - 1 \in 0 .. N
        BY <1>1
      <3> QED BY <1>3, <1>7, <3>1
    <2>2. \A n \in 1 .. N : step[<<f[n - 1], n>>] = Step(f[n - 1], jobIds[n])
      BY <2>1
    <2> HIDE DEF step
    <2>3. [n \in 0 .. N |-> IF n = 0 THEN S ELSE step[<<f[n - 1], n>>]]
            = [n \in 0 .. N |-> IF n = 0 THEN S ELSE Step(f[n - 1], jobIds[n])]
      <3>1. ASSUME NEW n \in 0 .. N
            PROVE  (IF n = 0 THEN S ELSE step[<<f[n - 1], n>>])
                     = (IF n = 0 THEN S ELSE Step(f[n - 1], jobIds[n]))
        <4>1. n = 0 \/ n \in 1 .. N
          BY <1>1
        <4> QED BY <2>2, <4>1
      <3> QED BY <3>1
    <2> QED BY <2>3 DEF Iterates
  <1>8. \E f : Recurs(f)
    <2> HIDE DEF Follows, Recurs
    <2> QED BY <1>6, <1>7
  <1>9. ASSUME NEW f, Recurs(f) PROVE f[N] \in X[N]
    <2>1. f[0] = S /\ \A n \in 1 .. N : f[n] = Step(f[n - 1], jobIds[n])
      <3>1. f = [n \in 0 .. N |-> IF n = 0 THEN S ELSE Step(f[n - 1], jobIds[n])]
        BY <1>9
      <3> QED BY <1>1, <3>1
    <2>2. f[0] \in X[0] /\ \A n \in 1 .. N : f[n - 1] \in X[n - 1] => f[n] \in X[n]
      BY <1>2, <1>4, <2>1
    <2>3. \A n \in 0 .. N : f[n] \in X[n]
      BY <1>1, <2>2, KeptAlong
    <2>4. N \in 0 .. N
      BY <1>1
    <2> QED BY <2>3, <2>4
  <1>10. Panel!Queued(S, routine, jobIds) = (CHOOSE f : Recurs(f))[N]
    BY <1>1 DEF Panel!Queued, Step
  <1>11. Panel!Queued(S, routine, jobIds) \in X[N]
    <2> HIDE DEF Recurs
    <2> QED BY <1>8, <1>9, <1>10
  <1>12. N \in 0 .. N
    BY <1>1
  <1> QED BY <1>3, <1>11, <1>12

-----------------------------------------------------------------------------
(***************************************************************************)
(* The steps of the panel.                                                 *)
(***************************************************************************)
\* What every step of the panel leads to: jobs move on evidence or as the owner says.
PanelArrives(T) ==
  /\ Panel!Sound(T) /\ PanelBusy(T) /\ DOMAIN v1.rows \subseteq DOMAIN T.rows
  /\ \A job \in PanelJobs :
       \/ Moves(DOMAIN v1.runs, v1, T, job)
       \/ \E status \in Panel!Statuses :
            /\ T = [v1 EXCEPT !.jobs[job].status = status]
            /\ v1.jobs[job].status # status /\ T.jobs[job].status = status

\* A step that arrives there keeps the invariant.
LEMMA PanelArrive ==
  ASSUME NEW T, Panel!PanelInv, PanelArrives(T), Panel!Becomes(T)
  PROVE  Panel!PanelInv' /\ Panel!MovesOnEvidence
  <1>1. v1' = T /\ v2' = v2 \cup ({T.runs[i].row : i \in DOMAIN T.runs} \ {0})
    BY DEF Panel!Becomes
  <1>2. v2' \subseteq DOMAIN T.rows
    <2>1. \A i \in DOMAIN T.runs : T.runs[i].row \in DOMAIN T.rows \cup {0}
      BY DEF PanelArrives, Panel!Sound, Panel!RunSound
    <2> QED BY <1>1, <2>1 DEF Panel!PanelInv, PanelArrives
  <1>3. Panel!NoIdleSlot'
    <2>1. Panel!RunningCount(T) <= PanelSlots
      BY PanelTyped DEF PanelArrives
    <2> QED BY <1>1, <2>1 DEF Panel!NoIdleSlot, PanelArrives, PanelBusy, Panel!RunningCount
  <1>4. Panel!Sound(v1)'
    BY <1>1 DEF PanelArrives, Panel!Sound, Panel!RunningCount, Panel!Unique
  <1>5. Panel!MovesOnEvidence
    <2> SUFFICES ASSUME NEW job \in PanelJobs, v1.jobs[job].status # T.jobs[job].status,
                        ~Panel!OwnerSetsStatus(job, T.jobs[job].status)
                 PROVE  /\ <<v1.jobs[job].status, T.jobs[job].status>> \in
                             {<<"lead", "drafted">>, <<"queued", "drafted">>,
                              <<"drafted", "ready">>, <<"lead", "ready">>, <<"queued", "ready">>}
                        /\ T.jobs[job].materials = "good"
                        /\ \E i \in DOMAIN v1.runs :
                             /\ v1.runs[i].job = job
                             /\ v1.runs[i].routine = IF T.jobs[job].status = "ready" THEN "finalize-job"
                                                                                  ELSE "first-draft-job"
                             /\ v1.runs[i] # T.runs[i] /\ T.runs[i].status \in {"done", "stopped"}
      BY <1>1 DEF Panel!MovesOnEvidence
    <2>1. Moves(DOMAIN v1.runs, v1, T, job)
      BY <1>1 DEF PanelArrives, Panel!OwnerSetsStatus
    <2>2. ASSUME NEW routine, ClosesOn(DOMAIN v1.runs, v1, T, routine, job)
          PROVE  \E i \in DOMAIN v1.runs :
                   /\ v1.runs[i].job = job /\ v1.runs[i].routine = routine
                   /\ v1.runs[i] # T.runs[i] /\ T.runs[i].status \in {"done", "stopped"}
      BY <2>2 DEF ClosesOn, ClosedWell
    <2>3. CASE T.jobs[job].status = "drafted"
      BY <2>1, <2>2, <2>3 DEF Moves
    <2>4. CASE T.jobs[job].status = "ready"
      BY <2>1, <2>2, <2>4 DEF Moves
    <2> QED BY <2>1, <2>3, <2>4 DEF Moves
  <1> QED BY <1>1, <1>2, <1>3, <1>4, <1>5 DEF Panel!PanelInv

\* What a step finds.
LEMMA PanelBefore ==
  ASSUME Panel!PanelInv
  PROVE  /\ Panel!Sound(v1) /\ PanelBusy(v1) /\ v1 \in Panel!States
         /\ v1.runs \in Seq(Panel!RunRecords) /\ v1.rows \in Seq(Panel!RowRecords)
         /\ v1.jobs \in [PanelJobs -> Panel!JobRecords]
         /\ PanelSlots \in Nat /\ PanelSlots > 0
         /\ \A i \in DOMAIN v1.runs : v1.runs[i] \in Panel!RunRecords /\ Panel!RunSound(v1.runs[i], v1.rows)
         /\ \A k \in DOMAIN v1.rows : v1.rows[k] \in Panel!RowRecords
  <1>1. Panel!Sound(v1)
    BY DEF Panel!PanelInv
  <1>2. PanelBusy(v1)
    BY DEF Panel!PanelInv, Panel!NoIdleSlot, PanelBusy
  <1> QED BY <1>1, <1>2, PanelTyped, PanelConstants

\* A step with the evidence of the runs there were.
LEMMA EvolvesArrives ==
  ASSUME NEW T, Panel!Sound(T), PanelBusy(T), Evolves(DOMAIN v1.runs, v1, T)
  PROVE  PanelArrives(T)
  BY DEF PanelArrives, Evolves

\* A step that moves no job.
LEMMA SameArrives ==
  ASSUME NEW T, Panel!Sound(T), PanelBusy(T), DOMAIN v1.rows \subseteq DOMAIN T.rows,
         \A job \in PanelJobs : T.jobs[job].status = v1.jobs[job].status
  PROVE  PanelArrives(T)
  BY DEF PanelArrives, Moves

\* What was busy stays so while the runs and the queue are the same.
LEMMA PanelBusyKept ==
  ASSUME NEW S, PanelBusy(S), NEW T, T.runs = S.runs, T.queue = S.queue
  PROVE  PanelBusy(T)
  BY DEF PanelBusy, Panel!RunningCount

\* A run from the panel.
LEMMA PostRunStep ==
  ASSUME Panel!PanelInv, NEW routine \in Panel!Routines, NEW job \in PanelJobs,
         Panel!PostRun(routine, job)
  PROVE  Panel!PanelInv' /\ Panel!MovesOnEvidence
  <1> DEFINE P == Panel!ReconcileRunnerRoutedRuns(v1)
             D == DOMAIN v1.runs
  <1>1. Panel!Sound(P) /\ Evolves(D, v1, P) /\ PanelBusy(P)
    BY PanelBefore, RunsSynced DEF Panel!ReconcileRunnerRoutedRuns, SyncedBy
  <1>2. IF Panel!HasPendingOrActiveRun(P, routine, job) \/ Panel!RunningCount(P) >= PanelSlots
        THEN Panel!Becomes(P) ELSE Panel!Becomes(Panel!StartRun(P, routine, job))
    BY DEF Panel!PostRun
  <1> HIDE DEF P
  <1>3. CASE Panel!HasPendingOrActiveRun(P, routine, job) \/ Panel!RunningCount(P) >= PanelSlots
    BY <1>1, <1>2, <1>3, EvolvesArrives, PanelArrive
  <1>4. CASE ~(Panel!HasPendingOrActiveRun(P, routine, job) \/ Panel!RunningCount(P) >= PanelSlots)
    <2> DEFINE T == Panel!StartRun(P, routine, job)
    <2>1. /\ \A i \in DOMAIN P.runs :
               ~(P.runs[i].status = "running" /\ P.runs[i].routine = routine /\ P.runs[i].job = job)
          /\ \A n \in DOMAIN P.queue : P.queue[n] # [routine |-> routine, job |-> job]
      BY <1>4 DEF Panel!HasPendingOrActiveRun
    <2>2. Panel!RunningCount(P) < PanelSlots
      BY <1>1, <1>4, PanelTyped, PanelConstants
    <2>3. /\ Panel!Sound(T) /\ Evolves(D, P, T) /\ T.queue = P.queue
          /\ \A i \in DOMAIN P.runs : T.runs[i] = P.runs[i]
      BY <1>1, <2>1, <2>2, Started
    <2>4. Panel!Becomes(T)
      BY <1>2, <1>4
    <2> HIDE DEF T
    <2>5. Evolves(D, v1, T)
      BY <1>1, <2>3, EvolvesOn
    <2>6. PanelBusy(T)
      <3>1. P.queue = <<>> \/ \E i \in DOMAIN P.runs : P.runs[i].status = "stopped" /\ P.runs[i].proc
        BY <1>1, <1>4, PanelConstants DEF PanelBusy
      <3>2. CASE P.queue = <<>>
        BY <2>3, <3>2 DEF PanelBusy
      <3>3. CASE P.queue # <<>>
        <4>1. PICK i \in DOMAIN P.runs : P.runs[i].status = "stopped" /\ P.runs[i].proc
          BY <3>1, <3>3
        <4>2. i \in DOMAIN T.runs /\ T.runs[i] = P.runs[i]
          BY <2>3, <4>1 DEF Evolves
        <4> QED BY <4>1, <4>2 DEF PanelBusy
      <3> QED BY <3>2, <3>3
    <2> QED BY <2>3, <2>4, <2>5, <2>6, EvolvesArrives, PanelArrive
  <1> QED BY <1>3, <1>4

\* A batch.
LEMMA PostBatchStep ==
  ASSUME Panel!PanelInv, NEW routine \in Panel!Routines, NEW jobIds \in Panel!Batches,
         Panel!PostBatch(routine, jobIds)
  PROVE  Panel!PanelInv' /\ Panel!MovesOnEvidence
  <1> DEFINE P == Panel!ReconcileRunnerRoutedRuns(v1)
             Q == Panel!Queued(P, routine, jobIds)
             T == Panel!ProcessQueue(Q)
             D == DOMAIN v1.runs
  <1>1. Panel!Sound(P) /\ Evolves(D, v1, P)
    BY PanelBefore, RunsSynced DEF Panel!ReconcileRunnerRoutedRuns, SyncedBy
  <1>2. Panel!Becomes(T)
    BY DEF Panel!PostBatch
  <1> HIDE DEF P
  <1>3. PICK N \in Nat : jobIds \in [1 .. N -> PanelJobs]
    BY PanelConstants DEF Panel!Batches
  <1>4. QueuedBy(P, Q)
    BY <1>1, <1>3, JobsQueued
  <1> HIDE DEF Q
  <1>5. Evolves(D, P, Q) /\ Panel!Sound(Q) /\ D \in SUBSET DOMAIN Q.runs
    <2>1. Evolves(D, P, Q)
      BY <1>4, EvolvesSelf DEF QueuedBy
    <2> QED BY <1>1, <1>4, <2>1 DEF QueuedBy, Evolves
  <1>6. /\ Panel!Sound(T) /\ Evolves(D, Q, T)
        /\ T.queue = <<>> \/ Panel!RunningCount(T) = PanelSlots
    BY <1>5, PanelDrained
  <1> HIDE DEF T
  <1>7. Evolves(D, v1, T)
    <2>1. Evolves(D, v1, Q)
      BY <1>1, <1>5, EvolvesOn
    <2> QED BY <1>6, <2>1, EvolvesOn
  <1>8. PanelBusy(T)
    BY <1>6 DEF PanelBusy
  <1> QED BY <1>2, <1>6, <1>7, <1>8, EvolvesArrives, PanelArrive

\* Polls: of one run, of all.
LEMMA PollStep ==
  ASSUME Panel!PanelInv, Panel!PollBatch \/ \E i \in DOMAIN v1.runs : Panel!PollRun(i)
  PROVE  Panel!PanelInv' /\ Panel!MovesOnEvidence
  <1> DEFINE D == DOMAIN v1.runs
  <1>1. CASE Panel!PollBatch
    <2> DEFINE T == Panel!ReconcileRunnerRoutedRuns(v1)
    <2>1. Panel!Sound(T) /\ Evolves(D, v1, T) /\ PanelBusy(T)
      BY PanelBefore, RunsSynced DEF Panel!ReconcileRunnerRoutedRuns, SyncedBy
    <2>2. Panel!Becomes(T)
      BY <1>1 DEF Panel!PollBatch
    <2> HIDE DEF T
    <2> QED BY <2>1, <2>2, EvolvesArrives, PanelArrive
  <1>2. CASE \E i \in DOMAIN v1.runs : Panel!PollRun(i)
    <2>1. PICK i \in DOMAIN v1.runs : Panel!PollRun(i)
      BY <1>2
    <2> DEFINE T == Panel!SyncRun(v1, i)
    <2>2. Panel!Sound(T) /\ Evolves(D, v1, T) /\ PanelBusy(T)
      BY PanelBefore, RunSynced
    <2>3. Panel!Becomes(T)
      BY <2>1 DEF Panel!PollRun
    <2> HIDE DEF T
    <2> QED BY <2>2, <2>3, EvolvesArrives, PanelArrive
  <1> QED BY <1>1, <1>2

\* A stop: of a queued row it is a cancel, of a process a kill.
LEMMA StopPanelRunStep ==
  ASSUME Panel!PanelInv, NEW i \in DOMAIN v1.runs, Panel!StopRun(i)
  PROVE  Panel!PanelInv' /\ Panel!MovesOnEvidence
  <1> DEFINE P == Panel!SyncRun(v1, i)
             D == DOMAIN v1.runs
             run == P.runs[i]
             r == [run EXCEPT !.status = "stopped"]
  <1>1. Panel!Sound(P) /\ Evolves(D, v1, P) /\ PanelBusy(P)
    BY PanelBefore, RunSynced
  <1>2. IF run.row # 0 /\ run.status = "running"
        THEN IF P.rows[run.row].status = "queued"
             THEN Panel!Becomes(Panel!ProcessQueue([P EXCEPT !.rows[run.row].status = "failed",
                                                             !.runs[i].status = "stopped"]))
             ELSE Panel!Becomes(P)
        ELSE IF run.proc THEN Panel!Becomes([P EXCEPT !.runs[i].status = "stopped"]) ELSE Panel!Becomes(P)
    BY DEF Panel!StopRun
  <1> HIDE DEF P
  <1>3. CASE Panel!Becomes(P)
    BY <1>1, <1>3, EvolvesArrives, PanelArrive
  <1>4. /\ i \in DOMAIN P.runs /\ run \in Panel!RunRecords /\ Panel!RunSound(run, P.rows)
        /\ P \in Panel!States /\ D \in SUBSET DOMAIN P.runs
    BY <1>1, PanelTyped DEF Evolves
  <1>5. /\ r \in Panel!RunRecords /\ r.status = "stopped" /\ r.row = run.row /\ r.proc = run.proc
        /\ r.routine = run.routine /\ r.job = run.job
    <2> HIDE DEF run
    <2> QED BY <1>4 DEF Panel!RunRecords
  <1>6. CASE /\ run.row # 0 /\ run.status = "running" /\ P.rows[run.row].status = "queued"
             /\ Panel!Becomes(Panel!ProcessQueue([P EXCEPT !.rows[run.row].status = "failed",
                                                           !.runs[i].status = "stopped"]))
    <2> DEFINE k == run.row
               e == [P.rows[k] EXCEPT !.status = "failed"]
               Q == [P EXCEPT !.rows = [P.rows EXCEPT ![k] = e]]
               U == [Q EXCEPT !.runs = [Q.runs EXCEPT ![i] = r]]
               T == Panel!ProcessQueue(U)
    <2>1. k \in DOMAIN P.rows /\ P.rows[k] \in Panel!RowRecords
      BY <1>1, <1>4, <1>6, PanelTyped DEF Panel!RunSound
    <2>2. Panel!Becomes(T)
      <3>1. U = [P EXCEPT !.rows[run.row].status = "failed", !.runs[i].status = "stopped"]
        BY <1>4 DEF Panel!States
      <3> HIDE DEF U, r, run
      <3> QED BY <1>6, <3>1
    <2> HIDE DEF T
    <2>3. e \in Panel!RowRecords /\ e.status = "failed"
      <3> HIDE DEF k
      <3> QED BY <2>1 DEF Panel!RowRecords
    <2> HIDE DEF e
    <2>4. P.rows[k].status \in Panel!Pending
      BY <1>6 DEF Panel!Pending
    <2>5. /\ Panel!Sound(Q) /\ Evolves(D, P, Q) /\ Q.runs = P.runs /\ Q.rows[k] = e
          /\ DOMAIN Q.rows = DOMAIN P.rows
      <3> HIDE DEF k
      <3> QED BY SMTT(30), <1>1, <2>1, <2>3, <2>4, RowChanged
    <2> HIDE DEF Q
    <2>6. Panel!RunSound(r, Q.rows)
      <3> HIDE DEF r
      <3> QED BY <1>4, <1>5, <1>6, <2>1, <2>3, <2>5 DEF Panel!RunSound, Panel!Pending
    <2> HIDE DEF k
    <2>7. Panel!Sound(U) /\ Evolves(D, Q, U)
      <3>1. /\ i \in DOMAIN Q.runs /\ Q.runs[i] = run
            /\ run.status # "running" => r.status = run.status
        BY <1>4, <1>6, <2>5
      <3> HIDE DEF r, run
      <3> QED BY <1>5, <2>5, <2>6, <3>1, RunChanged
    <2> HIDE DEF U
    <2>8. Evolves(D, P, U) /\ D \in SUBSET DOMAIN U.runs
      BY ZenonT(60), <1>4, <2>5, <2>7, EvolvesOn DEF Evolves
    <2>9. /\ Panel!Sound(T) /\ Evolves(D, U, T)
          /\ T.queue = <<>> \/ Panel!RunningCount(T) = PanelSlots
      BY <2>7, <2>8, PanelDrained DEF T
    <2>10. Evolves(D, v1, T)
      <3>1. Evolves(D, v1, U)
        BY <1>1, <2>8, EvolvesOn
      <3> QED BY <2>9, <3>1, EvolvesOn
    <2>11. PanelBusy(T)
      BY <2>9 DEF PanelBusy
    <2> QED BY SMTT(30), <2>2, <2>9, <2>10, <2>11, EvolvesArrives, PanelArrive
  <1>7. CASE run.proc /\ Panel!Becomes([P EXCEPT !.runs[i].status = "stopped"])
    <2> DEFINE T == [P EXCEPT !.runs = [P.runs EXCEPT ![i] = r]]
    <2>1. Panel!Becomes(T)
      BY <1>7
    <2>2. Panel!RunSound(r, P.rows) /\ (run.status # "running" => r.status = run.status)
      <3> HIDE DEF r, run
      <3> QED BY <1>4, <1>5, <1>7 DEF Panel!RunSound
    <2>3. Panel!Sound(T) /\ Evolves(D, P, T) /\ DOMAIN T.runs = DOMAIN P.runs /\ T.runs[i] = r
      <3> HIDE DEF r
      <3> QED BY <1>1, <1>4, <1>5, <2>2, RunChanged
    <2> HIDE DEF T
    <2>4. Evolves(D, v1, T)
      BY <1>1, <2>3, EvolvesOn
    <2>5. PanelBusy(T)
      BY <1>4, <1>5, <1>7, <2>3 DEF PanelBusy
    <2> QED BY <2>1, <2>3, <2>4, <2>5, EvolvesArrives, PanelArrive
  <1> QED BY <1>2, <1>3, <1>6, <1>7

\* Rows without a run: from the agent-jobs endpoint and from the nightly scheduler.
LEMMA RowsAdded ==
  ASSUME Panel!PanelInv, NEW new \in Seq(Panel!RowRecords),
         \A n \in DOMAIN new : new[n].attempts < RowAttempts,
         NEW T, T = [v1 EXCEPT !.rows = v1.rows \o new]
  PROVE  PanelArrives(T)
  <1> DEFINE rows == v1.rows \o new
  <1>1. /\ Panel!Sound(v1) /\ PanelBusy(v1) /\ v1 \in Panel!States /\ v1.rows \in Seq(Panel!RowRecords)
        /\ \A k \in DOMAIN v1.rows : v1.rows[k].status = "queued" => v1.rows[k].attempts < RowAttempts
    BY PanelBefore DEF Panel!Sound
  <1>2. /\ rows \in Seq(Panel!RowRecords) /\ Len(rows) = Len(v1.rows) + Len(new)
        /\ \A k \in 1 .. Len(rows) :
             rows[k] = IF k <= Len(v1.rows) THEN v1.rows[k] ELSE new[k - Len(v1.rows)]
    BY <1>1, ConcatProperties
  <1>3. T = [v1 EXCEPT !.rows = rows]
    OBVIOUS
  <1> HIDE DEF rows
  <1>4. /\ DOMAIN v1.rows = 1 .. Len(v1.rows) /\ Len(v1.rows) \in Nat
        /\ DOMAIN new = 1 .. Len(new) /\ Len(new) \in Nat
        /\ DOMAIN rows = 1 .. Len(v1.rows) + Len(new)
    BY <1>1, <1>2
  <1>5. /\ DOMAIN v1.rows \subseteq DOMAIN rows /\ \A k \in DOMAIN v1.rows : rows[k] = v1.rows[k]
    BY <1>2, <1>4
  <1>6. \A k \in DOMAIN rows : rows[k].status = "queued" => rows[k].attempts < RowAttempts
    <2> SUFFICES ASSUME NEW k \in DOMAIN rows, rows[k].status = "queued"
                 PROVE  rows[k].attempts < RowAttempts
      OBVIOUS
    <2>1. CASE k <= Len(v1.rows)
      <3>1. k \in DOMAIN v1.rows /\ rows[k] = v1.rows[k]
        BY <1>4, <1>5, <2>1
      <3> QED BY <1>1, <3>1
    <2>2. CASE ~(k <= Len(v1.rows))
      <3>1. k - Len(v1.rows) \in DOMAIN new
        BY <1>4, <2>2
      <3>2. rows[k] = new[k - Len(v1.rows)]
        BY <1>2, <1>4, <2>2
      <3> QED BY <3>1, <3>2
    <2> QED BY <2>1, <2>2
  <1>7. /\ T \in Panel!States /\ T.rows = rows /\ T.runs = v1.runs /\ T.queue = v1.queue /\ T.jobs = v1.jobs
    BY <1>1, <1>2, <1>3 DEF Panel!States
  <1>8. \A i \in DOMAIN T.runs : Panel!RunSound(T.runs[i], T.rows)
    BY <1>1, <1>5, <1>7 DEF Panel!Sound, Panel!RunSound
  <1>9. Panel!Unique(T) /\ Panel!RunningCount(T) <= PanelSlots
    <2>1. Panel!Unique(v1) /\ Panel!RunningCount(v1) <= PanelSlots
      BY <1>1 DEF Panel!Sound
    <2>2. T.runs = v1.runs /\ T.queue = v1.queue
      BY <1>7
    <2>3. Panel!Unique(T)
      BY <2>1, <2>2 DEF Panel!Unique
    <2>4. Panel!RunningCount(T) = Panel!RunningCount(v1)
      BY <2>2 DEF Panel!RunningCount
    <2> QED BY <2>1, <2>3, <2>4
  <1>10. Panel!Sound(T)
    BY <1>6, <1>7, <1>8, <1>9 DEF Panel!Sound
  <1>11. PanelBusy(T)
    BY <1>1, <1>7, PanelBusyKept
  <1> QED BY <1>5, <1>7, <1>10, <1>11, SameArrives

LEMMA RowsStep ==
  ASSUME Panel!PanelInv,
         \/ Panel!AutoDraft
         \/ \E routine \in Panel!Routines, job \in PanelJobs : Panel!PostAgentJob(routine, job)
  PROVE  Panel!PanelInv' /\ Panel!MovesOnEvidence
  <1>1. ASSUME NEW routine \in Panel!Routines, NEW job \in PanelJobs
        PROVE  /\ Panel!Row(routine, job) \in Panel!RowRecords
               /\ Panel!Row(routine, job).attempts < RowAttempts
    BY PanelConstants DEF Panel!Row, Panel!RowRecords, Panel!Pending
  <1>2. CASE Panel!AutoDraft
    <2>1. PICK selected \in SUBSET PanelJobs :
            \E order \in Panel!SetToSeqs(selected) :
              Panel!Becomes([v1 EXCEPT !.rows =
                @ \o [n \in DOMAIN order |-> Panel!Row("first-draft-job", order[n])]])
      BY <1>2 DEF Panel!AutoDraft
    <2>2. PICK order \in Panel!SetToSeqs(selected) :
            Panel!Becomes([v1 EXCEPT !.rows =
              @ \o [n \in DOMAIN order |-> Panel!Row("first-draft-job", order[n])]])
      BY <2>1
    <2>3. order \in Seq(PanelJobs)
      <3>1. IsFiniteSet(selected) /\ Cardinality(selected) \in Nat
        BY PanelConstants, FS_Subset, FS_CardinalityType
      <3>2. order \in [1 .. Cardinality(selected) -> selected]
        BY SamePanelCount DEF Panel!SetToSeqs
      <3> QED BY <3>1, <3>2
    <2> DEFINE new == [n \in DOMAIN order |-> Panel!Row("first-draft-job", order[n])]
               T == [v1 EXCEPT !.rows = v1.rows \o new]
    <2>4. "first-draft-job" \in Panel!Routines
      BY DEF Panel!Routines
    <2>5. \A n \in DOMAIN order : new[n] \in Panel!RowRecords /\ new[n].attempts < RowAttempts
      BY <1>1, <2>3, <2>4
    <2>6. new \in Seq(Panel!RowRecords) /\ DOMAIN new = DOMAIN order
      <3>1. new = [n \in DOMAIN order |-> new[n]]
        OBVIOUS
      <3> HIDE DEF new
      <3> QED BY <2>3, <2>5, <3>1, Mapped
    <2>7. Panel!Becomes(T)
      BY <2>2
    <2> HIDE DEF new
    <2>8. PanelArrives(T)
      <3> HIDE DEF T
      <3> QED BY <2>5, <2>6, RowsAdded DEF T
    <2> HIDE DEF T
    <2> QED BY <2>7, <2>8, PanelArrive
  <1>3. CASE \E routine \in Panel!Routines, job \in PanelJobs : Panel!PostAgentJob(routine, job)
    <2>1. PICK routine \in Panel!Routines, job \in PanelJobs : Panel!PostAgentJob(routine, job)
      BY <1>3
    <2> DEFINE e == Panel!Row(routine, job)
               new == <<e>>
               T == [v1 EXCEPT !.rows = v1.rows \o new]
    <2>2. e \in Panel!RowRecords /\ e.attempts < RowAttempts
      BY <1>1
    <2>3. Panel!Becomes([v1 EXCEPT !.rows = Append(@, e)])
      BY <2>1 DEF Panel!PostAgentJob
    <2> HIDE DEF e
    <2>4. new \in Seq(Panel!RowRecords) /\ \A n \in DOMAIN new : new[n].attempts < RowAttempts
      BY <2>2
    <2>5. Append(v1.rows, e) = v1.rows \o new
      BY <2>2, PanelBefore
    <2>6. Panel!Becomes(T)
      BY <2>3, <2>5
    <2> HIDE DEF new
    <2>7. PanelArrives(T)
      <3> HIDE DEF T
      <3> QED BY <2>4, RowsAdded DEF T
    <2> HIDE DEF T
    <2> QED BY <2>6, <2>7, PanelArrive
  <1> QED BY <1>2, <1>3

\* A row is claimed, or its lease swept.
LEMMA RowMovesStep ==
  ASSUME Panel!PanelInv, NEW k \in DOMAIN v1.rows, Panel!RunnerClaims(k) \/ Panel!LeaseSwept(k)
  PROVE  Panel!PanelInv' /\ Panel!MovesOnEvidence
  <1> DEFINE row == v1.rows[k]
  <1>1. /\ Panel!Sound(v1) /\ PanelBusy(v1) /\ v1 \in Panel!States /\ row \in Panel!RowRecords
        /\ row.status = "queued" => row.attempts < RowAttempts
    BY PanelBefore DEF Panel!Sound
  <1>2. PICK e \in Panel!RowRecords :
          /\ row.status \in Panel!Pending /\ (e.status = "queued" => e.attempts < RowAttempts)
          /\ Panel!Becomes([v1 EXCEPT !.rows = [v1.rows EXCEPT ![k] = e]])
    <2>1. CASE Panel!RunnerClaims(k)
      <3> DEFINE e == [row EXCEPT !.status = "held", !.attempts = row.attempts + 1]
      <3>1. row.status = "queued"
        BY <2>1 DEF Panel!RunnerClaims
      <3>2. e \in Panel!RowRecords /\ e.status = "held"
        <4>1. row.attempts \in 0 .. RowAttempts /\ row.attempts < RowAttempts
          BY <1>1, <3>1 DEF Panel!RowRecords
        <4>2. row.attempts + 1 \in 0 .. RowAttempts
          <5> HIDE DEF row
          <5> QED BY <4>1, PanelConstants
        <4>3. "held" \in Panel!Pending
          BY DEF Panel!Pending
        <4> HIDE DEF row
        <4> QED BY <1>1, <4>2, <4>3 DEF Panel!RowRecords
      <3>3. [v1 EXCEPT !.rows[k].status = "held", !.rows[k].attempts = @ + 1]
              = [v1 EXCEPT !.rows = [v1.rows EXCEPT ![k] = e]]
        BY <1>1 DEF Panel!States, Panel!RowRecords
      <3>4. Panel!Becomes([v1 EXCEPT !.rows = [v1.rows EXCEPT ![k] = e]])
        <4> HIDE DEF e
        <4> QED BY <2>1, <3>3 DEF Panel!RunnerClaims
      <3> HIDE DEF e
      <3> QED BY <3>1, <3>2, <3>4 DEF Panel!Pending
    <2>2. CASE Panel!LeaseSwept(k)
      <3> DEFINE status == IF row.attempts >= RowAttempts THEN "dead" ELSE "queued"
                 e == [row EXCEPT !.status = status]
      <3>1. row.status = "held" /\ Panel!Becomes([v1 EXCEPT !.rows[k].status = status])
        BY <2>2 DEF Panel!LeaseSwept
      <3>2. status \in {"dead", "queued"} /\ (status = "queued" => row.attempts < RowAttempts)
        <4>1. row.attempts \in Nat
          BY <1>1, PanelConstants DEF Panel!RowRecords
        <4> HIDE DEF row
        <4> QED BY <4>1, PanelConstants
      <3> HIDE DEF status
      <3>3. e \in Panel!RowRecords /\ e.status = status /\ e.attempts = row.attempts
        <4> HIDE DEF row
        <4> QED BY <1>1, <3>2 DEF Panel!RowRecords, Panel!Pending
      <3>4. Panel!Becomes([v1 EXCEPT !.rows = [v1.rows EXCEPT ![k] = e]])
        BY <3>1
      <3> HIDE DEF e
      <3> QED BY <3>1, <3>2, <3>3, <3>4 DEF Panel!Pending
    <2> QED BY <2>1, <2>2
  <1> DEFINE T == [v1 EXCEPT !.rows = [v1.rows EXCEPT ![k] = e]]
  <1>3. /\ Panel!Sound(T) /\ Evolves(DOMAIN v1.runs, v1, T) /\ T.queue = v1.queue /\ T.runs = v1.runs
    BY SMTT(30), <1>1, <1>2, RowChanged
  <1>4. Panel!Becomes(T)
    BY <1>2
  <1> HIDE DEF T
  <1>5. PanelBusy(T)
    BY <1>1, <1>3, PanelBusyKept
  <1> QED BY <1>3, <1>4, <1>5, EvolvesArrives, PanelArrive

\* A laptop delivers, or gives up.
LEMMA ReportStep ==
  ASSUME Panel!PanelInv, NEW k \in DOMAIN v1.rows, NEW done \in BOOLEAN, Panel!RunnerReports(k, done)
  PROVE  Panel!PanelInv' /\ Panel!MovesOnEvidence
  <1> DEFINE row == v1.rows[k]
             ok == done /\ Panel!DraftDone(v1.jobs[row.job])
             status == IF ok THEN "done" ELSE "failed"
             e == [row EXCEPT !.status = status]
             P == [v1 EXCEPT !.rows = [v1.rows EXCEPT ![k] = e]]
             which == {i \in DOMAIN P.runs : P.runs[i].row = k}
             T == Panel!SyncRuns(P, which)
             D == DOMAIN v1.runs
  <1>1. /\ Panel!Sound(v1) /\ PanelBusy(v1) /\ v1 \in Panel!States /\ row \in Panel!RowRecords
    BY PanelBefore
  <1>2. row.status = "held" /\ Panel!Becomes(T)
    BY DEF Panel!RunnerReports
  <1> HIDE DEF T, which
  <1>3. status \in {"done", "failed"}
    OBVIOUS
  <1> HIDE DEF status
  <1>4. e \in Panel!RowRecords /\ e.status # "queued"
    <2> HIDE DEF row
    <2> QED BY <1>1, <1>3 DEF Panel!RowRecords
  <1> HIDE DEF e
  <1>5. row.status \in Panel!Pending
    BY <1>2 DEF Panel!Pending
  <1>6. Panel!Sound(P) /\ Evolves(D, v1, P) /\ P.queue = v1.queue /\ P.runs = v1.runs
    BY <1>1, <1>4, <1>5, RowChanged
  <1> HIDE DEF P
  <1>7. PanelBusy(P) /\ DOMAIN P.runs = D
    BY <1>1, <1>6, PanelBusyKept
  <1>8. SyncedBy(P, T)
    BY <1>6, <1>7, RunsSynced DEF T
  <1>9. Panel!Sound(T) /\ PanelBusy(T) /\ Evolves(D, v1, T)
    BY <1>6, <1>7, <1>8, EvolvesOn DEF SyncedBy
  <1> QED BY <1>2, <1>9, EvolvesArrives, PanelArrive

\* Materials come, or the owner edits a job: statuses stay, or are the owner's.
LEMMA JobsChanged ==
  ASSUME Panel!PanelInv, NEW job \in PanelJobs, NEW c \in Panel!JobRecords,
         NEW T, T = [v1 EXCEPT !.jobs = [v1.jobs EXCEPT ![job] = c]],
         \/ c.status = v1.jobs[job].status
         \/ c.status # v1.jobs[job].status /\ c = [v1.jobs[job] EXCEPT !.status = c.status]
  PROVE  PanelArrives(T)
  <1> DEFINE jobs == [v1.jobs EXCEPT ![job] = c]
  <1>1. /\ Panel!Sound(v1) /\ PanelBusy(v1) /\ v1 \in Panel!States
        /\ v1.jobs \in [PanelJobs -> Panel!JobRecords]
    BY PanelBefore
  <1>2. /\ jobs \in [PanelJobs -> Panel!JobRecords] /\ jobs[job] = c
        /\ \A j \in PanelJobs : j # job => jobs[j] = v1.jobs[j]
    BY <1>1
  <1>3. T = [v1 EXCEPT !.jobs = jobs]
    OBVIOUS
  <1> HIDE DEF jobs
  <1>4. /\ T \in Panel!States /\ T.jobs = jobs /\ T.runs = v1.runs /\ T.rows = v1.rows
        /\ T.queue = v1.queue
    BY <1>1, <1>2, <1>3 DEF Panel!States
  <1>5. Panel!Sound(T)
    BY <1>1, <1>4 DEF Panel!Sound, Panel!Unique, Panel!RunningCount
  <1>6. PanelBusy(T)
    BY <1>1, <1>4, PanelBusyKept
  <1>7. CASE c.status = v1.jobs[job].status
    <2>1. \A j \in PanelJobs : T.jobs[j].status = v1.jobs[j].status
      BY <1>2, <1>4, <1>7
    <2> QED BY <1>4, <1>5, <1>6, <2>1, SameArrives
  <1>8. CASE c.status # v1.jobs[job].status /\ c = [v1.jobs[job] EXCEPT !.status = c.status]
    <2>1. ASSUME NEW j \in PanelJobs, j # job PROVE Moves(DOMAIN v1.runs, v1, T, j)
      BY <1>2, <1>4, <2>1 DEF Moves
    <2>2. c.status \in Panel!Statuses
      BY DEF Panel!JobRecords
    <2>3. T = [v1 EXCEPT !.jobs[job].status = c.status]
      BY <1>3, <1>8 DEF jobs
    <2>4. T.jobs[job].status = c.status
      BY <1>2, <1>4
    <2> QED BY <1>4, <1>5, <1>6, <1>8, <2>1, <2>2, <2>3, <2>4 DEF PanelArrives
  <1> QED BY <1>7, <1>8

\* New materials, from a laptop or a process.
LEMMA MaterialsStep ==
  ASSUME Panel!PanelInv, NEW job \in PanelJobs, NEW routine, NEW quality \in {"good", "overlong"},
         Panel!NewMaterials(v1, job, routine, quality)
  PROVE  Panel!PanelInv' /\ Panel!MovesOnEvidence
  <1>1. PICK gaps \in Panel!GapsAfter(routine) :
          Panel!Becomes([v1 EXCEPT !.jobs[job].materials = quality, !.jobs[job].gaps = gaps])
    BY DEF Panel!NewMaterials
  <1>2. gaps \in {"older", "agent", "owner"}
    BY PanelConstants DEF Panel!GapsAfter
  <1> DEFINE old == v1.jobs[job]
             c == [old EXCEPT !.materials = quality, !.gaps = gaps]
             T == [v1 EXCEPT !.jobs = [v1.jobs EXCEPT ![job] = c]]
  <1>3. v1 \in Panel!States /\ v1.jobs \in [PanelJobs -> Panel!JobRecords] /\ old \in Panel!JobRecords
    BY PanelBefore
  <1>4. c \in Panel!JobRecords /\ c.status = old.status
    <2> HIDE DEF old
    <2> QED BY <1>2, <1>3 DEF Panel!JobRecords
  <1>5. T = [v1 EXCEPT !.jobs[job].materials = quality, !.jobs[job].gaps = gaps]
    BY <1>3 DEF Panel!States
  <1>6. Panel!Becomes(T)
    BY <1>1, <1>5
  <1> HIDE DEF c
  <1>7. PanelArrives(T)
    <2> HIDE DEF T
    <2> QED BY <1>4, JobsChanged DEF T
  <1> HIDE DEF T
  <1> QED BY <1>6, <1>7, PanelArrive

\* The owner sets a status, or saves the gaps note.
LEMMA OwnerEditsStep ==
  ASSUME Panel!PanelInv, NEW job \in PanelJobs,
         Panel!OwnerAnswersGaps(job) \/ \E status \in OwnerEdits : Panel!OwnerSetsStatus(job, status)
  PROVE  Panel!PanelInv' /\ Panel!MovesOnEvidence
  <1> DEFINE old == v1.jobs[job]
  <1>1. v1 \in Panel!States /\ v1.jobs \in [PanelJobs -> Panel!JobRecords] /\ old \in Panel!JobRecords
    BY PanelBefore
  <1>2. CASE Panel!OwnerAnswersGaps(job)
    <2> DEFINE c == [old EXCEPT !.gaps = "owner"]
               T == [v1 EXCEPT !.jobs = [v1.jobs EXCEPT ![job] = c]]
    <2>1. Panel!Becomes(T)
      BY <1>2 DEF Panel!OwnerAnswersGaps
    <2>2. c \in Panel!JobRecords /\ c.status = old.status
      <3> HIDE DEF old
      <3> QED BY <1>1 DEF Panel!JobRecords
    <2> HIDE DEF c
    <2>3. PanelArrives(T)
      <3> HIDE DEF T
      <3> QED BY <2>2, JobsChanged DEF T
    <2> HIDE DEF T
    <2> QED BY <2>1, <2>3, PanelArrive
  <1>3. CASE \E status \in OwnerEdits : Panel!OwnerSetsStatus(job, status)
    <2>1. PICK status \in OwnerEdits : Panel!OwnerSetsStatus(job, status)
      BY <1>3
    <2> DEFINE c == [old EXCEPT !.status = status]
               T == [v1 EXCEPT !.jobs = [v1.jobs EXCEPT ![job] = c]]
    <2>2. Panel!Becomes(T) /\ old.status # status
      BY <2>1 DEF Panel!OwnerSetsStatus
    <2>3. c \in Panel!JobRecords /\ c.status = status
      <3> HIDE DEF old
      <3> QED BY <1>1, PanelConstants DEF Panel!JobRecords
    <2>4. c.status # v1.jobs[job].status /\ c = [v1.jobs[job] EXCEPT !.status = c.status]
      BY <2>2, <2>3
    <2> HIDE DEF c
    <2>5. PanelArrives(T)
      <3> HIDE DEF T
      <3> QED BY <2>3, <2>4, JobsChanged DEF T
    <2> HIDE DEF T
    <2> QED BY <2>2, <2>5, PanelArrive
  <1> QED BY <1>2, <1>3

\* A local process closes.
LEMMA PanelProcClosesStep ==
  ASSUME Panel!PanelInv, NEW i \in DOMAIN v1.runs, NEW exit0 \in BOOLEAN, Panel!ProcCloses(i, exit0)
  PROVE  Panel!PanelInv' /\ Panel!MovesOnEvidence
  <1> DEFINE run == v1.runs[i]
             status == IF run.status # "running" THEN run.status ELSE IF exit0 THEN "done" ELSE "failed"
             r == [run EXCEPT !.status = status, !.proc = FALSE]
             Q == [v1 EXCEPT !.runs = [v1.runs EXCEPT ![i] = r]]
             A == Panel!MaybeAutoAdvanceJob(Q, run.routine, exit0, run.job)
             T == Panel!ProcessQueue(A)
             D == DOMAIN v1.runs
  <1>1. /\ Panel!Sound(v1) /\ v1 \in Panel!States /\ run \in Panel!RunRecords
        /\ Panel!RunSound(run, v1.rows)
    BY PanelBefore
  <1>2. run.proc
    BY DEF Panel!ProcCloses
  <1>3. Panel!Becomes(T)
    <2>1. Q = [v1 EXCEPT !.runs[i].status = status, !.runs[i].proc = FALSE]
      BY <1>1 DEF Panel!States
    <2> HIDE DEF Q
    <2> QED BY <2>1 DEF Panel!ProcCloses
  <1> HIDE DEF T, A
  <1>4. run.row = 0 /\ run.status \in {"running", "stopped"}
    BY <1>1, <1>2 DEF Panel!RunSound
  <1>5. /\ status \in {"stopped", "done", "failed"} /\ (run.status # "running" => status = run.status)
        /\ exit0 => status \in {"done", "stopped"}
    BY <1>4
  <1> HIDE DEF status
  <1>6. /\ r \in Panel!RunRecords /\ r.status = status /\ r.row = run.row /\ ~r.proc
        /\ r.routine = run.routine /\ r.job = run.job
    <2> HIDE DEF run
    <2> QED BY <1>1, <1>5 DEF Panel!RunRecords
  <1> HIDE DEF r
  <1>7. Panel!RunSound(r, v1.rows)
    BY <1>4, <1>6 DEF Panel!RunSound
  <1>8. /\ Panel!Sound(Q) /\ Evolves(D, v1, Q) /\ Q.jobs = v1.jobs
        /\ DOMAIN Q.runs = D /\ Q.runs[i] = r
    BY <1>1, <1>5, <1>6, <1>7, RunChanged
  <1> HIDE DEF Q
  <1>9. exit0 => ClosedWell(v1.runs[i], Q.runs[i])
    BY <1>2, <1>5, <1>6, <1>8 DEF ClosedWell
  <1>10. Panel!Sound(A) /\ Evolves(D, v1, A) /\ A.runs = Q.runs
    BY <1>1, <1>8, <1>9, Advanced DEF A
  <1>11. /\ Panel!Sound(T) /\ Evolves(D, A, T)
         /\ T.queue = <<>> \/ Panel!RunningCount(T) = PanelSlots
    BY <1>8, <1>10, PanelDrained DEF T
  <1>12. Evolves(D, v1, T) /\ PanelBusy(T)
    BY <1>10, <1>11, EvolvesOn DEF PanelBusy
  <1> QED BY <1>3, <1>11, <1>12, EvolvesArrives, PanelArrive

\* The Map and the queue are gone.
LEMMA PanelRestartStep ==
  ASSUME Panel!PanelInv, Panel!Restart
  PROVE  Panel!PanelInv' /\ Panel!MovesOnEvidence
  <1> DEFINE T == [v1 EXCEPT !.runs = <<>>, !.queue = <<>>]
  <1>1. Panel!Becomes(T)
    BY DEF Panel!Restart
  <1>2. /\ Panel!Sound(v1) /\ v1 \in Panel!States
    BY PanelBefore
  <1>3. /\ T \in Panel!States /\ T.runs = <<>> /\ T.queue = <<>> /\ T.rows = v1.rows /\ T.jobs = v1.jobs
    <2>1. <<>> \in Seq(Panel!RunRecords) /\ <<>> \in Seq(Panel!Items)
      OBVIOUS
    <2> QED BY <1>2, <2>1 DEF Panel!States
  <1> HIDE DEF T
  <1>4. Panel!RunningCount(T) <= PanelSlots
    <2>1. RunningAt(T) = {}
      BY <1>3 DEF RunningAt
    <2>2. T.runs \in Seq(Panel!RunRecords)
      BY <1>3
    <2>3. Panel!RunningCount(T) = Cardinality({})
      BY <2>1, <2>2, RunsCounted
    <2> QED BY <2>3, FS_EmptySet, PanelConstants
  <1>5. Panel!Sound(T)
    BY <1>2, <1>3, <1>4 DEF Panel!Sound, Panel!Unique
  <1>6. PanelArrives(T)
    <2>1. PanelBusy(T)
      BY <1>3 DEF PanelBusy
    <2> QED BY <1>3, <1>5, <2>1, SameArrives
  <1> QED BY <1>1, <1>6, PanelArrive


\* A laptop uploads, or a process writes.
LEMMA WritesStep ==
  ASSUME Panel!PanelInv,
         \/ \E k \in DOMAIN v1.rows : Panel!RunnerUploads(k)
         \/ \E i \in DOMAIN v1.runs : Panel!ProcWrites(i)
  PROVE  Panel!PanelInv' /\ Panel!MovesOnEvidence
  <1>1. CASE \E k \in DOMAIN v1.rows : Panel!RunnerUploads(k)
    <2>1. PICK k \in DOMAIN v1.rows : Panel!RunnerUploads(k)
      BY <1>1
    <2>2. v1.rows[k].job \in PanelJobs
      BY PanelBefore DEF Panel!RowRecords
    <2>3. Panel!NewMaterials(v1, v1.rows[k].job, v1.rows[k].routine, "good")
      BY <2>1 DEF Panel!RunnerUploads
    <2> QED BY <2>2, <2>3, MaterialsStep
  <1>2. CASE \E i \in DOMAIN v1.runs : Panel!ProcWrites(i)
    <2>1. PICK i \in DOMAIN v1.runs : Panel!ProcWrites(i)
      BY <1>2
    <2>2. v1.runs[i].job \in PanelJobs
      BY PanelBefore DEF Panel!RunRecords
    <2>3. PICK quality \in {"good", "overlong"} :
            Panel!NewMaterials(v1, v1.runs[i].job, v1.runs[i].routine, quality)
      BY <2>1 DEF Panel!ProcWrites
    <2> QED BY <2>2, <2>3, MaterialsStep
  <1> QED BY <1>1, <1>2

LEMMA PanelStart ==
  ASSUME Panel!Init
  PROVE  Panel!PanelInv
  <1>1. PICK given \in [PanelJobs -> {"lead", "queued"}] :
          v1 = [runs |-> <<>>, queue |-> <<>>, rows |-> <<>>,
                jobs |-> [job \in PanelJobs |-> [status |-> given[job], materials |-> "none",
                                                 gaps |-> "older"]]]
    BY DEF Panel!Init
  <1>2. v1.runs = <<>> /\ v1.queue = <<>> /\ v1.rows = <<>> /\ v2 = {}
    BY <1>1 DEF Panel!Init
  <1>3. v1 \in Panel!States
    <2> DEFINE jobs == [job \in PanelJobs |-> [status |-> given[job], materials |-> "none",
                                               gaps |-> "older"]]
    <2>1. /\ <<>> \in Seq(Panel!RunRecords) /\ <<>> \in Seq(Panel!Items)
          /\ <<>> \in Seq(Panel!RowRecords)
      OBVIOUS
    <2>2. jobs \in [PanelJobs -> Panel!JobRecords]
      BY DEF Panel!JobRecords, Panel!Statuses
    <2>3. v1 = [runs |-> <<>>, queue |-> <<>>, rows |-> <<>>, jobs |-> jobs]
      BY <1>1
    <2> HIDE DEF jobs
    <2> QED BY <2>1, <2>2, <2>3 DEF Panel!States
  <1>4. Panel!RunningCount(v1) <= PanelSlots
    <2>1. RunningAt(v1) = {}
      BY <1>2 DEF RunningAt
    <2>2. v1.runs \in Seq(Panel!RunRecords)
      BY <1>2
    <2>3. Panel!RunningCount(v1) = Cardinality({})
      BY <2>1, <2>2, RunsCounted
    <2> QED BY <2>3, FS_EmptySet, PanelConstants
  <1>5. Panel!Unique(v1)
    BY <1>2 DEF Panel!Unique
  <1>6. Panel!Sound(v1)
    BY <1>2, <1>3, <1>4, <1>5 DEF Panel!Sound
  <1>7. Panel!NoIdleSlot
    BY <1>2, <1>4 DEF Panel!NoIdleSlot
  <1> QED BY <1>2, <1>6, <1>7 DEF Panel!PanelInv

\* Every step of the panel keeps the invariant, and moves a job on evidence only.
LEMMA PanelStep ==
  ASSUME Panel!PanelInv, Panel!Next
  PROVE  Panel!PanelInv' /\ Panel!MovesOnEvidence
  <1>1. CASE Panel!Agents
    <2>1. CASE \E k \in DOMAIN v1.rows : Panel!RunnerClaims(k) \/ Panel!LeaseSwept(k)
      BY <2>1, RowMovesStep
    <2>2. CASE \E k \in DOMAIN v1.rows : \E done \in BOOLEAN : Panel!RunnerReports(k, done)
      BY <2>2, ReportStep
    <2>3. CASE \/ \E k \in DOMAIN v1.rows : Panel!RunnerUploads(k)
               \/ \E i \in DOMAIN v1.runs : Panel!ProcWrites(i)
      BY <2>3, WritesStep
    <2>4. CASE \E i \in DOMAIN v1.runs : \E exit0 \in BOOLEAN : Panel!ProcCloses(i, exit0)
      BY <2>4, PanelProcClosesStep
    <2> QED BY <1>1, <2>1, <2>2, <2>3, <2>4 DEF Panel!Agents
  <1>2. CASE Panel!Owner
    <2>1. CASE \E routine \in Panel!Routines, job \in PanelJobs : Panel!PostRun(routine, job)
      BY <2>1, PostRunStep
    <2>2. CASE \E routine \in Panel!Routines, job \in PanelJobs : Panel!PostAgentJob(routine, job)
      BY <2>2, RowsStep
    <2>3. CASE \E routine \in Panel!Routines, jobIds \in Panel!Batches : Panel!PostBatch(routine, jobIds)
      <3>1. PICK routine \in Panel!Routines, jobIds \in Panel!Batches : Panel!PostBatch(routine, jobIds)
        BY <2>3
      <3>2. jobIds \in Seq(PanelJobs)
        BY PanelConstants DEF Panel!Batches
      <3> QED BY <3>1, <3>2, PostBatchStep
    <2>4. CASE Panel!PollBatch \/ \E i \in DOMAIN v1.runs : Panel!PollRun(i)
      BY <2>4, PollStep
    <2>5. CASE \E i \in DOMAIN v1.runs : Panel!StopRun(i)
      BY <2>5, StopPanelRunStep
    <2>6. CASE \E job \in PanelJobs : \/ Panel!OwnerAnswersGaps(job)
                                      \/ \E s \in OwnerEdits : Panel!OwnerSetsStatus(job, s)
      BY <2>6, OwnerEditsStep
    <2> QED BY <1>2, <2>1, <2>2, <2>3, <2>4, <2>5, <2>6 DEF Panel!Owner
  <1>3. CASE Panel!AutoDraft
    BY <1>3, RowsStep
  <1>4. CASE Panel!Restart
    BY <1>4, PanelRestartStep
  <1> QED BY <1>1, <1>2, <1>3, <1>4 DEF Panel!Next

\* What the invariant says of the panel: a run and a job at most once, running or waiting;
\* and runs that tell what became of their rows.
LEMMA PanelHold ==
  ASSUME Panel!PanelInv
  PROVE  Panel!OneInstance /\ Panel!NoIdleSlot /\ Panel!RunTellsOutcome /\ Panel!PanelTypeOK
  <1>1. /\ Panel!Sound(v1) /\ v1.runs \in Seq(Panel!RunRecords) /\ v1.queue \in Seq(Panel!Items)
        /\ v1.rows \in Seq(Panel!RowRecords) /\ Panel!Unique(v1)
        /\ \A i \in DOMAIN v1.runs : v1.runs[i] \in Panel!RunRecords /\ Panel!RunSound(v1.runs[i], v1.rows)
        /\ \A k \in DOMAIN v1.rows : v1.rows[k] \in Panel!RowRecords
        /\ v1.jobs \in [PanelJobs -> Panel!JobRecords]
    BY PanelTyped DEF Panel!PanelInv, Panel!Sound
  <1>2. Panel!OneInstance
    <2> SUFFICES ASSUME NEW routine \in Panel!Routines, NEW job \in PanelJobs
                 PROVE  Panel!Cardinality({i \in DOMAIN v1.runs :
                          v1.runs[i].routine = routine /\ v1.runs[i].job = job
                            /\ v1.runs[i].status = "running"})
                        + Panel!Cardinality({i \in DOMAIN v1.queue :
                            v1.queue[i] = [routine |-> routine, job |-> job]}) <= 1
      BY DEF Panel!OneInstance
    <2> DEFINE A == {i \in DOMAIN v1.runs : v1.runs[i].routine = routine /\ v1.runs[i].job = job
                                              /\ v1.runs[i].status = "running"}
               B == {i \in DOMAIN v1.queue : v1.queue[i] = [routine |-> routine, job |-> job]}
    <2>1. \A i, j \in A : i = j
      BY <1>1 DEF Panel!Unique
    <2>2. \A m, n \in B : m = n
      BY <1>1 DEF Panel!Unique
    <2>3. A = {} \/ B = {}
      BY <1>1 DEF Panel!Unique
    <2> HIDE DEF A, B
    <2>4. A = {} \/ \E i : A = {i}
      BY <2>1
    <2>5. B = {} \/ \E i : B = {i}
      BY <2>2
    <2>6. Cardinality(A) \in {0, 1} /\ (A = {} => Cardinality(A) = 0)
      BY <2>4, FS_EmptySet, FS_Singleton
    <2>7. Cardinality(B) \in {0, 1} /\ (B = {} => Cardinality(B) = 0)
      BY <2>5, FS_EmptySet, FS_Singleton
    <2>8. Cardinality(A) + Cardinality(B) <= 1
      BY <2>3, <2>6, <2>7
    <2> QED BY <2>8, SamePanelCount DEF A, B
  <1>3. Panel!RunTellsOutcome
    BY <1>1 DEF Panel!RunTellsOutcome, Panel!RunSound
  <1>4. Panel!PanelTypeOK
    <2>1. ASSUME NEW i \in DOMAIN v1.runs
          PROVE  /\ v1.runs[i] \in [routine : Panel!Routines, job : PanelJobs, row : 0 .. Len(v1.rows),
                                    status : {"running", "done", "failed", "stopped"}, proc : BOOLEAN]
                 /\ v1.runs[i].proc => v1.runs[i].row = 0 /\ v1.runs[i].status \in {"running", "stopped"}
      <3>1. v1.runs[i] \in Panel!RunRecords /\ Panel!RunSound(v1.runs[i], v1.rows)
        BY <1>1
      <3>2. v1.runs[i].row \in 0 .. Len(v1.rows)
        <4>1. v1.runs[i].row \in DOMAIN v1.rows \cup {0}
          BY <3>1 DEF Panel!RunSound
        <4>2. DOMAIN v1.rows = 1 .. Len(v1.rows) /\ Len(v1.rows) \in Nat
          BY <1>1
        <4> QED BY <4>1, <4>2
      <3> QED BY <3>1, <3>2 DEF Panel!RunRecords, Panel!RunSound
    <2>2. v1.queue \in Seq([routine : Panel!Routines, job : PanelJobs])
      BY <1>1 DEF Panel!Items
    <2>3. v2 \subseteq DOMAIN v1.rows
      BY DEF Panel!PanelInv
    <2> QED BY <1>1, <2>1, <2>2, <2>3 DEF Panel!PanelTypeOK, Panel!RowRecords, Panel!JobRecords
  <1> QED BY <1>2, <1>3, <1>4 DEF Panel!PanelInv

-----------------------------------------------------------------------------
(***************************************************************************)
(* The run of MCRuns.                                                      *)
(***************************************************************************)
\* Both invariants are of v1 and v2.
LEMMA SameVars ==
  ASSUME UNCHANGED <<v1, v2>>
  PROVE  /\ Panel!PanelInv => Panel!PanelInv'
         /\ Src!SourcesInv => Src!SourcesInv'
  <1>1. v1' = v1 /\ v2' = v2
    OBVIOUS
  <1>2. Panel!PanelInv => Panel!PanelInv'
    BY <1>1 DEF Panel!PanelInv, Panel!NoIdleSlot, Panel!Sound, Panel!Unique, Panel!RunningCount
  <1>3. Src!SourcesInv => Src!SourcesInv'
    <2>1. Src!Sound(v2) => Src!Sound(v2)'
      <3>1. (v2 \in Src!States) => (v2 \in Src!States)'
        BY <1>1 DEF Src!States, Src!ScrapeRecords, Src!AgentStates
      <3>2. Src!OneRunning(v2) => Src!OneRunning(v2)'
        BY <1>1 DEF Src!OneRunning
      <3>3. Src!FinalizesEnded(v2) => Src!FinalizesEnded(v2)'
        BY <1>1 DEF Src!FinalizesEnded
      <3>4. (\A l \in Links : v2.leads[l] <= 1) => (\A l \in Links : v2.leads[l] <= 1)'
        BY <1>1
      <3>5. (\A i \in DOMAIN v2.scrapes : Src!ScrapeSound(v2.scrapes[i]))
              => (\A i \in DOMAIN v2.scrapes : Src!ScrapeSound(v2.scrapes[i]))'
        BY <1>1 DEF Src!ScrapeSound, Src!TellsOutcome
      <3> QED BY <3>1, <3>2, <3>3, <3>4, <3>5 DEF Src!Sound
    <2>2. Src!NoIdleSlot => Src!NoIdleSlot'
      BY <1>1 DEF Src!NoIdleSlot, Src!RunningCount
    <2>3. (v2.pending = Src!FromQueue(v2)) => (v2.pending = Src!FromQueue(v2))'
      BY <1>1 DEF Src!FromQueue
    <2>4. v1' = v1
      BY <1>1
    <2> QED BY <2>1, <2>2, <2>3, <2>4 DEF Src!SourcesInv
  <1> QED BY <1>2, <1>3

\* The panel's invariant outlives every step, and no step moves a job without evidence.
LEMMA PanelStays == Panel!PanelInv /\ [Panel!Next]_(Panel!vars) => Panel!PanelInv' /\ Panel!MovesOnEvidence
  <1>1. ASSUME Panel!PanelInv, UNCHANGED <<v1, v2>> PROVE Panel!PanelInv' /\ Panel!MovesOnEvidence
    BY <1>1, SameVars DEF Panel!MovesOnEvidence
  <1> QED BY <1>1, PanelStep DEF Panel!vars

\* The invariant of the sources' runs outlives every step, and no step loses finds.
LEMMA SourcesStay == Src!SourcesInv /\ [Src!Next]_(Src!vars) => Src!SourcesInv' /\ Src!ClosesWithFinds
  <1>1. ASSUME Src!SourcesInv, UNCHANGED <<v1, v2>> PROVE Src!SourcesInv' /\ Src!ClosesWithFinds
    BY <1>1, SameVars DEF Src!ClosesWithFinds
  <1> QED BY <1>1, SourcesStep DEF Src!vars

RunsInv ==
  /\ machine \in {"panel", "sources"}
  /\ machine = "panel" => Panel!PanelInv
  /\ machine = "sources" => Src!SourcesInv

\* The machine of a behaviour keeps its invariant, from the start and with every step.
THEOREM RunsInvariant == RunsSpec => []RunsInv
  <1>1. RunsInit => RunsInv
    BY PanelStart, SourcesStart DEF RunsInit, RunsInv
  <1>2. RunsInv /\ [RunsNext]_runsVars => RunsInv'
    <2> SUFFICES ASSUME RunsInv, [RunsNext]_runsVars PROVE RunsInv'
      OBVIOUS
    <2>1. CASE machine = "panel" /\ Panel!Next /\ UNCHANGED <<machine, Unused>>
      <3>1. Panel!PanelInv'
        BY <2>1, PanelStep DEF RunsInv
      <3> QED BY <2>1, <3>1 DEF RunsInv
    <2>2. CASE machine = "sources" /\ Src!Next /\ UNCHANGED <<machine, Unused>>
      <3>1. Src!SourcesInv'
        BY <2>2, SourcesStep DEF RunsInv
      <3> QED BY <2>2, <3>1 DEF RunsInv
    <2>3. CASE UNCHANGED runsVars
      BY <2>3, SameVars DEF runsVars, RunsInv
    <2> QED BY <2>1, <2>2, <2>3 DEF RunsNext
  <1> QED BY <1>1, <1>2, PTL DEF RunsSpec

\* However launches, closes, stops, polls and restarts interleave, a routine on a job is
\* running or waiting at most once, and a source has one running record.
THEOREM OneAtATimeAlways == RunsSpec => []OneAtATime
  <1>1. RunsInv => OneAtATime
    BY PanelHold, SourcesHold DEF RunsInv, OneAtATime
  <1> QED BY <1>1, RunsInvariant, PTL

\* Nothing waits while a slot is free that no close is going to give away.
THEOREM NoneWaitsIdleAlways == RunsSpec => []NoneWaitsIdle
  <1>1. RunsInv => NoneWaitsIdle
    BY PanelHold, SourcesHold DEF RunsInv, NoneWaitsIdle
  <1> QED BY <1>1, RunsInvariant, PTL
=============================================================================

----------------------------- MODULE MCClient_proofs -----------------------------
(***************************************************************************)
(* The screens of MCClient, for every value of the constants: of each, an  *)
(* invariant that its first state has and every step keeps, and what the   *)
(* run checks of it follows.  A step of the client is one of the screen    *)
(* that runs, so what each screen keeps holds of the client.               *)
(***************************************************************************)
EXTENDS MCClient, FiniteSetTheorems, SequenceTheorems, WellFoundedInduction, TLAPS

-----------------------------------------------------------------------------
(***************************************************************************)
(* JobChat.                                                                *)
(***************************************************************************)

\* After an even number comes an odd one, and then an even one.
LEMMA OddEven ==
  ASSUME NEW i \in Nat, i % 2 = 0
  PROVE  (i + 1) % 2 = 1 /\ (i + 2) % 2 = 0
  OBVIOUS

\* Transcripts up to m are transcripts up to any k that is not less.
LEMMA PairedGrows ==
  ASSUME NEW ch, NEW m \in Nat, NEW k \in Nat, m <= k, PairedTo(ch, m)
  PROVE  PairedTo(ch, k)
  <1>1. TurnsTo(m) \subseteq TurnsTo(k)
    BY DEF TurnsTo
  <1>2. Seq(TurnsTo(m)) \subseteq Seq(TurnsTo(k))
    BY <1>1, SeqMonotonic
  <1> QED BY <1>2 DEF PairedTo

\* The question of number n and its answer, added to transcripts that end before n.
LEMMA PairAdded ==
  ASSUME NEW ch, NEW n \in Nat \ {0}, NEW b \in ChatJobs, PairedTo(ch, n - 1),
         NEW ask, ask = [role |-> "user", of |-> n], NEW ans, ans = [role |-> "assistant", of |-> n]
  PROVE  PairedTo([ch EXCEPT ![b] = @ \o <<ask, ans>>], n)
  <1> DEFINE new == [ch EXCEPT ![b] = @ \o <<ask, ans>>]
  <1>1. PairedTo(ch, n)
    BY PairedGrows
  <1>2. ask \in TurnsTo(n) /\ ans \in TurnsTo(n)
    BY DEF TurnsTo
  <1>3. ch \in [ChatJobs -> Seq(TurnsTo(n))]
    BY <1>1 DEF PairedTo
  <1>4. \A j \in ChatJobs : ch[j] \in Seq(TurnsTo(n)) /\ Len(ch[j]) \in Nat
    BY <1>3
  <1>5. /\ new[b] \in Seq(TurnsTo(n)) /\ Len(new[b]) = Len(ch[b]) + 2
        /\ \A i \in 1 .. Len(ch[b]) : new[b][i] = ch[b][i]
        /\ new[b][Len(ch[b]) + 1] = ask /\ new[b][Len(ch[b]) + 2] = ans
    <2>1. new[b] = ch[b] \o <<ask, ans>>
      BY <1>3
    <2> HIDE DEF new
    <2> QED BY <1>2, <1>4, <2>1
  <1>6. \A j \in ChatJobs : j # b => new[j] = ch[j]
    BY <1>3
  <1>7. new \in [ChatJobs -> Seq(TurnsTo(n))]
    BY <1>3, <1>5
  <1> HIDE DEF new
  <1>8. ASSUME NEW j \in ChatJobs PROVE Len(new[j]) % 2 = 0
    <2>1. Len(ch[j]) \in Nat /\ Len(ch[j]) % 2 = 0
      BY <1>1, <1>4 DEF PairedTo
    <2>2. (Len(ch[j]) + 2) % 2 = 0
      BY <2>1, OddEven
    <2> QED BY <1>5, <1>6, <2>1, <2>2
  <1>9. \A j \in ChatJobs : \A i \in 1 .. Len(ch[j]) : ch[j][i] \in TurnsTo(n - 1) /\ ch[j][i].of # n
    <2>1. ASSUME NEW j \in ChatJobs, NEW i \in 1 .. Len(ch[j])
          PROVE  ch[j][i] \in TurnsTo(n - 1)
      <3>1. ch[j] \in Seq(TurnsTo(n - 1))
        BY DEF PairedTo
      <3> QED BY <3>1, ElementOfSeq
    <2> QED BY <2>1 DEF TurnsTo
  <1>13. ASSUME NEW j \in ChatJobs, NEW i \in 1 .. Len(ch[j])
         PROVE  i \in 1 .. Len(new[j]) /\ new[j][i] = ch[j][i]
    <2>1. CASE j = b
      BY <1>4, <1>5, <2>1
    <2> QED BY <1>6, <2>1
  <1>10. ASSUME NEW j \in ChatJobs, NEW i \in 1 .. Len(new[j])
         PROVE  \/ i \in 1 .. Len(ch[j]) /\ new[j][i] = ch[j][i]
                \/ j = b /\ i = Len(ch[b]) + 1 /\ new[j][i] = ask
                \/ j = b /\ i = Len(ch[b]) + 2 /\ new[j][i] = ans
    <2>1. CASE j # b
      BY <1>6, <1>10, <2>1
    <2>2. CASE j = b
      <3>1. Len(ch[b]) \in Nat /\ i \in 1 .. Len(ch[b]) + 2
        BY <1>4, <1>5, <1>10, <2>2
      <3>2. i \in 1 .. Len(ch[b]) \/ i = Len(ch[b]) + 1 \/ i = Len(ch[b]) + 2
        BY <3>1
      <3> QED BY <1>5, <2>2, <3>2
    <2> QED BY <2>1, <2>2
  <1>11. ASSUME NEW j \in ChatJobs, NEW i \in 1 .. Len(new[j])
         PROVE  IF i % 2 = 1
                THEN i < Len(new[j]) /\ new[j][i].role = "user"
                       /\ new[j][i + 1] = [role |-> "assistant", of |-> new[j][i].of]
                ELSE new[j][i].role = "assistant"
    <2>1. CASE i \in 1 .. Len(ch[j])
      <3>1. IF i % 2 = 1
            THEN i < Len(ch[j]) /\ ch[j][i].role = "user"
                   /\ ch[j][i + 1] = [role |-> "assistant", of |-> ch[j][i].of]
            ELSE ch[j][i].role = "assistant"
        BY <1>1, <2>1 DEF PairedTo
      <3>2. new[j][i] = ch[j][i] /\ Len(new[j]) >= Len(ch[j]) /\ Len(new[j]) \in Nat
        BY SMTT(30), <1>4, <1>5, <1>6, <2>1
      <3>3. i < Len(ch[j]) => new[j][i + 1] = ch[j][i + 1]
        <4>1. SUFFICES ASSUME i < Len(ch[j]) PROVE i + 1 \in 1 .. Len(ch[j])
          BY <1>13
        <4> QED BY <1>4, <2>1, <4>1
      <3> QED BY <1>4, <2>1, <3>1, <3>2, <3>3
    <2>2. CASE j = b /\ i = Len(ch[b]) + 1
      <3>1. Len(ch[b]) \in Nat /\ Len(ch[b]) % 2 = 0
        BY <1>1, <1>4 DEF PairedTo
      <3>2. i % 2 = 1 /\ i + 1 = Len(ch[b]) + 2
        <4>1. (Len(ch[b]) + 1) % 2 = 1
          BY <3>1, OddEven
        <4>2. i = Len(ch[b]) + 1
          BY <2>2
        <4>3. i % 2 = 1
          BY <4>1, <4>2, Zenon
        <4>4. i + 1 = Len(ch[b]) + 2
          BY <1>4, <4>2
        <4> QED BY <4>3, <4>4, Zenon
      <3> QED BY <1>5, <2>2, <3>1, <3>2
    <2>3. CASE j = b /\ i = Len(ch[b]) + 2
      <3>1. Len(ch[b]) \in Nat /\ Len(ch[b]) % 2 = 0
        BY <1>1, <1>4 DEF PairedTo
      <3>2. i % 2 = 0
        <4>1. (Len(ch[b]) + 2) % 2 = 0
          BY <3>1, OddEven
        <4> QED BY <2>3, <4>1
      <3>3. ~(i % 2 = 1) /\ new[j][i].role = "assistant"
        <4>1. new[j][i].role = "assistant"
          BY <1>5, <2>3
        <4>2. 0 # 1
          OBVIOUS
        <4> QED BY <3>2, <4>1, <4>2, Zenon
      <3> QED BY <3>3
    <2> QED BY <1>10, <2>1, <2>2, <2>3
  <1>12. ASSUME NEW j \in ChatJobs, NEW k \in ChatJobs, NEW i \in 1 .. Len(new[j]),
                NEW l \in 1 .. Len(new[k]), new[j][i] = new[k][l]
         PROVE  j = k /\ i = l
    <2>1. CASE i \in 1 .. Len(ch[j]) /\ l \in 1 .. Len(ch[k])
      <3>1. ch[j][i] = ch[k][l]
        BY <1>12, <1>13, <2>1
      <3> QED BY <1>1, <2>1, <3>1 DEF PairedTo
    <2>2. CASE ~(i \in 1 .. Len(ch[j]) /\ l \in 1 .. Len(ch[k]))
      <3>1. ask.of = n /\ ans.of = n /\ ask # ans
        OBVIOUS
      <3>2. \/ i \in 1 .. Len(ch[j]) /\ new[j][i].of # n
            \/ j = b /\ i = Len(ch[b]) + 1 /\ new[j][i] = ask
            \/ j = b /\ i = Len(ch[b]) + 2 /\ new[j][i] = ans
        BY <1>9, <1>10
      <3>3. \/ l \in 1 .. Len(ch[k]) /\ new[k][l].of # n
            \/ k = b /\ l = Len(ch[b]) + 1 /\ new[k][l] = ask
            \/ k = b /\ l = Len(ch[b]) + 2 /\ new[k][l] = ans
        BY <1>9, <1>10
      <3> QED BY <1>12, <2>2, <3>1, <3>2, <3>3
    <2> QED BY <2>1, <2>2
  <1> QED BY <1>7, <1>8, <1>11, <1>12 DEF PairedTo, new

LEMMA ChatStart ==
  ASSUME Chat!ChatInit
  PROVE  ChatInv
  <1>1. v1 = [j \in ChatJobs |-> <<>>] /\ v2 = {} /\ v4 = {} /\ v6 = 0 /\ v8 = 0
    BY DEF Chat!ChatInit
  <1>2. v3 = [job |-> None, shows |-> <<>>, sending |-> FALSE, mount |-> 0]
    BY DEF Chat!ChatInit, Chat!Closed
  <1>3. PairedTo(v1, 0)
    <2>1. \A j \in ChatJobs : v1[j] = <<>> /\ Len(v1[j]) = 0
      BY <1>1
    <2>2. <<>> \in Seq(TurnsTo(0)) /\ 0 % 2 = 0
      OBVIOUS
    <2>3. v1 \in [ChatJobs -> Seq(TurnsTo(0))]
      BY <1>1, <2>2
    <2> QED BY <2>1, <2>2, <2>3 DEF PairedTo
  <1>4. v3 \in [job : ChatJobs \cup {None}, shows : Seq(TurnsTo(0)), sending : BOOLEAN,
                mount : 0 .. 0]
    BY <1>2
  <1>5. v3.job = None /\ v3.mount = 0
    BY <1>2
  <1> QED BY <1>1, <1>3, <1>4, <1>5 DEF ChatInv

\* A step of the chat keeps the invariant.
LEMMA ChatStep ==
  ASSUME ChatInv, Chat!ChatNext
  PROVE  ChatInv'
  <1> DEFINE Drawer(m, k) == [job : ChatJobs \cup {None}, shows : Seq(TurnsTo(m)),
                              sending : BOOLEAN, mount : 0 .. k]
             Post(p, m, k) == /\ p.n \in 1 .. m /\ p.job \in ChatJobs /\ PairedTo(p.had, p.n - 1)
                              /\ p.mount \in 1 .. k
             AtMostOne(ps, d) == \A p, q \in ps : p.mount = d.mount /\ q.mount = d.mount => p = q
  <1> USE DEF Chat!Closed
  <1>1. /\ v6 \in Nat /\ v8 \in Nat /\ PairedTo(v1, v6) /\ v3 \in Drawer(v6, v8)
        /\ \A p \in v2 : Post(p, v6, v8) /\ (p.mount = v3.mount => v3.sending)
        /\ (v3.job = None <=> v3.mount = 0) /\ AtMostOne(v2, v3)
        /\ \A g \in v4 : g.job \in ChatJobs
    BY DEF ChatInv
  <1> DEFINE Kept == ChatInv'
  <1>2. ASSUME v6' \in Nat, v8' \in Nat, PairedTo(v1', v6'), v3' \in Drawer(v6', v8'),
               \A p \in v2' : Post(p, v6', v8') /\ (p.mount = v3'.mount => v3'.sending),
               v3'.job = None <=> v3'.mount = 0, AtMostOne(v2', v3'),
               \A g \in v4' : g.job \in ChatJobs
        PROVE  Kept
    BY <1>2 DEF ChatInv
  <1>3. \A j \in ChatJobs : v1[j] \in Seq(TurnsTo(v6))
    BY <1>1 DEF PairedTo
  <1> HIDE DEF Kept
  <1>4. ASSUME NEW j \in ChatJobs, Chat!Open(j) PROVE Kept
    <2>1. /\ v3.job = None /\ v8' = v8 + 1 /\ UNCHANGED <<v1, v2, v5, v6, v7>>
          /\ v3' = [job |-> j, shows |-> <<>>, sending |-> FALSE, mount |-> v8']
          /\ v4' = v4 \cup {[mount |-> v8', job |-> j]}
      BY <1>4 DEF Chat!Open
    <2>2. v3' \in Drawer(v6, v8 + 1) /\ v3'.job = j /\ v3'.mount = v8 + 1
      BY <1>1, <2>1
    <2>3. j # None
      BY ClientAssumption
    <2>4. \A p \in v2 : p.mount # v8 + 1 /\ p.mount \in 1 .. v8 + 1
      BY <1>1
    <2>5. \A g \in v4' : g.job \in ChatJobs
      BY <1>1, <2>1
    <2> QED BY <1>1, <1>2, <2>1, <2>2, <2>3, <2>4, <2>5
  <1>5. ASSUME Chat!Close PROVE Kept
    <2>1. /\ UNCHANGED <<v1, v2, v4, v5, v6, v7, v8>>
          /\ v3' = [job |-> None, shows |-> <<>>, sending |-> FALSE, mount |-> 0]
      BY <1>5 DEF Chat!Close
    <2>2. v3' \in Drawer(v6, v8) /\ v3'.job = None /\ v3'.mount = 0
      BY <1>1, <2>1
    <2>3. \A p \in v2 : p.mount # 0
      BY <1>1
    <2> QED BY <1>1, <1>2, <2>1, <2>2, <2>3
  <1>6. ASSUME NEW g \in v4, Chat!Loaded(g) PROVE Kept
    <2>1. /\ v4' = v4 \ {g} /\ UNCHANGED <<v1, v2, v5, v6, v7, v8>>
          /\ v3' = IF v3.mount = g.mount THEN [v3 EXCEPT !.shows = v1[g.job]] ELSE v3
      BY <1>6 DEF Chat!Loaded
    <2>2. g.job \in ChatJobs
      BY <1>1
    <2>3. v1[g.job] \in Seq(TurnsTo(v6))
      BY <1>3, <2>2
    <2>4. /\ v3' \in Drawer(v6, v8) /\ v3'.job = v3.job /\ v3'.mount = v3.mount
          /\ v3'.sending = v3.sending
      BY <1>1, <2>1, <2>3
    <2> QED BY <1>1, <1>2, <2>1, <2>4
  <1>7. ASSUME Chat!Send PROVE Kept
    <2> DEFINE new == [n |-> v6 + 1, job |-> v3.job, mount |-> v3.mount, had |-> v1]
    <2>1. /\ v3.job # None /\ ~v3.sending /\ v6' = v6 + 1
          /\ v3' = [v3 EXCEPT !.sending = TRUE,
                              !.shows = Append(@, [role |-> "user", of |-> v6 + 1])]
          /\ v2' = v2 \cup {new} /\ UNCHANGED <<v1, v4, v5, v7, v8>>
      BY <1>7 DEF Chat!Send, Chat!Turn
    <2>2. TurnsTo(v6) \subseteq TurnsTo(v6 + 1) /\ [role |-> "user", of |-> v6 + 1] \in TurnsTo(v6 + 1)
      BY <1>1 DEF TurnsTo
    <2>3. Append(v3.shows, [role |-> "user", of |-> v6 + 1]) \in Seq(TurnsTo(v6 + 1))
      <3>1. v3.shows \in Seq(TurnsTo(v6))
        BY <1>1
      <3>2. v3.shows \in Seq(TurnsTo(v6 + 1))
        BY <2>2, <3>1, SeqMonotonic
      <3> QED BY <2>2, <3>2
    <2>4. v3' \in Drawer(v6 + 1, v8) /\ v3'.job = v3.job /\ v3'.mount = v3.mount /\ v3'.sending
      BY <1>1, <2>1, <2>3
    <2>5. v3.job \in ChatJobs /\ v3.mount \in 1 .. v8
      BY <1>1, <2>1
    <2>6. new.n - 1 = v6 /\ new.n \in 1 .. v6 + 1 /\ new.had = v1
      BY <1>1
    <2>7. Post(new, v6 + 1, v8) /\ new.mount = v3.mount
      BY <1>1, <2>5, <2>6
    <2>8. \A p \in v2 : Post(p, v6 + 1, v8) /\ p.mount # v3.mount
      BY <1>1, <2>1
    <2>9. PairedTo(v1', v6') /\ v6' \in Nat
      BY <1>1, <2>1, PairedGrows
    <2> HIDE DEF new, Post
    <2>10. AtMostOne(v2', v3')
      BY <2>1, <2>4, <2>7, <2>8
    <2>11. \A p \in v2' : Post(p, v6', v8') /\ (p.mount = v3'.mount => v3'.sending)
      BY <2>1, <2>4, <2>7, <2>8
    <2>12. (v3'.job = None <=> v3'.mount = 0) /\ v8' \in Nat /\ \A g \in v4' : g.job \in ChatJobs
      BY <1>1, <2>1, <2>4
    <2>13. v3' \in Drawer(v6', v8')
      BY <2>1, <2>4
    <2> QED BY <1>2, <2>9, <2>10, <2>11, <2>12, <2>13 DEF Post
  <1>8. ASSUME NEW p \in v2 PROVE /\ PairedTo(Chat!Answered(p), v6)
                                  /\ Chat!Answered(p)[p.job] \in Seq(TurnsTo(v6))
    <2>1. /\ p.n \in 1 .. v6 /\ p.job \in ChatJobs /\ PairedTo(p.had, p.n - 1)
          /\ p.n \in Nat \ {0} /\ p.n <= v6
      BY <1>1
    <2> DEFINE ask == [role |-> "user", of |-> p.n]
               ans == [role |-> "assistant", of |-> p.n]
               new == [p.had EXCEPT ![p.job] = @ \o <<ask, ans>>]
    <2>2. PairedTo(new, p.n)
      BY <2>1, PairAdded
    <2>3. Chat!Answered(p) = new
      BY DEF Chat!Answered, Chat!Turn
    <2> HIDE DEF new
    <2>4. PairedTo(new, v6)
      BY <1>1, <2>1, <2>2, PairedGrows
    <2>5. new[p.job] \in Seq(TurnsTo(v6))
      BY <2>1, <2>4 DEF PairedTo
    <2> QED BY <2>3, <2>4, <2>5
  <1>9. ASSUME NEW p \in v2, v2' = v2 \ {p}, UNCHANGED <<v4, v6, v8>>, PairedTo(v1', v6),
               v3' \in Drawer(v6, v8), v3'.job = v3.job, v3'.mount = v3.mount,
               v3.mount # p.mount => v3'.sending = v3.sending
        PROVE  Kept
    <2>1. \A q \in v2' : q \in v2 /\ q # p
      BY <1>9
    <2>2. \A q \in v2' : q.mount = v3.mount => v3.mount # p.mount
      BY <1>1, <2>1
    <2>3. \A q \in v2' : Post(q, v6', v8') /\ (q.mount = v3'.mount => v3'.sending)
      BY <1>1, <1>9, <2>1, <2>2
    <2> HIDE DEF Post
    <2> QED BY <1>1, <1>2, <1>9, <2>1, <2>3
  <1>10. ASSUME NEW p \in v2, Chat!AssistantAnswers(p) PROVE Kept
    <2> DEFINE new == Chat!Answered(p)
    <2>1. /\ v2' = v2 \ {p} /\ v1' = new /\ UNCHANGED <<v4, v6, v7, v8>>
          /\ v3' = IF v3.mount = p.mount
                   THEN [v3 EXCEPT !.shows = new[p.job], !.sending = FALSE] ELSE v3
      BY <1>10 DEF Chat!AssistantAnswers, Chat!Gone
    <2>2. PairedTo(new, v6) /\ new[p.job] \in Seq(TurnsTo(v6))
      BY <1>8
    <2> HIDE DEF new
    <2>3. /\ v3' \in Drawer(v6, v8) /\ v3'.job = v3.job /\ v3'.mount = v3.mount
          /\ v3.mount # p.mount => v3'.sending = v3.sending
      BY <1>1, <2>1, <2>2
    <2> QED BY <1>9, <2>1, <2>2, <2>3
  <1>11. ASSUME NEW p \in v2, Chat!AssistantFails(p) PROVE Kept
    <2>1. /\ v2' = v2 \ {p} /\ v1' \in {v1, Chat!Answered(p)} /\ UNCHANGED <<v4, v6, v8>>
          /\ v3' = IF v3.mount = p.mount THEN [v3 EXCEPT !.sending = FALSE] ELSE v3
      BY <1>11 DEF Chat!AssistantFails, Chat!Gone, Chat!AfterFailure
    <2>2. PairedTo(v1', v6)
      BY <1>1, <1>8, <2>1
    <2>3. /\ v3' \in Drawer(v6, v8) /\ v3'.job = v3.job /\ v3'.mount = v3.mount
          /\ v3.mount # p.mount => v3'.sending = v3.sending
      BY <1>1, <2>1
    <2> QED BY <1>9, <2>1, <2>2, <2>3
  <1> QED BY <1>4, <1>5, <1>6, <1>7, <1>10, <1>11 DEF Chat!ChatNext, Kept

LEMMA ChatStays ==
  ASSUME ChatInv, UNCHANGED <<v1, v2, v3, v4, v5, v6, v7, v8>>
  PROVE  ChatInv'
  BY DEF ChatInv

\* What the run checks of the chat.
LEMMA ChatHolds ==
  ASSUME ChatInv
  PROVE  Chat!TurnsArePaired /\ Chat!ChatTypeOK
  <1>1. /\ v6 \in Nat /\ PairedTo(v1, v6)
        /\ \A p \in v2 : p.job \in ChatJobs
        /\ v3.job \in ChatJobs \cup {None}
        /\ \A p, q \in v2 : p.mount = v3.mount /\ q.mount = v3.mount => p = q
    BY DEF ChatInv
  <1>2. \A j \in ChatJobs : v1[j] \in Seq(TurnsTo(v6)) /\ DOMAIN v1[j] = 1 .. Len(v1[j])
    BY <1>1 DEF PairedTo
  <1>3. \A j \in ChatJobs : \A i \in DOMAIN v1[j] : v1[j][i] \in TurnsTo(v6)
    BY <1>2, ElementOfSeq
  <1>4. Chat!TurnsArePaired
    <2>1. ASSUME NEW j \in ChatJobs, NEW i \in DOMAIN v1[j]
          PROVE  IF i % 2 = 1 THEN i < Len(v1[j]) /\ v1[j][i + 1] = [role |-> "assistant", of |-> v1[j][i].of]
                 ELSE v1[j][i].role = "assistant"
      <3>1. i \in 1 .. Len(v1[j])
        BY <1>2
      <3> QED BY <1>1, <3>1 DEF PairedTo
    <2>2. ASSUME NEW j \in ChatJobs, NEW k \in ChatJobs, NEW i \in DOMAIN v1[j], NEW l \in DOMAIN v1[k],
                 v1[j][i] = v1[k][l]
          PROVE  j = k /\ i = l
      <3>1. i \in 1 .. Len(v1[j]) /\ l \in 1 .. Len(v1[k])
        BY <1>2
      <3> QED BY <1>1, <2>2, <3>1 DEF PairedTo
    <2> QED BY <2>1, <2>2 DEF Chat!TurnsArePaired, Chat!Turn
  <1>5. \A j \in ChatJobs : \A i \in DOMAIN v1[j] : v1[j][i].of \in 1 .. v6
    BY <1>3 DEF TurnsTo
  <1>6. Chat!Cardinality({p \in v2 : p.mount = v3.mount}) <= 1
    <2> DEFINE S == {p \in v2 : p.mount = v3.mount}
    <2>1. S = {} \/ \E p \in v2 : S = {p}
      BY <1>1
    <2>2. Cardinality(S) \in {0, 1}
      BY <2>1, FS_EmptySet, FS_Singleton
    <2>3. Chat!Cardinality(S) = Cardinality(S)
      BY DEF Chat!Cardinality, Cardinality
    <2> QED BY <2>2, <2>3
  <1> QED BY <1>1, <1>4, <1>5, <1>6 DEF Chat!ChatTypeOK

-----------------------------------------------------------------------------
(***************************************************************************)
(* ChatCapture.                                                            *)
(***************************************************************************)

LEMMA SameCaptureCount == \A S : Capture!Cardinality(S) = Cardinality(S)
  BY DEF Capture!Cardinality, Cardinality

LEMMA CaptureStart ==
  ASSUME Capture!CaptureInit
  PROVE  CaptureInv
  <1>1. /\ v1 = [open |-> FALSE, step |-> "compose", busy |-> FALSE, text |-> 0, images |-> {},
                 created |-> 0, outcome |-> Idle, note |-> 0]
        /\ v2 = Idle /\ v3 = {} /\ v4 = <<>> /\ v5 = <<>>
        /\ v6 = [texts |-> 0, fails |-> 0]
        /\ v7 = [lost |-> {}, told |-> [t \in 1 .. MaxTickets |-> 0]]
    BY DEF Capture!CaptureInit
  <1>2. IsFiniteSet({}) /\ Cardinality({}) = 0
    BY FS_EmptySet
  <1>3. /\ v1.open = FALSE /\ v1.step = "compose" /\ v1.busy = FALSE /\ v1.text = 0
        /\ v1.images = {} /\ v1.created = 0 /\ v1.outcome = Idle /\ v1.note = 0
        /\ v6.texts = 0 /\ v7.lost = {} /\ v7.told = [t \in 1 .. MaxTickets |-> 0]
        /\ DOMAIN v4 = {} /\ DOMAIN v5 = {} /\ Len(v4) = 0
    BY <1>1
  <1>4. CaptureTypes
    BY <1>1, <1>2, <1>3 DEF CaptureTypes
  <1>5. CaptureBusy /\ CaptureOrigin
    BY <1>1, <1>3 DEF CaptureBusy, CaptureOrigin
  <1>6. CaptureFiled
    BY <1>1, <1>3, ClientAssumption DEF CaptureFiled, FiledAs, Capture!FiledOnce
  <1>7. CaptureImages
    BY <1>1, <1>2, <1>3, ClientAssumption DEF CaptureImages
  <1> QED BY <1>4, <1>5, <1>6, <1>7 DEF CaptureInv

LEMMA CaptureStays ==
  ASSUME CaptureInv, UNCHANGED <<v1, v2, v3, v4, v5, v6, v7>>
  PROVE  CaptureInv'
  BY DEF CaptureInv, CaptureTypes, CaptureBusy, CaptureFiled, CaptureOrigin, CaptureImages,
     FiledAs, Capture!FiledOnce

\* What the run checks of the panel.
LEMMA CaptureHolds ==
  ASSUME CaptureInv
  PROVE  /\ Capture!FiledOnce /\ Capture!OriginIsTrue /\ Capture!ImagesAccounted
         /\ Capture!CaptureTypeOK
  <1>1. Capture!FiledOnce /\ Capture!OriginIsTrue
    BY DEF CaptureInv, CaptureFiled, CaptureOrigin, Capture!OriginIsTrue
  <1>2. Capture!ImagesAccounted
    BY SameCaptureCount DEF CaptureInv, CaptureImages, Capture!ImagesAccounted
  <1>3. Capture!CaptureTypeOK
    <2>1. CaptureTypes /\ CaptureBusy /\ CaptureFiled /\ CaptureImages
      BY DEF CaptureInv
    <2>2. v1.text \in 0 .. MaxTexts
      BY SMTT(30), <2>1, ClientAssumption DEF CaptureFiled, CaptureTypes
    <2>3. /\ Capture!Cardinality(v1.images) <= MaxAttachments
          /\ \A t \in DOMAIN v4 : Capture!Cardinality(v4[t].images) <= MaxAttachments
      BY <2>1, SameCaptureCount DEF CaptureImages
    <2> QED BY <2>1, <2>2, <2>3 DEF Capture!CaptureTypeOK, CaptureTypes, CaptureBusy
  <1> QED BY <1>1, <1>2, <1>3

\* What a step leaves of the panel has the form of one.
CapturePanel(p) ==
  /\ p.open \in BOOLEAN /\ p.busy \in BOOLEAN /\ p.text \in Nat /\ p.created \in Nat
  /\ p.step \in {"compose", "confirm", "done"}
  /\ p.images \subseteq Images /\ IsFiniteSet(p.images)
  /\ p = [open |-> p.open, step |-> p.step, busy |-> p.busy, text |-> p.text,
          images |-> p.images, created |-> p.created, outcome |-> p.outcome, note |-> p.note]

\* A step of the panel that leaves the tickets, the call and the ledger.
LEMMA CapturePanelStep ==
  ASSUME CaptureInv, UNCHANGED <<v2, v4, v5, v7>>, CapturePanel(v1'),
         v3' \subseteq CaptureSides, v6' \in [texts : Nat, fails : Nat],
         v6.texts <= v6'.texts, v6'.texts <= MaxTexts, v1'.text \in 0 .. v6'.texts,
         Cardinality(v1'.images) <= MaxAttachments,
         CaptureBusy',
         \A m \in v3' : m.kind \in {"addRequest", "link"} => m \in v3,
         FiledAs(v1'.text) =>
           \/ v2 # Idle /\ v2.pc = "upload" /\ v2.text = v1'.text
           \/ v1'.created # 0
  PROVE  CaptureInv'
  <1>1. CaptureTypes /\ CaptureFiled /\ CaptureOrigin /\ CaptureImages
    BY DEF CaptureInv
  <1>2. CaptureTypes'
    BY <1>1 DEF CaptureTypes, CapturePanel
  <1>3. CaptureOrigin'
    BY <1>1 DEF CaptureOrigin
  <1>4. CaptureImages'
    BY <1>1 DEF CaptureImages
  <1>5. \A x : FiledAs(x)' <=> FiledAs(x)
    BY DEF FiledAs
  <1>6. CaptureFiled'
    <2>1. v6.texts \in Nat /\ v6'.texts \in Nat
      BY <1>1 DEF CaptureTypes
    <2>2. /\ \A t \in DOMAIN v4 : v4[t].text \in 1 .. v6'.texts
          /\ v2 # Idle => v2.text \in 1 .. v6'.texts
      BY <1>1, <2>1 DEF CaptureFiled
    <2>3. Capture!FiledOnce'
      BY <1>1 DEF CaptureFiled, Capture!FiledOnce
    <2>4. v2 # Idle /\ v2.pc = "post" => ~FiledAs(v2.text)
      BY <1>1 DEF CaptureFiled
    <2>5. FiledAs(v1.text)' <=> FiledAs(v1'.text)
      BY DEF FiledAs
    <2>6. FiledAs(v2.text)' <=> FiledAs(v2.text)
      BY DEF FiledAs
    <2> QED BY <2>2, <2>3, <2>4, <2>5, <2>6 DEF CaptureFiled
  <1> QED BY <1>2, <1>3, <1>4, <1>6 DEF CaptureInv

\* The steps of the owner at the panel.
LEMMA CaptureOwnerSteps ==
  ASSUME CaptureInv,
         \/ Capture!OpenPanel \/ Capture!ClosePanel \/ Capture!Type \/ Capture!PasteImage
         \/ Capture!ConfirmDelegate \/ Capture!CancelDelegate \/ Capture!FileAnother
         \/ \E m \in v3 : Capture!RoutineAnswers(m)
  PROVE  CaptureInv'
  <1>1. CaptureTypes /\ CaptureBusy /\ CaptureFiled /\ CaptureOrigin /\ CaptureImages
    BY DEF CaptureInv
  <1>2. /\ CapturePanel(v1) /\ v3 \subseteq CaptureSides /\ v6 \in [texts : Nat, fails : Nat]
        /\ v6.texts <= MaxTexts /\ v1.text \in 0 .. v6.texts
        /\ Cardinality(v1.images) <= MaxAttachments
        /\ (FiledAs(v1.text) => \/ v2 # Idle /\ v2.pc = "upload" /\ v2.text = v1.text
                                \/ v1.created # 0)
    BY <1>1 DEF CaptureTypes, CapturePanel, CaptureFiled, CaptureImages
  <1>3. ~FiledAs(0) /\ ~FiledAs(v6.texts + 1)
    BY <1>1, <1>2 DEF CaptureFiled, FiledAs
  <1>4. IsFiniteSet({}) /\ Cardinality({}) = 0
    BY FS_EmptySet
  <1>5. v6.texts \in Nat
    BY <1>2
  <1>6. CASE Capture!OpenPanel
    <2>1. v1' = [v1 EXCEPT !.open = TRUE] /\ UNCHANGED <<v2, v3, v4, v5, v6, v7>>
      BY <1>6 DEF Capture!OpenPanel
    <2>2. /\ CapturePanel(v1') /\ v1'.text = v1.text /\ v1'.created = v1.created
          /\ v1'.step = v1.step /\ v1'.busy = v1.busy /\ v1'.images = v1.images
      BY <1>2, <2>1 DEF CapturePanel
    <2>3. CaptureBusy'
      BY <1>1, <2>1, <2>2 DEF CaptureBusy
    <2> QED BY <1>2, <1>5, <2>1, <2>2, <2>3, CapturePanelStep
  <1>7. CASE Capture!ClosePanel
    <2>1. /\ UNCHANGED <<v2, v3, v4, v5, v6, v7>>
          /\ v1' = [IF v1.created # 0
                    THEN [v1 EXCEPT !.text = 0, !.images = {}, !.created = 0, !.outcome = Idle,
                                    !.note = 0]
                    ELSE [v1 EXCEPT !.images = {}, !.note = 0]
                    EXCEPT !.open = FALSE, !.step = "compose"]
      BY <1>7 DEF Capture!ClosePanel, Capture!ResetForm
    <2>2. /\ CapturePanel(v1') /\ v1'.text = (IF v1.created # 0 THEN 0 ELSE v1.text)
          /\ v1'.created = 0 /\ v1'.step = "compose" /\ v1'.busy = v1.busy /\ v1'.images = {}
      BY <1>2, <1>4, <2>1 DEF CapturePanel
    <2>3. CaptureBusy'
      BY <1>1, <2>1, <2>2 DEF CaptureBusy
    <2>4. /\ v1'.text \in 0 .. v6.texts /\ 0 <= MaxAttachments
          /\ FiledAs(v1'.text) => v2 # Idle /\ v2.pc = "upload" /\ v2.text = v1'.text
      BY <1>2, <1>3, <1>5, <2>2, ClientAssumption
    <2> QED BY <1>2, <1>4, <1>5, <2>1, <2>2, <2>3, <2>4, CapturePanelStep
  <1>8. CASE Capture!Type
    <2>1. /\ v1.step = "compose" /\ v6.texts < MaxTexts /\ v1' = [v1 EXCEPT !.text = v6.texts + 1]
          /\ v6' = [v6 EXCEPT !.texts = @ + 1] /\ UNCHANGED <<v2, v3, v4, v5, v7>>
      BY <1>8 DEF Capture!Type
    <2>2. /\ CapturePanel(v1') /\ v1'.text = v6.texts + 1 /\ v1'.created = v1.created
          /\ v1'.step = v1.step /\ v1'.busy = v1.busy /\ v1'.images = v1.images
      BY <1>2, <1>5, <2>1 DEF CapturePanel
    <2>3. v6' \in [texts : Nat, fails : Nat] /\ v6'.texts = v6.texts + 1
      BY <1>2, <2>1
    <2>4. CaptureBusy'
      BY <1>1, <2>1, <2>2 DEF CaptureBusy
    <2>5. v6.texts <= v6'.texts /\ v6'.texts <= MaxTexts /\ v1'.text \in 0 .. v6'.texts
      BY <1>5, <2>1, <2>2, <2>3, ClientAssumption
    <2> QED BY <1>2, <1>3, <2>1, <2>2, <2>3, <2>4, <2>5, CapturePanelStep
  <1>9. CASE Capture!PasteImage
    <2>1. PICK i \in Images \ v1.images : v1' = [v1 EXCEPT !.images = @ \cup {i}]
      BY <1>9 DEF Capture!PasteImage
    <2>2. Cardinality(v1.images) < MaxAttachments /\ UNCHANGED <<v2, v3, v4, v5, v6, v7>>
      BY <1>9, SameCaptureCount DEF Capture!PasteImage
    <2>3. v1.images \subseteq Images /\ IsFiniteSet(v1.images)
      BY <1>2 DEF CapturePanel
    <2>4. /\ IsFiniteSet(v1.images \cup {i}) /\ Cardinality(v1.images) \in Nat
          /\ Cardinality(v1.images \cup {i}) = Cardinality(v1.images) + 1
      BY <2>1, <2>3, FS_AddElement, FS_CardinalityType
    <2>5. /\ CapturePanel(v1') /\ v1'.text = v1.text /\ v1'.created = v1.created
          /\ v1'.step = v1.step /\ v1'.busy = v1.busy /\ v1'.images = v1.images \cup {i}
      BY <1>2, <2>1, <2>4 DEF CapturePanel
    <2>6. CaptureBusy'
      BY <1>1, <2>2, <2>5 DEF CaptureBusy
    <2>7. Cardinality(v1'.images) <= MaxAttachments
      BY <2>2, <2>4, <2>5, ClientAssumption
    <2> QED BY <1>2, <1>5, <2>2, <2>5, <2>6, <2>7, CapturePanelStep
  <1>10. CASE Capture!ConfirmDelegate
    <2> DEFINE work == [kind |-> "work", ticket |-> v1.created, request |-> 0]
    <2>1. /\ v1.step = "confirm" /\ v1.created # 0 /\ ~v1.busy /\ v1' = [v1 EXCEPT !.busy = TRUE]
          /\ v3' = v3 \cup {work} /\ UNCHANGED <<v2, v4, v5, v6, v7>>
      BY <1>10 DEF Capture!ConfirmDelegate
    <2>2. /\ CapturePanel(v1') /\ v1'.text = v1.text /\ v1'.created = v1.created
          /\ v1'.step = v1.step /\ v1'.busy = TRUE /\ v1'.images = v1.images
      BY <1>2, <2>1 DEF CapturePanel
    <2>3. work \in CaptureSides /\ work.kind = "work"
      BY <1>2 DEF CaptureSides, CapturePanel
    <2> HIDE DEF work
    <2>4. v2 = Idle /\ \A m \in v3 : m.kind # "work"
      BY <1>1, <2>1 DEF CaptureBusy
    <2>5. CaptureBusy'
      BY <1>1, <2>1, <2>2, <2>3, <2>4 DEF CaptureBusy
    <2> QED BY <1>2, <1>5, <2>1, <2>2, <2>3, <2>5, CapturePanelStep
  <1>11. CASE Capture!CancelDelegate
    <2>1. /\ v1.created # 0 /\ ~v1.busy /\ v1' = [v1 EXCEPT !.outcome = Idle, !.step = "done"]
          /\ UNCHANGED <<v2, v3, v4, v5, v6, v7>>
      BY <1>11 DEF Capture!CancelDelegate
    <2>2. /\ CapturePanel(v1') /\ v1'.text = v1.text /\ v1'.created = v1.created
          /\ v1'.step = "done" /\ v1'.busy = v1.busy /\ v1'.images = v1.images
      BY <1>2, <2>1 DEF CapturePanel
    <2>3. CaptureBusy'
      BY <1>1, <2>1, <2>2 DEF CaptureBusy
    <2> QED BY <1>2, <1>5, <2>1, <2>2, <2>3, CapturePanelStep
  <1>12. CASE Capture!FileAnother
    <2>1. /\ UNCHANGED <<v2, v3, v4, v5, v6, v7>> /\ v1.created # 0
          /\ v1' = [[v1 EXCEPT !.text = 0, !.images = {}, !.created = 0, !.outcome = Idle, !.note = 0]
                    EXCEPT !.step = "compose"]
      BY <1>12 DEF Capture!FileAnother, Capture!ResetForm
    <2>2. /\ CapturePanel(v1') /\ v1'.text = 0 /\ v1'.created = 0
          /\ v1'.step = "compose" /\ v1'.busy = v1.busy /\ v1'.images = {}
      BY <1>2, <1>4, <2>1 DEF CapturePanel
    <2>3. CaptureBusy'
      BY <1>1, <2>1, <2>2 DEF CaptureBusy
    <2>4. v1'.text \in 0 .. v6.texts /\ 0 <= MaxAttachments /\ ~FiledAs(v1'.text)
      BY <1>3, <1>5, <2>2, ClientAssumption
    <2> QED BY <1>2, <1>4, <1>5, <2>1, <2>2, <2>3, <2>4, CapturePanelStep
  <1>13. ASSUME NEW m \in v3, Capture!RoutineAnswers(m) PROVE CaptureInv'
    <2>1. /\ m.kind \in {"assess", "work"} /\ v3' = v3 \ {m} /\ UNCHANGED <<v2, v4, v5, v6, v7>>
          /\ v1' = [v1 EXCEPT !.outcome = [kind |-> m.kind, ticket |-> m.ticket],
                              !.busy = IF m.kind = "work" THEN FALSE ELSE @,
                              !.step = IF m.kind = "work" THEN "done" ELSE @]
      BY <1>13 DEF Capture!RoutineAnswers
    <2>2. /\ CapturePanel(v1') /\ v1'.text = v1.text /\ v1'.created = v1.created
          /\ v1'.step = (IF m.kind = "work" THEN "done" ELSE v1.step)
          /\ v1'.busy = (IF m.kind = "work" THEN FALSE ELSE v1.busy) /\ v1'.images = v1.images
      BY <1>2, <2>1 DEF CapturePanel
    <2>3. CaptureBusy'
      BY <1>1, <2>1, <2>2 DEF CaptureBusy
    <2>4. v3' \subseteq CaptureSides /\ \A n \in v3' : n \in v3
      BY <1>2, <2>1
    <2> QED BY <1>2, <1>5, <2>1, <2>2, <2>3, <2>4, CapturePanelStep
  <1> QED BY <1>6, <1>7, <1>8, <1>9, <1>10, <1>11, <1>12, <1>13

\* The click that takes the text and the images with it.
LEMMA CaptureSubmit ==
  ASSUME CaptureInv, Capture!Submit
  PROVE  CaptureInv'
  <1>1. CaptureTypes /\ CaptureBusy /\ CaptureFiled /\ CaptureOrigin /\ CaptureImages
    BY DEF CaptureInv
  <1>2. /\ v1.step = "compose" /\ ~v1.busy /\ v1.text # 0 /\ v1' = [v1 EXCEPT !.busy = TRUE]
        /\ UNCHANGED <<v3, v4, v5, v6, v7>>
    BY DEF Capture!Submit
  <1>3. PICK next \in {"queue", "delegate"}, order \in Capture!Bijection(1..Capture!Cardinality(v1.images), v1.images) :
          v2' = [pc |-> "post", text |-> v1.text, next |-> next, left |-> order,
                 total |-> Len(order), failed |-> 0, ticket |-> 0]
    BY DEF Capture!Submit
  <1>4. order \in Seq(Images) /\ Distinct(order) /\ Len(order) \in Nat
    <2> DEFINE D == 1 .. Cardinality(v1.images)
    <2>1. order \in [D -> v1.images] /\ \A i, j \in D : i # j => order[i] # order[j]
      BY SameCaptureCount DEF Capture!Bijection, Capture!Injection, Capture!Surjection, Capture!IsInjective
    <2>2. Cardinality(v1.images) \in Nat /\ v1.images \subseteq Images
      BY <1>1, FS_CardinalityType DEF CaptureTypes
    <2>3. order \in Seq(Images) /\ DOMAIN order = D
      BY <2>1, <2>2
    <2> QED BY <2>1, <2>3 DEF Distinct
  <1>5. /\ v2'.pc = "post" /\ v2'.text = v1.text /\ v2'.left = order /\ v2'.failed = 0
        /\ v2' \in CaptureCalls
    <2>1. v1.text \in Nat
      BY <1>1 DEF CaptureTypes
    <2> QED BY <1>3, <1>4, <2>1 DEF CaptureCalls
  <1>6. /\ v1'.open = v1.open /\ v1'.step = v1.step /\ v1'.busy = TRUE /\ v1'.text = v1.text
        /\ v1'.created = v1.created /\ v1'.images = v1.images /\ v1'.outcome = v1.outcome
        /\ v1'.note = v1.note /\ v1' = [open |-> v1.open, step |-> v1.step, busy |-> TRUE,
             text |-> v1.text, images |-> v1.images, created |-> v1.created,
             outcome |-> v1.outcome, note |-> v1.note]
    BY <1>1, <1>2 DEF CaptureTypes
  <1>7. v2 = Idle /\ (\A m \in v3 : m.kind # "work") /\ v1.created = 0 /\ v2' # Idle
    BY <1>1, <1>2, <1>5, ClientAssumption DEF CaptureBusy, CaptureCalls
  <1>8. CaptureTypes'
    BY <1>1, <1>2, <1>5, <1>6 DEF CaptureTypes
  <1>9. CaptureBusy'
    BY <1>1, <1>2, <1>5, <1>6, <1>7 DEF CaptureBusy
  <1>10. CaptureFiled'
    <2>1. \A x : FiledAs(x)' <=> FiledAs(x)
      BY <1>2 DEF FiledAs
    <2>2. ~FiledAs(v1.text)
      BY <1>1, <1>7 DEF CaptureFiled
    <2>3. ~FiledAs(v1.text)' /\ ~FiledAs(v2.text)'
      BY <1>2, <1>5, <1>6, <2>2 DEF FiledAs
    <2>4. Capture!FiledOnce'
      BY <1>1, <1>2 DEF CaptureFiled, Capture!FiledOnce
    <2>5. v1.text \in 1 .. v6.texts
      BY <1>1, <1>2 DEF CaptureFiled, CaptureTypes
    <2> QED BY <1>1, <1>2, <1>5, <1>6, <2>3, <2>4, <2>5 DEF CaptureFiled
  <1>11. CaptureOrigin'
    BY <1>1, <1>2 DEF CaptureOrigin
  <1>12. CaptureImages'
    BY <1>1, <1>2, <1>4, <1>5, <1>6, <1>7 DEF CaptureImages
  <1> QED BY <1>8, <1>9, <1>10, <1>11, <1>12 DEF CaptureInv

\* One more ticket, with a text that is not filed, or whose answer is lost.
LEMMA CaptureTicket ==
  ASSUME CaptureInv, v2 # Idle, v2.pc = "post", Len(v4) < MaxTickets,
         NEW wanted \in Nat,
         v4' = Append(v4, [text |-> v2.text, images |-> {}, wanted |-> wanted])
  PROVE  /\ v4' \in Seq(CaptureTickets) /\ Len(v4') = Len(v4) + 1 /\ Len(v4) \in Nat
         /\ DOMAIN v4 = 1 .. Len(v4) /\ DOMAIN v4' = 1 .. Len(v4) + 1
         /\ \A t \in DOMAIN v4 : v4'[t] = v4[t] /\ t # Len(v4) + 1
         /\ v4'[Len(v4) + 1] = [text |-> v2.text, images |-> {}, wanted |-> wanted]
         /\ v2 \in CaptureCalls /\ v2.text \in 1 .. v6.texts
  <1>1. CaptureTypes /\ CaptureFiled
    BY DEF CaptureInv
  <1>2. v2 \in CaptureCalls /\ v2.text \in 1 .. v6.texts /\ v4 \in Seq(CaptureTickets)
    BY <1>1 DEF CaptureTypes, CaptureFiled
  <1> DEFINE ticket == [text |-> v2.text, images |-> {}, wanted |-> wanted]
  <1>3. ticket \in CaptureTickets
    BY <1>2 DEF CaptureTickets, CaptureCalls
  <1> HIDE DEF ticket
  <1>4. v4' = Append(v4, ticket)
    BY DEF ticket
  <1>5. /\ v4' \in Seq(CaptureTickets) /\ Len(v4') = Len(v4) + 1 /\ Len(v4) \in Nat
        /\ DOMAIN v4 = 1 .. Len(v4) /\ DOMAIN v4' = 1 .. Len(v4) + 1
        /\ \A t \in DOMAIN v4 : v4'[t] = v4[t] /\ t # Len(v4) + 1
        /\ v4'[Len(v4) + 1] = ticket
    BY <1>2, <1>3, <1>4
  <1> QED BY <1>2, <1>5 DEF ticket

LEMMA CaptureTicketFiled ==
  ASSUME CaptureInv, Capture!TicketFiled
  PROVE  CaptureInv'
  <1>1. CaptureTypes /\ CaptureBusy /\ CaptureFiled /\ CaptureOrigin /\ CaptureImages
    BY DEF CaptureInv
  <1> DEFINE n == Len(v4) + 1
             write == [kind |-> "addRequest", ticket |-> n, request |-> 0]
  <1>2. /\ v2 # Idle /\ v2.pc = "post" /\ Len(v4) < MaxTickets
        /\ v4' = Append(v4, [text |-> v2.text, images |-> {}, wanted |-> Len(v2.left)])
        /\ v2' = [v2 EXCEPT !.pc = "upload", !.ticket = n]
        /\ v3' = v3 \cup {write} /\ UNCHANGED <<v1, v5, v6, v7>>
    BY DEF Capture!TicketFiled
  <1>3. v2 \in CaptureCalls /\ Len(v2.left) \in Nat
    BY <1>1, <1>2 DEF CaptureTypes, CaptureCalls
  <1>4. /\ v4' \in Seq(CaptureTickets) /\ Len(v4') = n /\ Len(v4) \in Nat
        /\ DOMAIN v4 = 1 .. Len(v4) /\ DOMAIN v4' = 1 .. n
        /\ \A t \in DOMAIN v4 : v4'[t] = v4[t] /\ t # n
        /\ v4'[n] = [text |-> v2.text, images |-> {}, wanted |-> Len(v2.left)]
        /\ v2.text \in 1 .. v6.texts
    BY <1>2, <1>3, CaptureTicket
  <1>5. /\ v4'[n].text = v2.text /\ v4'[n].images = {} /\ v4'[n].wanted = Len(v2.left)
        /\ n \in DOMAIN v4'
    BY <1>4
  <1>6. /\ v2' \in CaptureCalls /\ v2'.pc = "upload" /\ v2'.ticket = n /\ v2'.text = v2.text
        /\ v2'.left = v2.left /\ v2'.failed = v2.failed
    <2>1. n \in Nat
      BY <1>4
    <2> HIDE DEF n
    <2>2. v2' \in CaptureCalls
      BY <1>2, <1>3, <2>1 DEF CaptureCalls
    <2>3. /\ v2'.pc = "upload" /\ v2'.ticket = n /\ v2'.text = v2.text
          /\ v2'.left = v2.left /\ v2'.failed = v2.failed
      BY <1>2, <1>3 DEF CaptureCalls
    <2> QED BY <2>2, <2>3
  <1>7. v2' # Idle
    BY <1>6, ClientAssumption DEF CaptureCalls
  <1>8. write \in CaptureSides /\ write.kind = "addRequest" /\ write.ticket = n
    BY <1>4 DEF CaptureSides
  <1>9. ~FiledAs(v2.text) /\ (FiledAs(v1.text) => v1.created # 0)
    BY <1>1, <1>2 DEF CaptureFiled
  <1> HIDE DEF n, write
  <1>10. CaptureTypes'
    BY <1>1, <1>2, <1>4, <1>6, <1>8 DEF CaptureTypes
  <1>11. CaptureBusy'
    BY <1>1, <1>2, <1>4, <1>6, <1>7, <1>8, <1>5 DEF CaptureBusy, n
  <1>12. CaptureFiled'
    <2>1. \A t \in DOMAIN v4' : t = n \/ t \in DOMAIN v4
      BY <1>4 DEF n
    <2>2. Capture!FiledOnce'
      <3>1. ASSUME NEW i \in DOMAIN v4', NEW j \in DOMAIN v4', v4'[i].text = v4'[j].text, i # j
            PROVE  v4'[i].text \in v7.lost
        <4>1. \A t \in DOMAIN v4 : v4[t].text = v2.text => v2.text \in v7.lost
          BY <1>9 DEF FiledAs
        <4>2. \A k, l \in DOMAIN v4 : v4[k].text = v4[l].text /\ k # l => v4[k].text \in v7.lost
          BY <1>1 DEF CaptureFiled, Capture!FiledOnce
        <4> QED BY <1>4, <1>5, <2>1, <3>1, <4>1, <4>2
      <3> QED BY <1>2, <3>1 DEF Capture!FiledOnce
    <2>3. FiledAs(v1.text)' => v1.text = v2.text \/ FiledAs(v1.text)
      BY <1>2, <1>4, <1>5, <2>1 DEF FiledAs
    <2>4. \A t \in DOMAIN v4' : v4'[t].text \in 1 .. v6.texts
      BY <1>1, <1>4, <1>5, <2>1 DEF CaptureFiled
    <2> QED BY <1>1, <1>2, <1>4, <1>6, <1>7, <1>9, <2>2, <2>3, <2>4 DEF CaptureFiled
  <1>13. CaptureOrigin'
    <2>1. \A t \in DOMAIN v4 : t \in DOMAIN v4' /\ v4'[t] = v4[t]
      BY <1>4, <1>5 DEF n
    <2> QED BY <1>1, <1>2, <1>5, <1>8, <2>1 DEF CaptureOrigin
  <1>14. CaptureImages'
    <2>1. IsFiniteSet({}) /\ Cardinality({}) = 0
      BY FS_EmptySet
    <2>2. \A t \in DOMAIN v4' : t = n \/ t \in DOMAIN v4
      BY <1>4 DEF n
    <2>3. \A t \in DOMAIN v4' : IsFiniteSet(v4'[t].images) /\ Cardinality(v4'[t].images) <= MaxAttachments
      <3>1. \A t \in DOMAIN v4 : IsFiniteSet(v4[t].images) /\ Cardinality(v4[t].images) <= MaxAttachments
        BY <1>1 DEF CaptureImages
      <3>2. IsFiniteSet(v4'[n].images) /\ Cardinality(v4'[n].images) <= MaxAttachments
        BY <1>5, <2>1, ClientAssumption
      <3> QED BY <1>4, <2>2, <3>1, <3>2
    <2>4. \A t \in DOMAIN v4' : t # n => Cardinality(v4'[t].images) + v7.told[t] = v4'[t].wanted
      BY <1>1, <1>2, <1>4, <2>2 DEF CaptureImages
    <2>5. Len(v4') <= MaxTickets /\ \A t \in 1 .. MaxTickets : t > Len(v4') => t > Len(v4)
      BY <1>2, <1>4, ClientAssumption DEF n
    <2>6. v2.failed = 0 /\ Distinct(v2.left) /\ Len(v2.left) \in Nat
      BY <1>1, <1>2, <1>3 DEF CaptureImages
    <2>7. Cardinality(v4'[n].images) + v2'.failed + Len(v2'.left) = v4'[n].wanted
      BY <1>5, <1>6, <2>1, <2>6
    <2>8. \A i \in DOMAIN v2'.left : v2'.left[i] \notin v4'[n].images
      BY <1>5
    <2>9. Cardinality(v1'.images) <= MaxAttachments
      BY <1>1, <1>2 DEF CaptureImages
    <2>10. \A t \in 1 .. MaxTickets : t > Len(v4') => v7'.told[t] = 0
      BY <1>1, <1>2, <2>5 DEF CaptureImages
    <2> QED BY <1>2, <1>6, <1>7, <2>3, <2>4, <2>5, <2>6, <2>7, <2>8, <2>9, <2>10 DEF CaptureImages
  <1> QED BY <1>10, <1>11, <1>12, <1>13, <1>14 DEF CaptureInv

LEMMA CaptureCallFails ==
  ASSUME CaptureInv, Capture!TicketCallFails
  PROVE  CaptureInv'
  <1>1. CaptureTypes /\ CaptureBusy /\ CaptureFiled /\ CaptureOrigin /\ CaptureImages
    BY DEF CaptureInv
  <1>2. /\ v2 # Idle /\ v2.pc = "post" /\ v6' = [v6 EXCEPT !.fails = @ + 1]
        /\ v1' = [v1 EXCEPT !.busy = FALSE] /\ v2' = Idle /\ UNCHANGED <<v3, v5>>
    BY DEF Capture!TicketCallFails
  <1>3. /\ v6' \in [texts : Nat, fails : Nat] /\ v6'.texts = v6.texts
        /\ CapturePanel(v1') /\ v1'.text = v1.text /\ v1'.created = v1.created
        /\ v1'.step = v1.step /\ v1'.busy = FALSE /\ v1'.images = v1.images
    <2>1. v6 \in [texts : Nat, fails : Nat] /\ CapturePanel(v1)
      BY <1>1 DEF CaptureTypes, CapturePanel
    <2>2. v6' \in [texts : Nat, fails : Nat] /\ v6'.texts = v6.texts
      BY SMTT(30), <1>2, <2>1
    <2>3. /\ CapturePanel(v1') /\ v1'.text = v1.text /\ v1'.created = v1.created
          /\ v1'.step = v1.step /\ v1'.busy = FALSE /\ v1'.images = v1.images
      BY <1>2, <2>1 DEF CapturePanel
    <2> QED BY <2>2, <2>3
  <1>4. (\A m \in v3 : m.kind # "work") /\ v1.created = 0 /\ v1.step = "compose"
    BY <1>1, <1>2 DEF CaptureBusy
  <1>5. ~FiledAs(v1.text)
    BY <1>1, <1>2, <1>4 DEF CaptureFiled
  <1>6. CASE UNCHANGED <<v4, v7>>
    <2>1. CaptureTypes'
      BY <1>1, <1>2, <1>3, <1>6 DEF CaptureTypes, CapturePanel
    <2>2. CaptureBusy' /\ CaptureOrigin'
      BY <1>1, <1>2, <1>3, <1>4, <1>6 DEF CaptureBusy, CaptureOrigin
    <2>3. CaptureFiled'
      <3>1. ~FiledAs(v1.text)'
        BY <1>3, <1>5, <1>6 DEF FiledAs
      <3> QED BY <1>1, <1>2, <1>3, <1>6, <3>1 DEF CaptureFiled, Capture!FiledOnce
    <2>4. CaptureImages'
      BY <1>1, <1>2, <1>3, <1>6 DEF CaptureImages
    <2> QED BY <2>1, <2>2, <2>3, <2>4 DEF CaptureInv
  <1>7. CASE /\ Len(v4) < MaxTickets
             /\ v4' = Append(v4, [text |-> v2.text, images |-> {}, wanted |-> 0])
             /\ v7' = [v7 EXCEPT !.lost = @ \cup {v2.text}]
    <2> DEFINE n == Len(v4) + 1
    <2>1. /\ v4' \in Seq(CaptureTickets) /\ Len(v4') = n /\ Len(v4) \in Nat
          /\ DOMAIN v4 = 1 .. Len(v4) /\ DOMAIN v4' = 1 .. n
          /\ \A t \in DOMAIN v4 : v4'[t] = v4[t] /\ t # n
          /\ v4'[n] = [text |-> v2.text, images |-> {}, wanted |-> 0]
          /\ v2.text \in 1 .. v6.texts /\ v2 \in CaptureCalls
      BY <1>2, <1>7, CaptureTicket
    <2>2. /\ v4'[n].text = v2.text /\ v4'[n].images = {} /\ v4'[n].wanted = 0 /\ n \in DOMAIN v4'
      BY <2>1
    <2>3. /\ v7' \in [lost : SUBSET Nat, told : [1 .. MaxTickets -> Nat]]
          /\ v7'.lost = v7.lost \cup {v2.text} /\ v7'.told = v7.told
      <3>1. v2.text \in Nat
        BY <2>1 DEF CaptureCalls
      <3> QED BY <1>1, <1>7, <3>1 DEF CaptureTypes
    <2>4. \A t \in DOMAIN v4' : t = n \/ t \in DOMAIN v4
      BY <2>1
    <2>5. n <= MaxTickets /\ n \in 1 .. MaxTickets /\ n > Len(v4)
      BY <1>7, <2>1, ClientAssumption
    <2> HIDE DEF n
    <2>6. CaptureTypes'
      BY <1>1, <1>2, <1>3, <2>1, <2>3 DEF CaptureTypes, CapturePanel
    <2>7. CaptureBusy'
      <3>1. v1'.created \in 0 .. Len(v4')
        BY <1>3, <1>4, <2>1 DEF n
      <3> QED BY <1>1, <1>2, <1>3, <1>4, <3>1 DEF CaptureBusy
    <2>8. CaptureOrigin'
      <3>1. \A t \in DOMAIN v4 : t \in DOMAIN v4' /\ v4'[t] = v4[t]
        BY <2>1, <2>2 DEF n
      <3> QED BY <1>1, <1>2, <3>1 DEF CaptureOrigin
    <2>9. CaptureFiled'
      <3>1. Capture!FiledOnce'
        <4>1. ASSUME NEW i \in DOMAIN v4', NEW j \in DOMAIN v4', v4'[i].text = v4'[j].text, i # j
              PROVE  v4'[i].text \in v7'.lost
          <5>1. \A k, l \in DOMAIN v4 : v4[k].text = v4[l].text /\ k # l => v4[k].text \in v7.lost
            BY <1>1 DEF CaptureFiled, Capture!FiledOnce
          <5> QED BY SMTT(30), <2>1, <2>2, <2>3, <2>4, <4>1, <5>1
        <4> QED BY <4>1 DEF Capture!FiledOnce
      <3>2. ~FiledAs(v1.text)'
        BY <1>3, <1>5, <2>1, <2>2, <2>3, <2>4 DEF FiledAs
      <3>3. \A t \in DOMAIN v4' : v4'[t].text \in 1 .. v6.texts
        BY <1>1, <2>1, <2>2, <2>4 DEF CaptureFiled
      <3> QED BY <1>1, <1>2, <1>3, <3>1, <3>2, <3>3 DEF CaptureFiled
    <2>10. CaptureImages'
      <3>1. IsFiniteSet({}) /\ Cardinality({}) = 0
        BY FS_EmptySet
      <3>2. v7.told[n] = 0
        BY <1>1, <2>5 DEF CaptureImages
      <3>3. \A t \in DOMAIN v4' : IsFiniteSet(v4'[t].images) /\ Cardinality(v4'[t].images) <= MaxAttachments
        <4>1. \A t \in DOMAIN v4 : IsFiniteSet(v4[t].images) /\ Cardinality(v4[t].images) <= MaxAttachments
          BY <1>1 DEF CaptureImages
        <4>2. IsFiniteSet(v4'[n].images) /\ Cardinality(v4'[n].images) <= MaxAttachments
          BY <2>2, <3>1, ClientAssumption
        <4> QED BY <2>1, <2>4, <4>1, <4>2
      <3>4. \A t \in DOMAIN v4' : Cardinality(v4'[t].images) + v7'.told[t] = v4'[t].wanted
        <4>1. \A t \in DOMAIN v4 : Cardinality(v4[t].images) + v7.told[t] = v4[t].wanted
          BY <1>1, <1>2 DEF CaptureImages
        <4>2. Cardinality(v4'[n].images) + v7'.told[n] = v4'[n].wanted
          BY <2>2, <2>3, <3>1, <3>2
        <4> QED BY <2>1, <2>3, <2>4, <4>1, <4>2
      <3>5. Len(v4') <= MaxTickets /\ \A t \in 1 .. MaxTickets : t > Len(v4') => t > Len(v4)
        BY <2>1, <2>5, ClientAssumption DEF n
      <3> QED BY <1>1, <1>2, <1>3, <2>3, <3>3, <3>4, <3>5 DEF CaptureImages
    <2> QED BY <2>6, <2>7, <2>8, <2>9, <2>10 DEF CaptureInv
  <1> QED BY <1>6, <1>7 DEF Capture!TicketCallFails

\* One image of the call: at its ticket, or counted as failed.
LEMMA CaptureUpload ==
  ASSUME CaptureInv, Capture!UploadNext
  PROVE  CaptureInv'
  <1>1. CaptureTypes /\ CaptureBusy /\ CaptureFiled /\ CaptureOrigin /\ CaptureImages
    BY DEF CaptureInv
  <1> DEFINE i == Head(v2.left)
             n == v2.ticket
             more == v4[n].images \cup {i}
  <1>2. v2 # Idle /\ v2.pc = "upload" /\ v2.left # <<>> /\ UNCHANGED <<v1, v3, v5, v7>>
    BY DEF Capture!UploadNext
  <1>3. /\ v2 \in CaptureCalls /\ v2.left \in Seq(Images) /\ v2.failed \in Nat
        /\ n \in DOMAIN v4 /\ v4 \in Seq(CaptureTickets)
    BY <1>1, <1>2 DEF CaptureTypes, CaptureBusy, CaptureCalls
  <1>4. /\ i \in Images /\ Tail(v2.left) \in Seq(Images) /\ Len(v2.left) \in Nat \ {0}
        /\ DOMAIN v2.left = 1 .. Len(v2.left) /\ DOMAIN Tail(v2.left) = 1 .. Len(v2.left) - 1
        /\ Len(Tail(v2.left)) = Len(v2.left) - 1 /\ i = v2.left[1]
        /\ \A k \in DOMAIN Tail(v2.left) : Tail(v2.left)[k] = v2.left[k + 1]
    BY <1>2, <1>3
  <1>5. /\ Distinct(v2.left) /\ IsFiniteSet(v4[n].images)
        /\ Cardinality(v4[n].images) <= MaxAttachments
        /\ Cardinality(v4[n].images) + v2.failed + Len(v2.left) = v4[n].wanted
        /\ \A k \in DOMAIN v2.left : v2.left[k] \notin v4[n].images
    BY <1>1, <1>2, <1>3 DEF CaptureImages
  <1>6. /\ Distinct(Tail(v2.left)) /\ i \notin v4[n].images
        /\ \A k \in DOMAIN Tail(v2.left) : Tail(v2.left)[k] \notin more
    <2>1. \A k \in DOMAIN Tail(v2.left) : k + 1 \in DOMAIN v2.left /\ k + 1 # 1
      BY <1>4
    <2>2. 1 \in DOMAIN v2.left
      BY <1>4
    <2> HIDE DEF i, n
    <2>3. \A k \in DOMAIN Tail(v2.left) : Tail(v2.left)[k] # i /\ Tail(v2.left)[k] \notin v4[n].images
      BY <1>4, <1>5, <2>1, <2>2 DEF Distinct
    <2>4. Distinct(Tail(v2.left))
      BY SMTT(30), <1>4, <1>5, <2>1 DEF Distinct
    <2> QED BY <1>4, <1>5, <2>2, <2>3, <2>4
  <1>7. /\ IsFiniteSet(more) /\ Cardinality(more) = Cardinality(v4[n].images) + 1
        /\ Cardinality(v4[n].images) \in Nat
    BY <1>5, <1>6, FS_AddElement, FS_CardinalityType
  <1>8. v4[n] \in CaptureTickets /\ more \subseteq Images
    <2>1. v4[n] \in CaptureTickets
      BY <1>3, ElementOfSeq
    <2> QED BY <1>4, <2>1 DEF CaptureTickets
  <1> HIDE DEF i, n, more
  <1>9. CASE /\ v4' = [v4 EXCEPT ![n].images = more] /\ Cardinality(v4[n].images) < MaxAttachments
             /\ v2' = [v2 EXCEPT !.left = Tail(@)] /\ UNCHANGED v6
    <2>1. /\ v4' \in Seq(CaptureTickets) /\ DOMAIN v4' = DOMAIN v4 /\ Len(v4') = Len(v4)
          /\ \A t \in DOMAIN v4 : t # n => v4'[t] = v4[t]
          /\ v4'[n].images = more /\ v4'[n].text = v4[n].text /\ v4'[n].wanted = v4[n].wanted
      <3> DEFINE e == [v4[n] EXCEPT !.images = more]
      <3>1. v4' = [v4 EXCEPT ![n] = e]
        BY <1>9
      <3>2. /\ e \in CaptureTickets /\ e.images = more /\ e.text = v4[n].text
            /\ e.wanted = v4[n].wanted
        BY <1>8 DEF CaptureTickets
      <3> HIDE DEF e
      <3>3. /\ v4' \in Seq(CaptureTickets) /\ DOMAIN v4' = DOMAIN v4 /\ Len(v4') = Len(v4)
            /\ v4'[n] = e /\ \A t \in DOMAIN v4 : t # n => v4'[t] = v4[t]
        BY <1>3, <3>1, <3>2
      <3> QED BY <3>2, <3>3
    <2>2. /\ v2' \in CaptureCalls /\ v2'.pc = "upload" /\ v2'.ticket = n /\ v2'.text = v2.text
          /\ v2'.left = Tail(v2.left) /\ v2'.failed = v2.failed
      BY <1>2, <1>3, <1>4, <1>9 DEF CaptureCalls, n
    <2>3. v2' # Idle
      BY <2>2, ClientAssumption DEF CaptureCalls
    <2>4. \A t \in DOMAIN v4 : v4'[t].text = v4[t].text /\ v4'[t].wanted = v4[t].wanted
      BY <2>1
    <2>5. CaptureTypes'
      BY <1>1, <1>2, <1>9, <2>1, <2>2 DEF CaptureTypes
    <2>6. CaptureBusy'
      BY <1>1, <1>2, <1>3, <2>1, <2>2, <2>3 DEF CaptureBusy
    <2>7. CaptureFiled'
      BY <1>1, <1>2, <1>9, <2>1, <2>2, <2>3, <2>4 DEF CaptureFiled, FiledAs, Capture!FiledOnce
    <2>8. CaptureOrigin'
      BY <1>1, <1>2, <2>1, <2>4 DEF CaptureOrigin
    <2>9. CaptureImages'
      <3>1. \A t \in DOMAIN v4' : IsFiniteSet(v4'[t].images) /\ Cardinality(v4'[t].images) <= MaxAttachments
        <4>1. IsFiniteSet(v4'[n].images) /\ Cardinality(v4'[n].images) <= MaxAttachments
          BY <1>7, <1>9, <2>1, ClientAssumption
        <4> QED BY <1>1, <2>1, <4>1 DEF CaptureImages
      <3>2. \A t \in DOMAIN v4' : t # n => Cardinality(v4'[t].images) + v7.told[t] = v4'[t].wanted
        <4>1. \A t \in DOMAIN v4 : t # n => Cardinality(v4[t].images) + v7.told[t] = v4[t].wanted
          BY <1>1 DEF CaptureImages, n
        <4> QED BY <2>1, <4>1
      <3>3. Cardinality(v4'[n].images) + v2'.failed + Len(v2'.left) = v4'[n].wanted
        <4>1. Len(v2'.left) = Len(v2.left) - 1 /\ v2'.failed = v2.failed
          BY <1>4, <2>2
        <4>2. Cardinality(v4'[n].images) = Cardinality(v4[n].images) + 1
          BY <1>7, <2>1
        <4>3. v4'[n].wanted = v4[n].wanted
          BY <2>1
        <4> DEFINE a == Cardinality(v4[n].images)
                   b == Len(v2.left)
                   c == v2.failed
                   d == v4[n].wanted
        <4>4. a \in Nat /\ b \in Nat /\ c \in Nat /\ a + c + b = d
          BY <1>3, <1>4, <1>5, <1>7
        <4>5. Cardinality(v4'[n].images) = a + 1 /\ v2'.failed = c /\ Len(v2'.left) = b - 1
          BY <4>1, <4>2
        <4> HIDE DEF a, b, c, d
        <4>6. (a + 1) + c + (b - 1) = d
          BY <4>4
        <4> QED BY <4>3, <4>5, <4>6 DEF d
      <3>4. \A k \in DOMAIN v2'.left : v2'.left[k] \notin v4'[n].images
        BY <1>6, <2>1, <2>2
      <3> QED BY <1>1, <1>2, <1>6, <2>1, <2>2, <2>3, <3>1, <3>2, <3>3, <3>4 DEF CaptureImages
    <2> QED BY <2>5, <2>6, <2>7, <2>8, <2>9 DEF CaptureInv
  <1>10. CASE /\ UNCHANGED v4 /\ v2' = [v2 EXCEPT !.left = Tail(@), !.failed = @ + 1]
              /\ v6' = v6 \/ v6' = [v6 EXCEPT !.fails = @ + 1]
    <2>1. v6' \in [texts : Nat, fails : Nat] /\ v6'.texts = v6.texts
      BY <1>1, <1>10 DEF CaptureTypes
    <2>2. /\ v2' \in CaptureCalls /\ v2'.pc = "upload" /\ v2'.ticket = n /\ v2'.text = v2.text
          /\ v2'.left = Tail(v2.left) /\ v2'.failed = v2.failed + 1
      <3>1. v2' = [v2 EXCEPT !.left = Tail(@), !.failed = @ + 1]
        BY <1>10
      <3>2. v2' \in CaptureCalls
        <4> DEFINE rest == Tail(v2.left)
                   more_failed == v2.failed + 1
        <4>1. rest \in Seq(Images) /\ more_failed \in Nat /\ v2 \in CaptureCalls
          BY <1>3, <1>4
        <4>2. v2' = [[v2 EXCEPT !.left = rest] EXCEPT !.failed = more_failed]
          BY <1>3, <3>1 DEF CaptureCalls
        <4> HIDE DEF rest, more_failed
        <4>3. [v2 EXCEPT !.left = rest] \in CaptureCalls
          BY <4>1 DEF CaptureCalls
        <4> QED BY <4>1, <4>2, <4>3 DEF CaptureCalls
      <3>3. /\ v2'.pc = v2.pc /\ v2'.ticket = v2.ticket /\ v2'.text = v2.text
            /\ v2'.left = Tail(v2.left) /\ v2'.failed = v2.failed + 1
        BY <1>3, <3>1 DEF CaptureCalls
      <3> QED BY <1>2, <3>2, <3>3 DEF n
    <2>3. v2' # Idle
      BY <2>2, ClientAssumption DEF CaptureCalls
    <2>4. CaptureTypes'
      BY <1>1, <1>2, <1>10, <2>1, <2>2 DEF CaptureTypes
    <2>5. CaptureBusy'
      BY <1>1, <1>2, <1>3, <1>10, <2>2, <2>3 DEF CaptureBusy
    <2>6. CaptureFiled'
      BY <1>1, <1>2, <1>10, <2>1, <2>2, <2>3 DEF CaptureFiled, FiledAs, Capture!FiledOnce
    <2>7. CaptureOrigin'
      BY <1>1, <1>2, <1>10 DEF CaptureOrigin
    <2>8. CaptureImages'
      <3>1. \A t \in DOMAIN v4 : t # n => Cardinality(v4[t].images) + v7.told[t] = v4[t].wanted
        BY <1>1 DEF CaptureImages, n
      <3>2. Cardinality(v4[n].images) + v2'.failed + Len(v2'.left) = v4[n].wanted
        BY SMTT(30), <1>3, <1>4, <1>5, <1>7, <2>2
      <3>3. \A k \in DOMAIN v2'.left : v2'.left[k] \notin v4[n].images
        BY <1>6, <2>2 DEF more
      <3> QED BY <1>1, <1>2, <1>6, <1>10, <2>2, <2>3, <3>1, <3>2, <3>3 DEF CaptureImages
    <2> QED BY <2>4, <2>5, <2>6, <2>7, <2>8 DEF CaptureInv
  <1>11. <1>9!1 \/ <1>10!1
    BY <1>6, SameCaptureCount DEF Capture!UploadNext, Capture!AttachmentAccepted, i, n, more
  <1> QED BY <1>9, <1>10, <1>11

\* The uploads are over: the note counts the failures, the panel speaks of the ticket.
LEMMA CaptureFiledStep ==
  ASSUME CaptureInv, Capture!Filed
  PROVE  CaptureInv'
  <1>1. CaptureTypes /\ CaptureBusy /\ CaptureFiled /\ CaptureOrigin /\ CaptureImages
    BY DEF CaptureInv
  <1> DEFINE n == v2.ticket
             assess == [kind |-> "assess", ticket |-> n, request |-> 0]
  <1>2. /\ v2 # Idle /\ v2.pc = "upload" /\ v2.left = <<>> /\ v2' = Idle /\ UNCHANGED <<v4, v5, v6>>
        /\ v1' = [v1 EXCEPT !.busy = FALSE, !.created = v2.ticket,
                   !.images = IF v2.total = 0 THEN @ ELSE {},
                   !.note = IF v2.total = 0 THEN @ ELSE v2.failed,
                   !.outcome = IF v2.next = "queue" THEN [kind |-> "assessing", ticket |-> 0] ELSE @,
                   !.step = IF v2.next = "queue" THEN "done" ELSE "confirm"]
        /\ v3' = IF v2.next = "queue" THEN v3 \cup {assess} ELSE v3
        /\ v7' = [v7 EXCEPT !.told = [@ EXCEPT ![n] = v2.failed]]
    BY DEF Capture!Filed
  <1>3. /\ v2 \in CaptureCalls /\ v2.failed \in Nat /\ n \in DOMAIN v4 /\ n \in Nat \ {0}
        /\ n <= Len(v4) /\ DOMAIN v4 = 1 .. Len(v4) /\ Len(v4) \in Nat /\ Len(v4) <= MaxTickets
        /\ n \in 1 .. MaxTickets
    <2>1. v2 \in CaptureCalls /\ v4 \in Seq(CaptureTickets) /\ n \in DOMAIN v4
      BY <1>1, <1>2 DEF CaptureTypes, CaptureBusy
    <2>2. v2.failed \in Nat
      BY <2>1 DEF CaptureCalls
    <2>3. DOMAIN v4 = 1 .. Len(v4) /\ Len(v4) \in Nat
      BY <2>1
    <2>4. Len(v4) <= MaxTickets
      BY <1>1 DEF CaptureImages
    <2> HIDE DEF n
    <2> QED BY <2>1, <2>2, <2>3, <2>4, ClientAssumption
  <1>4. /\ CapturePanel(v1') /\ v1'.text = v1.text /\ v1'.created = n
        /\ v1'.step \in {"done", "confirm"} /\ v1'.busy = FALSE
        /\ v1'.images = v1.images \/ v1'.images = {}
    <2>1. IsFiniteSet({})
      BY FS_EmptySet
    <2> QED BY <1>1, <1>2, <1>3, <2>1 DEF CaptureTypes, CapturePanel
  <1>5. assess \in CaptureSides /\ assess.kind = "assess"
    BY <1>3 DEF CaptureSides
  <1>6. /\ v7' \in [lost : SUBSET Nat, told : [1 .. MaxTickets -> Nat]] /\ v7'.lost = v7.lost
        /\ v7'.told[n] = v2.failed /\ \A t \in 1 .. MaxTickets : t # n => v7'.told[t] = v7.told[t]
    BY <1>1, <1>2, <1>3 DEF CaptureTypes
  <1> HIDE DEF n, assess
  <1>7. (\A m \in v3 : m.kind # "work") /\ \A m \in v3' : m \in v3 \/ m = assess
    BY <1>1, <1>2 DEF CaptureBusy
  <1>8. CaptureTypes'
    BY <1>1, <1>2, <1>4, <1>5, <1>6 DEF CaptureTypes, CapturePanel
  <1>9. CaptureBusy'
    BY <1>1, <1>2, <1>3, <1>4, <1>5, <1>7 DEF CaptureBusy
  <1>10. CaptureFiled'
    BY <1>1, <1>2, <1>3, <1>4, <1>6 DEF CaptureFiled, FiledAs, Capture!FiledOnce
  <1>11. CaptureOrigin'
    BY <1>1, <1>2, <1>5, <1>7 DEF CaptureOrigin
  <1>12. CaptureImages'
    <2>1. Cardinality({}) = 0 /\ Cardinality(v1'.images) <= MaxAttachments
      <3>1. Cardinality({}) = 0 /\ 0 <= MaxAttachments
        BY FS_EmptySet, ClientAssumption
      <3>2. Cardinality(v1.images) <= MaxAttachments
        BY <1>1 DEF CaptureImages
      <3> QED BY <1>4, <3>1, <3>2
    <2>2. Cardinality(v4[n].images) + v7'.told[n] = v4[n].wanted
      <3>1. /\ Cardinality(v4[n].images) + v2.failed + Len(v2.left) = v4[n].wanted
            /\ IsFiniteSet(v4[n].images)
        BY <1>1, <1>2, <1>3 DEF CaptureImages, n
      <3>2. Len(v2.left) = 0 /\ Cardinality(v4[n].images) \in Nat
        BY <1>2, <3>1, FS_CardinalityType
      <3> QED BY <1>3, <1>6, <3>1, <3>2
    <2>3. \A t \in DOMAIN v4 : t # n => Cardinality(v4[t].images) + v7'.told[t] = v4[t].wanted
      <3>1. \A t \in DOMAIN v4 : t # n => Cardinality(v4[t].images) + v7.told[t] = v4[t].wanted
        BY <1>1 DEF CaptureImages, n
      <3>2. DOMAIN v4 \subseteq 1 .. MaxTickets
        BY <1>3, ClientAssumption
      <3> QED BY <1>6, <3>1, <3>2
    <2>4. \A t \in 1 .. MaxTickets : t > Len(v4) => v7'.told[t] = 0
      <3>1. \A t \in 1 .. MaxTickets : t > Len(v4) => t # n /\ v7.told[t] = 0
        BY <1>1, <1>3 DEF CaptureImages
      <3> QED BY <1>6, <3>1
    <2> QED BY <1>1, <1>2, <2>1, <2>2, <2>3, <2>4 DEF CaptureImages
  <1> QED BY <1>8, <1>9, <1>10, <1>11, <1>12 DEF CaptureInv

\* The ledger's writes.
LEMMA CaptureLedger ==
  ASSUME CaptureInv, NEW m \in v3,
         Capture!AddRequest(m) \/ Capture!LinkRequest(m) \/ Capture!LedgerFails(m)
  PROVE  CaptureInv'
  <1>1. CaptureTypes /\ CaptureBusy /\ CaptureFiled /\ CaptureOrigin /\ CaptureImages
    BY DEF CaptureInv
  <1> DEFINE Requests == [text : Nat, spawned : SUBSET Nat]
  <1>2. m \in CaptureSides /\ v5 \in Seq(Requests) /\ v4 \in Seq(CaptureTickets)
    BY <1>1 DEF CaptureTypes
  <1>3. UNCHANGED <<v1, v2, v4, v7>> /\ m.kind # "work"
    BY DEF Capture!AddRequest, Capture!LinkRequest, Capture!LedgerFails
  <1>4. v6' \in [texts : Nat, fails : Nat] /\ v6'.texts = v6.texts
    <2>1. v6 \in [texts : Nat, fails : Nat] /\ (v6' = v6 \/ v6' = [v6 EXCEPT !.fails = @ + 1])
      BY <1>1 DEF CaptureTypes, Capture!AddRequest, Capture!LinkRequest, Capture!LedgerFails
    <2> QED BY <2>1
  <1>5. CaptureImages' /\ CaptureFiled'
    BY <1>1, <1>3, <1>4 DEF CaptureImages, CaptureFiled, FiledAs, Capture!FiledOnce
  <1>6. ASSUME v3' \subseteq CaptureSides, v5' \in Seq(Requests),
               \A x \in v3' : x \in v3 \/ x.kind # "work"
        PROVE  CaptureTypes' /\ CaptureBusy'
    <2>1. CaptureTypes'
      BY <1>1, <1>3, <1>4, <1>6 DEF CaptureTypes
    <2>2. CaptureBusy'
      BY <1>1, <1>3, <1>6 DEF CaptureBusy
    <2> QED BY <2>1, <2>2
  <1>7. CASE Capture!AddRequest(m)
    <2> DEFINE k == Len(v5) + 1
               link == [kind |-> "link", ticket |-> m.ticket, request |-> k]
               request == [text |-> v4[m.ticket].text, spawned |-> {}]
    <2>1. m.kind = "addRequest" /\ v5' = Append(v5, request) /\ v3' = (v3 \ {m}) \cup {link}
      BY <1>7 DEF Capture!AddRequest
    <2>2. m.ticket \in DOMAIN v4 /\ v4[m.ticket] \in CaptureTickets
      BY <1>1, <1>2, <2>1, ElementOfSeq DEF CaptureOrigin
    <2>3. request \in Requests /\ request.spawned = {} /\ request.text = v4[m.ticket].text
      BY <2>2 DEF CaptureTickets
    <2> HIDE DEF request, Requests
    <2>4. /\ v5' \in Seq(Requests) /\ DOMAIN v5' = 1 .. k /\ DOMAIN v5 = 1 .. Len(v5) /\ Len(v5) \in Nat
          /\ v5'[k] = request /\ \A r \in DOMAIN v5 : v5'[r] = v5[r]
      BY <1>2, <2>1, <2>3
    <2>5. link \in CaptureSides /\ link.kind = "link" /\ link.ticket = m.ticket /\ link.request = k
      BY <1>2, <2>4 DEF CaptureSides
    <2>6. k \in DOMAIN v5' /\ \A r \in DOMAIN v5' : r = k \/ r \in DOMAIN v5
      BY <2>4
    <2> HIDE DEF k, link
    <2>7. CaptureTypes' /\ CaptureBusy'
      BY <1>1, <1>6, <2>1, <2>4, <2>5 DEF CaptureTypes
    <2>8. CaptureOrigin'
      <3>1. \A r \in DOMAIN v5' : \A t \in v5'[r].spawned : t \in DOMAIN v4 /\ v4[t].text = v5'[r].text
        BY <1>1, <2>3, <2>4, <2>6 DEF CaptureOrigin
      <3>2. \A x \in v3' : x \in v3 \/ x = link
        BY <2>1
      <3>3. \A r \in DOMAIN v5 : r \in DOMAIN v5'
        BY <2>4 DEF k
      <3>4. \A x \in v3' : x.kind = "link" =>
              x.request \in DOMAIN v5' /\ v5'[x.request].text = v4[x.ticket].text
        BY <1>1, <2>2, <2>3, <2>4, <2>5, <2>6, <3>2, <3>3 DEF CaptureOrigin
      <3>5. \A x \in v3' : x.kind \in {"addRequest", "link"} => x.ticket \in DOMAIN v4
        BY <1>1, <2>2, <2>5, <3>2 DEF CaptureOrigin
      <3> QED BY <1>3, <3>1, <3>4, <3>5 DEF CaptureOrigin
    <2> QED BY <1>5, <2>7, <2>8 DEF CaptureInv
  <1>8. CASE Capture!LinkRequest(m)
    <2> DEFINE k == m.request
               linked == [v5[k] EXCEPT !.spawned = @ \cup {m.ticket}]
    <2>1. m.kind = "link" /\ v5' = [v5 EXCEPT ![k] = linked] /\ v3' = v3 \ {m}
      BY <1>8 DEF Capture!LinkRequest
    <2>2. k \in DOMAIN v5 /\ v5[k].text = v4[m.ticket].text /\ m.ticket \in DOMAIN v4
      BY <1>1, <2>1 DEF CaptureOrigin
    <2>3. v5[k] \in Requests /\ m.ticket \in Nat
      <3>1. m.ticket \in Nat
        BY <1>2 DEF CaptureSides
      <3> HIDE DEF k, Requests
      <3> QED BY <1>2, <2>2, <3>1, ElementOfSeq
    <2>4. /\ linked \in Requests /\ linked.text = v5[k].text
          /\ linked.spawned = v5[k].spawned \cup {m.ticket}
      BY <2>3
    <2> HIDE DEF linked, Requests, k
    <2>5. /\ v5' \in Seq(Requests) /\ DOMAIN v5' = DOMAIN v5 /\ v5'[k] = linked
          /\ \A r \in DOMAIN v5 : r # k => v5'[r] = v5[r]
      BY <1>2, <2>1, <2>2, <2>4
    <2>6. CaptureTypes' /\ CaptureBusy'
      BY <1>1, <1>6, <2>1, <2>5 DEF CaptureTypes
    <2>7. CaptureOrigin'
      <3>1. \A r \in DOMAIN v5' : \A t \in v5'[r].spawned : t \in DOMAIN v4 /\ v4[t].text = v5'[r].text
        BY <1>1, <2>2, <2>4, <2>5 DEF CaptureOrigin
      <3>2. \A r \in DOMAIN v5 : v5'[r].text = v5[r].text
        BY <2>4, <2>5
      <3> QED BY <1>1, <1>3, <2>1, <2>5, <3>1, <3>2 DEF CaptureOrigin
    <2> QED BY <1>5, <2>6, <2>7 DEF CaptureInv
  <1>9. CASE Capture!LedgerFails(m)
    <2>1. v5' = v5 /\ v3' = v3 \ {m}
      BY <1>9 DEF Capture!LedgerFails
    <2>2. CaptureTypes' /\ CaptureBusy'
      BY <1>1, <1>2, <1>6, <2>1 DEF CaptureTypes
    <2>3. CaptureOrigin'
      BY <1>1, <1>3, <2>1 DEF CaptureOrigin
    <2> QED BY <1>5, <2>2, <2>3 DEF CaptureInv
  <1> QED BY <1>7, <1>8, <1>9

\* A step of the panel keeps the invariant.
LEMMA CaptureStep ==
  ASSUME CaptureInv, Capture!CaptureNext
  PROVE  CaptureInv'
  BY CaptureOwnerSteps, CaptureSubmit, CaptureTicketFiled, CaptureCallFails, CaptureUpload,
     CaptureFiledStep, CaptureLedger DEF Capture!CaptureNext

-----------------------------------------------------------------------------
(***************************************************************************)
(* TriageInbox.                                                            *)
(***************************************************************************)

LEMMA TriageStart ==
  ASSUME Triage!TriageInit
  PROVE  TriageInv
  <1>1. /\ v1 = [f \in Finds |-> [here |-> TRUE, decision |-> "none"]] /\ v2 = {}
        /\ v3 = [f \in Finds |-> [here |-> TRUE, decision |-> "none", tracked |-> FALSE]]
        /\ v5 = {}
    BY DEF Triage!TriageInit, Triage!Undecided
  <1>2. v4 = [override |-> [f \in Finds |-> "stored"], told |-> {}, toast |-> None,
              prior |-> "none", busy |-> None, bulk |-> {}, verb |-> "skip", mounted |-> TRUE]
    BY DEF Triage!TriageInit, Triage!Fresh, Triage!NoOverride, Triage!Undecided
  <1>3. v6 = [drafts |-> [f \in Finds |-> 0], made |-> [f \in Finds |-> 0], excused |-> {}]
    BY DEF Triage!TriageInit
  <1>4. v4 \in TriageList
    BY <1>2 DEF TriageList, TriageDecided
  <1>5. v6 \in TriageHistory
    BY <1>3 DEF TriageHistory
  <1>6. TriageTypes
    BY <1>1, <1>4, <1>5 DEF TriageTypes, TriageFind, TriageRow, TriageDecided
  <1>7. TriagePursued
    BY <1>1, <1>3 DEF TriagePursued
  <1>8. v4.mounted /\ v4.bulk = {} /\ \A f \in Finds : v4.override[f] = "stored"
    BY <1>2
  <1>9. TriageTells
    BY <1>1, <1>8 DEF TriageTells
  <1> QED BY <1>6, <1>7, <1>9 DEF TriageInv

LEMMA TriageStays ==
  ASSUME TriageInv, UNCHANGED <<v1, v2, v3, v4, v5, v6, v7>>
  PROVE  TriageInv'
  BY DEF TriageInv, TriageTypes, TriagePursued, TriageTells, Decides

\* What the run checks of the inbox.
LEMMA TriageHolds ==
  ASSUME TriageInv
  PROVE  Triage!PursuedOnce /\ Triage!RowTellsStored /\ Triage!TriageTypeOK
  <1>1. TriageTypes /\ TriagePursued /\ TriageTells
    BY DEF TriageInv
  <1>2. Triage!PursuedOnce
    <2>1. \A f \in Finds : v6.made[f] \in {0, 1} /\ v6.drafts[f] \in Nat
      BY <1>1 DEF TriageTypes, TriagePursued, TriageHistory
    <2>2. \A f \in Finds : v6.drafts[f] <= v6.made[f]
      BY <1>1, <2>1 DEF TriagePursued
    <2> QED BY <2>1, <2>2 DEF Triage!PursuedOnce
  <1>3. Triage!RowTellsStored
    BY <1>1 DEF Triage!RowTellsStored, TriageTells, Triage!NoOverride
  <1>4. Triage!TriageTypeOK
    <2>1. /\ v1 \in [Finds -> TriageFind] /\ v2 \subseteq Finds /\ v3 \in [Finds -> TriageRow]
          /\ v4 \in TriageList
      BY <1>1 DEF TriageTypes
    <2>2. /\ v4.override \in [Finds -> TriageDecided \cup {"stored"}]
          /\ v4.toast \in Finds \cup {None} /\ v4.busy \in Finds \cup {None}
      BY <2>1 DEF TriageList
    <2> QED BY <2>1, <2>2
        DEF Triage!TriageTypeOK, Triage!Decisions, Triage!Undecided, Triage!NoOverride,
            TriageFind, TriageRow, TriageDecided
  <1> QED BY <1>2, <1>3, <1>4

\* A call that goes out beside those under way: what overlaps is excused.
LEMMA TriageSend ==
  ASSUME TriageInv, NEW c \in TriageCalls, c.find \in Finds, c.kind \notin {"load", "draft"},
         Triage!Sends(c)
  PROVE  /\ v5' = v5 \cup {c} /\ v5' \subseteq TriageCalls /\ v6' \in TriageHistory
         /\ v6'.made = v6.made /\ v6'.drafts = v6.drafts /\ v6.excused \subseteq v6'.excused
         /\ v6'.excused \subseteq v6.excused \cup {c.find}
         /\ c.find \notin v6'.excused =>
              (\A r \in v5 : r.find # c.find) /\ (c.kind = "bulk" \/ c.find \notin v4.bulk)
         /\ \A f \in Finds : DraftOf(f) \in v5' <=> DraftOf(f) \in v5
         /\ \A r \in v5' : r.kind = "draft" => r \in v5
         /\ \A r \in v5' : r.kind # "load" => r.find \in Finds
         /\ \A r \in v5' : r.kind = "load" => r.find = None
  <1>1. TriageTypes
    BY DEF TriageInv
  <1>2. /\ v5' = v5 \cup {c}
        /\ v6' = IF (\E r \in v5 : r.find = c.find) \/ (c.kind # "bulk" /\ c.find \in v4.bulk)
                 THEN [v6 EXCEPT !.excused = @ \cup {c.find}] ELSE v6
    BY DEF Triage!Sends, Triage!UnderWay
  <1>3. v6 \in TriageHistory /\ v5 \subseteq TriageCalls
    BY <1>1 DEF TriageTypes
  <1>4. /\ v6' \in TriageHistory /\ v6'.made = v6.made /\ v6'.drafts = v6.drafts
        /\ v6'.excused = IF (\E r \in v5 : r.find = c.find) \/ (c.kind # "bulk" /\ c.find \in v4.bulk)
                         THEN v6.excused \cup {c.find} ELSE v6.excused
    BY <1>2, <1>3 DEF TriageHistory
  <1>5. \A f : DraftOf(f).kind = "draft"
    BY DEF DraftOf
  <1>6. \A r \in v5' : r \in v5 \/ r = c
    BY <1>2
  <1>7. /\ \A r \in v5' : r.kind # "load" => r.find \in Finds
        /\ \A r \in v5' : r.kind = "load" => r.find = None
    BY <1>1, <1>6 DEF TriageTypes
  <1>8. \A f \in Finds : DraftOf(f) \in v5' <=> DraftOf(f) \in v5
    BY <1>2, <1>5
  <1> QED BY <1>2, <1>3, <1>4, <1>6, <1>7, <1>8

\* The parts of the invariant, from what a step that makes no job does to the state.
LEMMA TriageKeptBy ==
  ASSUME TriageInv, v2' = v2, v1' \in [Finds -> TriageFind], v3' \in [Finds -> TriageRow],
         v4' \in TriageList, v5' \subseteq TriageCalls, v6' \in TriageHistory,
         v6'.made = v6.made, v6'.drafts = v6.drafts,
         \A r \in v5' : r.kind # "load" => r.find \in Finds,
         \A r \in v5' : r.kind = "load" => r.find = None,
         \A r \in v5' : r.kind = "draft" => r \in v5,
         \A f \in Finds : DraftOf(f) \in v5' => DraftOf(f) \in v5,
         TriageTells'
  PROVE  TriageInv'
  <1>1. TriageTypes /\ TriagePursued
    BY DEF TriageInv
  <1>2. TriageTypes'
    BY <1>1 DEF TriageTypes
  <1>3. TriagePursued'
    <2>1. \A f \in Finds : v6.made[f] \in Nat /\ v6.drafts[f] \in Nat
      BY <1>1 DEF TriageTypes, TriageHistory
    <2>2. \A f \in Finds : v6.drafts[f] + (IF DraftOf(f) \in v5' THEN 1 ELSE 0) <= v6.made[f]
      BY <1>1, <2>1 DEF TriagePursued
    <2>3. \A r \in v5' : r.kind = "draft" => r = DraftOf(r.find)
      BY <1>1 DEF TriagePursued
    <2> QED BY <1>1, <2>2, <2>3 DEF TriagePursued
  <1> QED BY <1>2, <1>3 DEF TriageInv

\* The finds come and go.
LEMMA TriageFinds ==
  ASSUME TriageInv, (\E f \in Finds : Triage!AddFind(f)) \/ Triage!PruneFinds
  PROVE  TriageInv'
  <1>1. TriageTypes /\ TriageTells
    BY DEF TriageInv
  <1>2. /\ v1 \in [Finds -> TriageFind] /\ v3 \in [Finds -> TriageRow] /\ v4 \in TriageList
        /\ v5 \subseteq TriageCalls /\ v6 \in TriageHistory
        /\ \A r \in v5 : r.kind # "load" => r.find \in Finds
        /\ \A r \in v5 : r.kind = "load" => r.find = None
    BY <1>1 DEF TriageTypes
  <1>3. ASSUME NEW f \in Finds, Triage!AddFind(f) PROVE TriageInv'
    <2>1. /\ v1' = [v1 EXCEPT ![f] = [here |-> TRUE, decision |-> "none"]]
          /\ v6' = IF v4.override[f] = "stored" THEN v6
                   ELSE [v6 EXCEPT !.excused = @ \cup {f}]
          /\ UNCHANGED <<v2, v3, v4, v5>>
      BY <1>3 DEF Triage!AddFind, Triage!Undecided, Triage!NoOverride
    <2>2. v1' \in [Finds -> TriageFind] /\ \A g \in Finds : g # f => v1'[g] = v1[g]
      BY <1>2, <2>1 DEF TriageFind, TriageDecided
    <2>3. /\ v6' \in TriageHistory /\ v6'.made = v6.made /\ v6'.drafts = v6.drafts
          /\ v6.excused \subseteq v6'.excused
          /\ f \notin v6'.excused => v4.override[f] = "stored"
      BY <1>2, <2>1 DEF TriageHistory
    <2>4. TriageTells'
      BY <1>1, <2>1, <2>2, <2>3 DEF TriageTells, Decides
    <2> QED BY <1>2, <2>1, <2>2, <2>3, <2>4, TriageKeptBy
  <1>4. CASE Triage!PruneFinds
    <2>1. PICK late \in SUBSET {f \in Finds : v1[f].here} :
            v1' = [f \in Finds |-> [v1[f] EXCEPT !.here = @ /\ ~(f \in late /\ f \notin v2)]]
      BY <1>4 DEF Triage!PruneFinds
    <2>2. UNCHANGED <<v2, v3, v4, v5, v6>>
      BY <1>4 DEF Triage!PruneFinds
    <2>3. /\ v1' \in [Finds -> TriageFind]
          /\ \A f \in Finds : v1'[f].decision = v1[f].decision /\ (v1'[f].here => v1[f].here)
      <3>1. ASSUME NEW f \in Finds
            PROVE  /\ v1'[f] \in TriageFind
                   /\ v1'[f].decision = v1[f].decision /\ (v1'[f].here => v1[f].here)
        <4>1. v1[f] \in TriageFind
          BY <1>2
        <4>2. v1'[f] = [v1[f] EXCEPT !.here = @ /\ ~(f \in late /\ f \notin v2)]
          BY <2>1
        <4> QED BY <4>1, <4>2 DEF TriageFind
      <3>2. v1' = [f \in Finds |-> v1'[f]]
        BY <2>1
      <3> QED BY <3>1, <3>2
    <2>4. TriageTells'
      BY <1>1, <2>2, <2>3 DEF TriageTells, Decides
    <2> QED BY <1>2, <2>2, <2>3, <2>4, TriageKeptBy
  <1> QED BY <1>3, <1>4

\* What the row shows now is a decision.
LEMMA TriageEff ==
  ASSUME TriageInv, NEW f \in Finds
  PROVE  Triage!Eff(f) \in TriageDecided
  BY DEF TriageInv, TriageTypes, TriageRow, TriageList, Triage!Eff, Triage!NoOverride

\* A click that sends a call.
LEMMA TriageClicks ==
  ASSUME TriageInv,
         \/ \E f \in Finds, verb \in {"skip", "maybe"} : Triage!ApplyDecision(f, verb)
         \/ Triage!UndoDecision
         \/ \E f \in Finds : Triage!Pursue(f) \/ Triage!BulkSends(f)
  PROVE  TriageInv'
  <1>1. TriageTypes /\ TriageTells
    BY DEF TriageInv
  <1>2. /\ v1 \in [Finds -> TriageFind] /\ v3 \in [Finds -> TriageRow] /\ v4 \in TriageList
        /\ v5 \subseteq TriageCalls /\ v6 \in TriageHistory
        /\ \A r \in v5 : r.kind # "load" => r.find \in Finds
        /\ \A r \in v5 : r.kind = "load" => r.find = None
    BY <1>1 DEF TriageTypes
  <1>3. ASSUME NEW f \in Finds, NEW verb \in {"skip", "maybe"}, Triage!ApplyDecision(f, verb)
        PROVE  TriageInv'
    <2> DEFINE c == [kind |-> "apply", find |-> f, verb |-> verb, prior |-> Triage!Eff(f)]
    <2>1. /\ v4.mounted /\ Triage!Sends(c) /\ UNCHANGED <<v1, v2, v3>>
          /\ v4' = [v4 EXCEPT !.override[f] = verb, !.told = @ \ {f}, !.toast = f,
                              !.prior = Triage!Eff(f), !.busy = f]
      BY <1>3 DEF Triage!ApplyDecision, Triage!Call
    <2>2. Triage!Eff(f) \in TriageDecided /\ verb \in TriageDecided /\ verb # "stored"
      BY TriageEff DEF TriageDecided
    <2>3. c \in TriageCalls /\ c.kind = "apply" /\ c.find = f /\ c.verb = verb
      BY <2>2 DEF TriageCalls
    <2> HIDE DEF c
    <2>4. /\ v5' = v5 \cup {c} /\ v5' \subseteq TriageCalls /\ v6' \in TriageHistory
          /\ v6'.made = v6.made /\ v6'.drafts = v6.drafts /\ v6.excused \subseteq v6'.excused
          /\ f \notin v6'.excused => (\A r \in v5 : r.find # f) /\ f \notin v4.bulk
          /\ \A g \in Finds : DraftOf(g) \in v5' => DraftOf(g) \in v5
          /\ \A r \in v5' : r.kind = "draft" => r \in v5
          /\ \A r \in v5' : r.kind # "load" => r.find \in Finds
          /\ \A r \in v5' : r.kind = "load" => r.find = None
      BY <2>1, <2>3, TriageSend
    <2>5. /\ v4' \in TriageList /\ v4'.mounted = v4.mounted /\ v4'.bulk = v4.bulk
          /\ v4'.override[f] = verb /\ \A g \in Finds : g # f => v4'.override[g] = v4.override[g]
          /\ \A g \in Finds : g # f => (g \in v4.told <=> g \in v4'.told)
          /\ v4'.verb = v4.verb
      BY <1>2, <2>1, <2>2 DEF TriageList
    <2>6. TriageTells'
      BY <1>1, <2>1, <2>3, <2>4, <2>5 DEF TriageTells, Decides
    <2> QED BY <1>2, <2>1, <2>4, <2>5, <2>6, TriageKeptBy
  <1>4. CASE Triage!UndoDecision
    <2> DEFINE f == v4.toast
               c == [kind |-> "undo", find |-> f, verb |-> v4.prior, prior |-> Triage!Eff(f)]
    <2>1. /\ v4.mounted /\ f # None /\ Triage!Sends(c) /\ UNCHANGED <<v1, v2, v3>>
          /\ v4' = [v4 EXCEPT !.override[f] = v4.prior, !.toast = None]
      BY <1>4 DEF Triage!UndoDecision, Triage!Call
    <2>2. f \in Finds /\ v4.prior \in TriageDecided
      BY <1>2, <2>1 DEF TriageList
    <2> HIDE DEF f
    <2>3. Triage!Eff(f) \in TriageDecided /\ v4.prior # "stored"
      BY <2>2, TriageEff DEF TriageDecided
    <2>4. c \in TriageCalls /\ c.kind = "undo" /\ c.find = f /\ c.verb = v4.prior
      BY <2>2, <2>3 DEF TriageCalls
    <2> HIDE DEF c
    <2>5. /\ v5' = v5 \cup {c} /\ v5' \subseteq TriageCalls /\ v6' \in TriageHistory
          /\ v6'.made = v6.made /\ v6'.drafts = v6.drafts /\ v6.excused \subseteq v6'.excused
          /\ f \notin v6'.excused => (\A r \in v5 : r.find # f) /\ f \notin v4.bulk
          /\ \A g \in Finds : DraftOf(g) \in v5' => DraftOf(g) \in v5
          /\ \A r \in v5' : r.kind = "draft" => r \in v5
          /\ \A r \in v5' : r.kind # "load" => r.find \in Finds
          /\ \A r \in v5' : r.kind = "load" => r.find = None
      BY <2>1, <2>2, <2>4, TriageSend
    <2>6. /\ v4' \in TriageList /\ v4'.mounted = v4.mounted /\ v4'.bulk = v4.bulk
          /\ v4'.override[f] = v4.prior
          /\ \A g \in Finds : g # f => v4'.override[g] = v4.override[g]
          /\ v4'.told = v4.told /\ v4'.verb = v4.verb
      BY <1>2, <2>1, <2>2 DEF TriageList
    <2>7. TriageTells'
      BY <1>1, <2>1, <2>2, <2>4, <2>5, <2>6 DEF TriageTells, Decides
    <2> QED BY <1>2, <2>1, <2>5, <2>6, <2>7, TriageKeptBy
  <1>5. ASSUME NEW f \in Finds, Triage!Pursue(f) PROVE TriageInv'
    <2> DEFINE c == [kind |-> "pursue", find |-> f, verb |-> "none", prior |-> Triage!Eff(f)]
    <2>1. /\ v4.mounted /\ Triage!Sends(c) /\ UNCHANGED <<v1, v2, v3>>
          /\ v4' = [v4 EXCEPT !.busy = f, !.told = @ \ {f}]
      BY <1>5 DEF Triage!Pursue, Triage!Call, Triage!Undecided
    <2>2. Triage!Eff(f) \in TriageDecided
      BY TriageEff
    <2>3. c \in TriageCalls /\ c.kind = "pursue" /\ c.find = f
      BY <2>2 DEF TriageCalls, TriageDecided
    <2> HIDE DEF c
    <2>4. /\ v5' = v5 \cup {c} /\ v5' \subseteq TriageCalls /\ v6' \in TriageHistory
          /\ v6'.made = v6.made /\ v6'.drafts = v6.drafts /\ v6.excused \subseteq v6'.excused
          /\ f \notin v6'.excused => (\A r \in v5 : r.find # f) /\ f \notin v4.bulk
          /\ \A g \in Finds : DraftOf(g) \in v5' => DraftOf(g) \in v5
          /\ \A r \in v5' : r.kind = "draft" => r \in v5
          /\ \A r \in v5' : r.kind # "load" => r.find \in Finds
          /\ \A r \in v5' : r.kind = "load" => r.find = None
      BY <2>1, <2>3, TriageSend
    <2>5. /\ v4' \in TriageList /\ v4'.mounted = v4.mounted /\ v4'.bulk = v4.bulk
          /\ v4'.override = v4.override /\ v4'.verb = v4.verb
          /\ \A g \in Finds : g # f => (g \in v4.told <=> g \in v4'.told)
      BY <1>2, <2>1 DEF TriageList
    <2>6. TriageTells'
      BY <1>1, <2>1, <2>3, <2>4, <2>5 DEF TriageTells, Decides
    <2> QED BY <1>2, <2>1, <2>4, <2>5, <2>6, TriageKeptBy
  <1>6. ASSUME NEW f \in Finds, Triage!BulkSends(f) PROVE TriageInv'
    <2> DEFINE c == [kind |-> "bulk", find |-> f, verb |-> v4.verb, prior |-> Triage!Eff(f)]
    <2>1. /\ f \in v4.bulk /\ Triage!Sends(c) /\ UNCHANGED <<v1, v2, v3>>
          /\ v4' = [v4 EXCEPT !.bulk = @ \ {f}]
      BY <1>6 DEF Triage!BulkSends, Triage!Call
    <2>2. Triage!Eff(f) \in TriageDecided
      BY TriageEff
    <2>3. c \in TriageCalls /\ c.kind = "bulk" /\ c.find = f /\ c.verb = v4.verb
      BY <1>2, <2>2 DEF TriageCalls, TriageList
    <2> HIDE DEF c
    <2>4. /\ v5' = v5 \cup {c} /\ v5' \subseteq TriageCalls /\ v6' \in TriageHistory
          /\ v6'.made = v6.made /\ v6'.drafts = v6.drafts /\ v6.excused \subseteq v6'.excused
          /\ f \notin v6'.excused => (\A r \in v5 : r.find # f)
          /\ \A g \in Finds : DraftOf(g) \in v5' => DraftOf(g) \in v5
          /\ \A r \in v5' : r.kind = "draft" => r \in v5
          /\ \A r \in v5' : r.kind # "load" => r.find \in Finds
          /\ \A r \in v5' : r.kind = "load" => r.find = None
      BY <2>1, <2>3, TriageSend
    <2>5. /\ v4' \in TriageList /\ v4'.mounted = v4.mounted /\ v4'.bulk = v4.bulk \ {f}
          /\ v4'.override = v4.override /\ v4'.verb = v4.verb /\ v4'.told = v4.told
      BY <1>2, <2>1 DEF TriageList
    <2>6. TriageTells'
      BY <1>1, <2>1, <2>3, <2>4, <2>5 DEF TriageTells, Decides
    <2> QED BY <1>2, <2>1, <2>4, <2>5, <2>6, TriageKeptBy
  <1> QED BY <1>3, <1>4, <1>5, <1>6

\* What changes the list alone, and a refresh.
LEMMA TriageScreen ==
  ASSUME TriageInv,
         \/ \E chosen \in SUBSET Finds : Triage!BulkDecide(chosen, "skip")
         \/ Triage!ToastExpires \/ Triage!ToSources \/ Triage!ToFinds \/ Triage!Refresh
  PROVE  TriageInv'
  <1>1. TriageTypes /\ TriageTells
    BY DEF TriageInv
  <1>2. /\ v1 \in [Finds -> TriageFind] /\ v3 \in [Finds -> TriageRow] /\ v4 \in TriageList
        /\ v5 \subseteq TriageCalls /\ v6 \in TriageHistory
        /\ \A r \in v5 : r.kind # "load" => r.find \in Finds
        /\ \A r \in v5 : r.kind = "load" => r.find = None
    BY <1>1 DEF TriageTypes
  <1>3. ASSUME NEW chosen \in SUBSET Finds, Triage!BulkDecide(chosen, "skip") PROVE TriageInv'
    <2> DEFINE excused == {f \in chosen : \E r \in v5 : r.find = f}
               override == [f \in Finds |-> IF f \in chosen THEN "skip" ELSE v4.override[f]]
    <2>1. /\ v4.mounted /\ v4.bulk = {} /\ UNCHANGED <<v1, v2, v3, v5>>
          /\ v4' = [v4 EXCEPT !.override = override, !.bulk = chosen, !.verb = "skip"]
          /\ v6' = [v6 EXCEPT !.excused = @ \cup excused]
      BY <1>3 DEF Triage!BulkDecide, Triage!UnderWay
    <2>2. override \in [Finds -> TriageDecided \cup {"stored"}] /\ excused \subseteq Finds
      BY <1>2 DEF TriageList, TriageDecided
    <2>3. \A f \in Finds : override[f] = IF f \in chosen THEN "skip" ELSE v4.override[f]
      OBVIOUS
    <2>4. \A f \in Finds : f \in chosen /\ f \notin excused => \A r \in v5 : r.find # f
      OBVIOUS
    <2> HIDE DEF excused, override
    <2>5. /\ v4' \in TriageList /\ v4'.mounted = v4.mounted /\ v4'.bulk = chosen
          /\ v4'.override = override /\ v4'.verb = "skip" /\ v4'.told = v4.told
      BY <1>2, <2>1, <2>2 DEF TriageList, TriageDecided
    <2>6. /\ v6' \in TriageHistory /\ v6'.made = v6.made /\ v6'.drafts = v6.drafts
          /\ v6'.excused = v6.excused \cup excused
      BY <1>2, <2>1, <2>2 DEF TriageHistory
    <2>7. TriageTells'
      BY <1>1, <2>1, <2>3, <2>4, <2>5, <2>6 DEF TriageTells, Decides
    <2> QED BY SMTT(30), <1>2, <2>1, <2>5, <2>6, <2>7, TriageKeptBy
  <1>4. CASE Triage!ToastExpires
    <2>1. UNCHANGED <<v1, v2, v3, v5, v6>> /\ v4' = [v4 EXCEPT !.toast = None]
      BY <1>4 DEF Triage!ToastExpires
    <2>2. /\ v4' \in TriageList /\ v4'.mounted = v4.mounted /\ v4'.bulk = v4.bulk
          /\ v4'.override = v4.override /\ v4'.verb = v4.verb /\ v4'.told = v4.told
      BY <1>2, <2>1 DEF TriageList
    <2>3. TriageTells'
      BY <1>1, <2>1, <2>2 DEF TriageTells, Decides
    <2> QED BY <1>2, <2>1, <2>2, <2>3, TriageKeptBy
  <1>5. CASE Triage!ToSources
    <2>1. /\ UNCHANGED <<v1, v2, v3, v5, v6>>
          /\ v4' = [override |-> [f \in Finds |-> "stored"], told |-> {}, toast |-> None,
                    prior |-> "none", busy |-> None, bulk |-> v4.bulk, verb |-> v4.verb,
                    mounted |-> FALSE]
      BY <1>5 DEF Triage!ToSources, Triage!Fresh, Triage!NoOverride, Triage!Undecided
    <2>2. /\ v4' \in TriageList /\ \A f \in Finds : v4'.override[f] = "stored"
          /\ v4'.bulk = v4.bulk /\ v4'.verb = v4.verb
      BY <1>2, <2>1 DEF TriageList, TriageDecided
    <2>3. TriageTells'
      BY <1>1, <2>1, <2>2 DEF TriageTells, Decides
    <2> QED BY <1>2, <2>1, <2>2, <2>3, TriageKeptBy
  <1>6. CASE Triage!ToFinds
    <2>1. ~v4.mounted /\ UNCHANGED <<v1, v2, v3, v5, v6>> /\ v4' = [v4 EXCEPT !.mounted = TRUE]
      BY <1>6 DEF Triage!ToFinds
    <2>2. /\ v4' \in TriageList /\ v4'.mounted /\ v4'.bulk = v4.bulk
          /\ v4'.override = v4.override /\ v4'.verb = v4.verb /\ v4'.told = v4.told
      BY <1>2, <2>1 DEF TriageList
    <2>3. TriageTells'
      BY <1>1, <2>1, <2>2 DEF TriageTells, Decides
    <2> QED BY <1>2, <2>1, <2>2, <2>3, TriageKeptBy
  <1>7. CASE Triage!Refresh
    <2> DEFINE c == [kind |-> "load", find |-> None, verb |-> "none", prior |-> "none"]
    <2>1. UNCHANGED <<v1, v2, v3, v4, v6>> /\ v5' = v5 \cup {c}
      BY <1>7 DEF Triage!Refresh, Triage!Load, Triage!Undecided
    <2>2. c \in TriageCalls /\ c.find = None /\ c.kind = "load"
      BY DEF TriageCalls, TriageDecided
    <2> HIDE DEF c
    <2>3. \A f \in Finds : DraftOf(f) # c
      BY <2>2 DEF DraftOf
    <2>4. TriageTells'
      BY <1>1, <2>1, <2>2, ClientAssumption DEF TriageTells, Decides
    <2>5. /\ v5' \subseteq TriageCalls
          /\ \A r \in v5' : r.kind # "load" => r.find \in Finds
          /\ \A r \in v5' : r.kind = "load" => r.find = None
          /\ \A r \in v5' : r.kind = "draft" => r \in v5
          /\ \A f \in Finds : DraftOf(f) \in v5' => DraftOf(f) \in v5
      BY <1>2, <2>1, <2>2, <2>3
    <2> QED BY <1>2, <2>1, <2>4, <2>5, TriageKeptBy
  <1> QED BY <1>3, <1>4, <1>5, <1>6, <1>7

\* An answer, of a call that makes no job.
LEMMA TriageAnswers ==
  ASSUME TriageInv, NEW c \in v5, Triage!Decided(c) \/ Triage!NotDecided(c) \/ Triage!Loaded(c)
  PROVE  TriageInv'
  <1>1. TriageTypes /\ TriageTells
    BY DEF TriageInv
  <1>2. /\ v1 \in [Finds -> TriageFind] /\ v3 \in [Finds -> TriageRow] /\ v4 \in TriageList
        /\ v5 \subseteq TriageCalls /\ v6 \in TriageHistory /\ c \in TriageCalls
        /\ \A r \in v5 : r.kind # "load" => r.find \in Finds
        /\ \A r \in v5 : r.kind = "load" => r.find = None
    BY <1>1 DEF TriageTypes
  <1>3. v5' = v5 \ {c}
    BY DEF Triage!Decided, Triage!NotDecided, Triage!Loaded, Triage!Done
  <1>4. /\ v5' \subseteq TriageCalls
        /\ \A r \in v5' : r.kind # "load" => r.find \in Finds
        /\ \A r \in v5' : r.kind = "load" => r.find = None
        /\ \A r \in v5' : r.kind = "draft" => r \in v5
        /\ \A f \in Finds : DraftOf(f) \in v5' => DraftOf(f) \in v5
    BY <1>2, <1>3
  <1>5. c.verb \in TriageDecided /\ c.prior \in TriageDecided
    BY <1>2 DEF TriageCalls
  <1>6. ASSUME v1' = [v1 EXCEPT ![c.find].decision = IF v1[c.find].here THEN c.verb ELSE @],
               c.find \in Finds
        PROVE  /\ v1' \in [Finds -> TriageFind]
               /\ \A g \in Finds : v1'[g].here = v1[g].here
               /\ \A g \in Finds : g # c.find => v1'[g] = v1[g]
               /\ v1[c.find].here => v1'[c.find].decision = c.verb
    <2> DEFINE find == [v1[c.find] EXCEPT !.decision = IF v1[c.find].here THEN c.verb ELSE @]
    <2>1. /\ find \in TriageFind /\ find.here = v1[c.find].here
          /\ v1[c.find].here => find.decision = c.verb
      BY <1>2, <1>5, <1>6 DEF TriageFind
    <2>2. v1' = [v1 EXCEPT ![c.find] = find]
      BY <1>6
    <2> HIDE DEF find
    <2> QED BY <1>2, <1>6, <2>1, <2>2
  <1>7. CASE Triage!Decided(c)
    <2>1. /\ c.kind \in {"apply", "undo", "bulk"} /\ v1[c.find].here /\ UNCHANGED <<v2, v3, v6>>
          /\ v1' = [v1 EXCEPT ![c.find].decision = IF v1[c.find].here THEN c.verb ELSE @]
          /\ v4' = IF c.kind = "apply" THEN [v4 EXCEPT !.busy = Triage!NotBusy(c.find)] ELSE v4
      BY <1>7 DEF Triage!Decided, Triage!DecideFind
    <2>2. c.find \in Finds
      BY <1>2, <2>1
    <2>3. Triage!NotBusy(c.find) \in Finds \cup {None}
      BY <1>2 DEF Triage!NotBusy, TriageList
    <2>4. /\ v4' \in TriageList /\ v4'.mounted = v4.mounted /\ v4'.bulk = v4.bulk
          /\ v4'.override = v4.override /\ v4'.verb = v4.verb /\ v4'.told = v4.told
      BY <1>2, <2>1, <2>3 DEF TriageList
    <2>5. /\ v1' \in [Finds -> TriageFind]
          /\ \A g \in Finds : v1'[g].here = v1[g].here
          /\ \A g \in Finds : g # c.find => v1'[g] = v1[g]
          /\ v1'[c.find].decision = c.verb
      BY <1>6, <2>1, <2>2
    <2>6. TriageTells'
      BY <1>1, <1>3, <2>1, <2>2, <2>4, <2>5 DEF TriageTells, Decides
    <2> QED BY <1>2, <1>4, <2>1, <2>4, <2>5, <2>6, TriageKeptBy
  <1>8. CASE Triage!NotDecided(c)
    <2>1. /\ c.kind \in {"apply", "undo", "bulk"} /\ UNCHANGED <<v2, v3>>
          /\ v4' = Triage!Shown(c)
          /\ v6' = IF c.kind = "undo" THEN [v6 EXCEPT !.excused = @ \cup {c.find}] ELSE v6
          /\ \/ v1' = v1
             \/ v1' = [v1 EXCEPT ![c.find].decision = IF v1[c.find].here THEN c.verb ELSE @]
      BY <1>8 DEF Triage!NotDecided, Triage!DecideFind
    <2>2. c.find \in Finds
      BY <1>2, <2>1
    <2>3. /\ v1' \in [Finds -> TriageFind]
          /\ \A g \in Finds : v1'[g].here = v1[g].here
          /\ \A g \in Finds : g # c.find => v1'[g] = v1[g]
      BY <1>2, <1>6, <2>1, <2>2
    <2>4. /\ v6' \in TriageHistory /\ v6'.made = v6.made /\ v6'.drafts = v6.drafts
          /\ v6.excused \subseteq v6'.excused
          /\ c.kind = "undo" => c.find \in v6'.excused
      BY <1>2, <2>1, <2>2 DEF TriageHistory
    <2>5. Triage!NotBusy(c.find) \in Finds \cup {None}
      BY <1>2 DEF Triage!NotBusy, TriageList
    <2>6. /\ v4' \in TriageList /\ v4'.mounted = v4.mounted /\ v4'.bulk = v4.bulk
          /\ v4'.verb = v4.verb /\ v4.told \subseteq v4'.told
          /\ \A g \in Finds : g # c.find => v4'.override[g] = v4.override[g]
          /\ ~v4.mounted => v4' = v4
          /\ v4.mounted /\ c.kind # "undo" => c.find \in v4'.told
      <3>1. CASE ~v4.mounted
        <4>1. v4' = v4
          BY <2>1, <3>1 DEF Triage!Shown
        <4> QED BY <1>2, <3>1, <4>1
      <3>2. CASE v4.mounted /\ c.kind = "apply"
        <4>1. v4' = [v4 EXCEPT !.told = @ \cup {c.find}, !.override[c.find] = c.prior,
                       !.toast = IF @ = c.find THEN None ELSE @, !.busy = Triage!NotBusy(c.find)]
          BY <2>1, <3>2 DEF Triage!Shown, Triage!TakenBack
        <4> HIDE DEF TriageDecided
        <4> QED BY <1>2, <1>5, <2>2, <2>5, <3>2, <4>1 DEF TriageList
      <3>3. CASE v4.mounted /\ c.kind = "bulk"
        <4>1. v4' = [v4 EXCEPT !.told = @ \cup {c.find}]
          BY <2>1, <3>3 DEF Triage!Shown
        <4> QED BY <1>2, <2>2, <3>3, <4>1 DEF TriageList
      <3>4. CASE v4.mounted /\ c.kind = "undo"
        <4>1. v4' = v4
          BY <2>1, <3>4 DEF Triage!Shown
        <4> QED BY <1>2, <3>4, <4>1 DEF TriageList
      <3> QED BY <2>1, <3>1, <3>2, <3>3, <3>4
    <2>7. TriageTells'
      <3>1. ~v4.mounted => \A f \in Finds : v4.override[f] = "stored"
        BY <1>1 DEF TriageTells
      <3>2. c.find \notin v6'.excused => /\ \A r \in v5' : r.find # c.find
                                         /\ c.find \notin v4'.bulk
        BY <1>1, <1>3, <2>2, <2>4, <2>6 DEF TriageTells
      <3>3. c.find \notin v6'.excused => c.find \in v4'.told \/ v4'.override[c.find] = "stored"
        BY <2>1, <2>2, <2>4, <2>6, <3>1
      <3>4. ~v4'.mounted => \A f \in Finds : v4'.override[f] = "stored"
        BY <2>6, <3>1
      <3>5. ASSUME NEW f \in Finds \ v6'.excused
            PROVE  /\ \A q, r \in v5' : q.find = f /\ r.find = f => q = r
                   /\ f \in v4'.bulk => \A r \in v5' : r.find # f
                   /\ \A r \in v5' : r.find = f /\ Decides(r) /\ v4'.override[f] # "stored" =>
                        v4'.override[f] = r.verb
                   /\ f \in v4'.bulk /\ v4'.override[f] # "stored" => v4'.override[f] = v4'.verb
                   /\ v1'[f].here /\ v4'.override[f] # "stored" =>
                        \/ v4'.override[f] = v1'[f].decision \/ f \in v4'.told \/ f \in v4'.bulk
                        \/ \E r \in v5' : r.find = f /\ r.kind \in {"apply", "undo", "bulk", "pursue"}
        <4>1. CASE f = c.find
          BY <3>2, <3>3, <3>5, <4>1
        <4>2. CASE f # c.find
          BY <1>1, <1>3, <2>3, <2>4, <2>6, <3>5, <4>2 DEF TriageTells
        <4> QED BY <4>1, <4>2
      <3> QED BY <3>4, <3>5 DEF TriageTells, Decides
    <2> QED BY <1>2, <1>4, <2>1, <2>3, <2>4, <2>6, <2>7, TriageKeptBy
  <1>9. CASE Triage!Loaded(c)
    <2>1. /\ c.kind = "load" /\ UNCHANGED <<v1, v2, v4, v6>>
          /\ v3' = [f \in Finds |->
               [here |-> v1[f].here, decision |-> v1[f].decision, tracked |-> f \in v2]]
      BY <1>9 DEF Triage!Loaded
    <2>2. v3' \in [Finds -> TriageRow]
      BY <1>2, <2>1 DEF TriageFind, TriageRow
    <2>3. \A f \in Finds : c.find # f
      BY <1>2, <2>1, ClientAssumption
    <2>4. TriageTells'
      BY <1>1, <1>3, <2>1, <2>3 DEF TriageTells, Decides
    <2> QED BY <1>2, <1>4, <2>1, <2>2, <2>4, TriageKeptBy
  <1> QED BY <1>7, <1>8, <1>9

\* The answers by which a job is made, and its draft launched.
LEMMA TriageJobs ==
  ASSUME TriageInv, NEW c \in v5, Triage!Pursued(c) \/ Triage!NotPursued(c) \/ Triage!Draft(c)
  PROVE  TriageInv'
  <1>1. TriageTypes /\ TriageTells /\ TriagePursued
    BY DEF TriageInv
  <1>2. /\ v1 \in [Finds -> TriageFind] /\ v3 \in [Finds -> TriageRow] /\ v4 \in TriageList
        /\ v5 \subseteq TriageCalls /\ v6 \in TriageHistory /\ c \in TriageCalls
        /\ (\A r \in v5 : r.kind # "load" => r.find \in Finds) /\ v2 \subseteq Finds
        /\ \A r \in v5 : r.kind = "load" => r.find = None
    BY <1>1 DEF TriageTypes
  <1>3. c.kind \in {"pursue", "draft"} /\ c.find \in Finds
    BY <1>2 DEF Triage!Pursued, Triage!NotPursued, Triage!Draft
  <1> DEFINE b == c.find
  <1>4. UNCHANGED <<v1, v3>>
    BY DEF Triage!Pursued, Triage!NotPursued, Triage!Draft
  <1>5. \A f \in Finds : DraftOf(f).kind = "draft" /\ DraftOf(f).find = f
    BY DEF DraftOf
  <1>6. \A f \in Finds : v6.made[f] \in Nat /\ v6.drafts[f] \in Nat
    BY <1>2 DEF TriageHistory
  <1>7. ASSUME v2' = v2 \cup {b}, v6' = [v6 EXCEPT !.made[b] = @ + 1], b \notin v2
        PROVE  /\ v6' \in TriageHistory /\ v6'.drafts = v6.drafts /\ v6'.excused = v6.excused
               /\ \A f \in Finds : v6'.made[f] = IF f \in v2' THEN 1 ELSE 0
               /\ \A f \in Finds : v6'.made[f] >= v6.made[f]
               /\ v6'.made[b] = 1 /\ v6.drafts[b] = 0 /\ DraftOf(b) \notin v5
    <2>1. /\ v6' \in TriageHistory /\ v6'.drafts = v6.drafts /\ v6'.excused = v6.excused
          /\ v6'.made = [v6.made EXCEPT ![b] = @ + 1]
      BY <1>2, <1>3, <1>7 DEF TriageHistory
    <2>2. v6.made \in [Finds -> Nat] /\ v6.made[b] = 0
      BY <1>1, <1>2, <1>3, <1>7 DEF TriageHistory, TriagePursued
    <2>3. v6.drafts[b] = 0 /\ DraftOf(b) \notin v5
      <3>1. v6.drafts[b] + (IF DraftOf(b) \in v5 THEN 1 ELSE 0) <= 0
        BY <1>1, <1>3, <2>2 DEF TriagePursued
      <3> QED BY <1>3, <1>6, <3>1
    <2>4. \A f \in Finds : v6'.made[f] = IF f \in v2' THEN 1 ELSE 0
      BY <1>1, <1>3, <1>7, <2>1, <2>2 DEF TriagePursued
    <2>5. \A f \in Finds : v6'.made[f] >= v6.made[f]
      BY <1>3, <2>1, <2>2
    <2> HIDE DEF b
    <2> QED BY <1>3, <2>1, <2>3, <2>4, <2>5, <1>7 DEF b
  <1>8. CASE Triage!Pursued(c)
    <2> DEFINE load == [kind |-> "load", find |-> None, verb |-> "none", prior |-> "none"]
    <2>1. /\ c.kind = "pursue" /\ b \notin v2 /\ v2' = v2 \cup {b}
          /\ v6' = [v6 EXCEPT !.made[b] = @ + 1]
      BY <1>8 DEF Triage!Pursued, Triage!CreateJob
    <2>2. /\ v5' = (v5 \ {c}) \cup {load, DraftOf(b)}
          /\ v4' = [override |-> [f \in Finds |-> "stored"], told |-> {}, toast |-> None,
                    prior |-> "none", busy |-> None, bulk |-> v4.bulk, verb |-> v4.verb,
                    mounted |-> FALSE]
      <3>1. v5' = (v5 \ {c}) \cup {Triage!Load, Triage!DraftOf(c.find)}
        BY <1>8 DEF Triage!Pursued
      <3>2. Triage!Load = load /\ Triage!DraftOf(c.find) = DraftOf(b)
        BY DEF Triage!Load, Triage!DraftOf, DraftOf, Triage!Undecided
      <3>4. v4' = [Triage!Fresh EXCEPT !.mounted = FALSE, !.bulk = v4.bulk, !.verb = v4.verb]
        BY <1>8 DEF Triage!Pursued
      <3>5. v4' = [override |-> [f \in Finds |-> "stored"], told |-> {}, toast |-> None,
                   prior |-> "none", busy |-> None, bulk |-> v4.bulk, verb |-> v4.verb,
                   mounted |-> FALSE]
        BY <3>4 DEF Triage!Fresh, Triage!NoOverride, Triage!Undecided
      <3> QED BY <3>1, <3>2, <3>5
    <2>3. /\ v6' \in TriageHistory /\ v6'.drafts = v6.drafts /\ v6'.excused = v6.excused
          /\ \A f \in Finds : v6'.made[f] = IF f \in v2' THEN 1 ELSE 0
          /\ \A f \in Finds : v6'.made[f] >= v6.made[f]
          /\ v6'.made[b] = 1 /\ v6.drafts[b] = 0 /\ DraftOf(b) \notin v5
      BY <1>7, <2>1
    <2>4. /\ v4' \in TriageList /\ (\A f \in Finds : v4'.override[f] = "stored")
          /\ v4'.bulk = v4.bulk /\ v4'.verb = v4.verb
      BY <1>2, <2>2 DEF TriageList, TriageDecided
    <2>5. /\ load \in TriageCalls /\ load.kind = "load" /\ load.find = None
          /\ DraftOf(b) \in TriageCalls
      BY <1>3 DEF TriageCalls, TriageDecided, DraftOf
    <2> HIDE DEF load
    <2>6. \A r \in v5' : (r \in v5 /\ r # c) \/ r = load \/ r = DraftOf(b)
      BY <2>2
    <2>7. TriageTypes'
      BY <1>2, <1>3, <1>4, <1>5, <2>1, <2>2, <2>3, <2>4, <2>5, <2>6 DEF TriageTypes
    <2>8. TriagePursued'
      <3>1. \A r \in v5' : r.kind = "draft" => r = DraftOf(r.find)
        BY <1>1, <1>3, <1>5, <2>5, <2>6 DEF TriagePursued
      <3>2. \A f \in Finds : f # b /\ DraftOf(f) \in v5' => DraftOf(f) \in v5
        BY <1>3, <1>5, <2>5, <2>6
      <3>3. \A f \in Finds : v6'.made[f] \in Nat
        BY <2>3 DEF TriageHistory
      <3>4. \A f \in Finds : v6'.drafts[f] + (IF DraftOf(f) \in v5' THEN 1 ELSE 0) <= v6'.made[f]
        <4>1. ASSUME NEW f \in Finds
              PROVE  v6'.drafts[f] + (IF DraftOf(f) \in v5' THEN 1 ELSE 0) <= v6'.made[f]
          <5>1. CASE f = b
            BY <2>3, <5>1
          <5>2. CASE f # b
            <6>1. v6.drafts[f] + (IF DraftOf(f) \in v5 THEN 1 ELSE 0) <= v6.made[f]
              BY <1>1 DEF TriagePursued
            <6>2. v6'.drafts[f] = v6.drafts[f] /\ v6'.made[f] >= v6.made[f]
              BY <2>3
            <6> QED BY <1>6, <3>2, <3>3, <5>2, <6>1, <6>2
          <5> QED BY <5>1, <5>2
        <4> QED BY <4>1
      <3> QED BY <2>3, <3>1, <3>4 DEF TriagePursued
    <2>9. TriageTells'
      <3>1. ASSUME NEW f \in Finds \ v6.excused
            PROVE  /\ \A q, r \in v5' : q.find = f /\ r.find = f => q = r
                   /\ f \in v4.bulk => \A r \in v5' : r.find # f
        <4>1. /\ \A q, r \in v5 : q.find = f /\ r.find = f => q = r
              /\ f \in v4.bulk => \A r \in v5 : r.find # f
          BY <1>1, <3>1 DEF TriageTells
        <4>2. load.find # f /\ DraftOf(b).find = b
          BY <1>3, <1>5, <2>5, <3>1, ClientAssumption
        <4> QED BY <2>6, <4>1, <4>2
      <3> QED BY <2>3, <2>4, <3>1 DEF TriageTells, Decides
    <2> QED BY <2>7, <2>8, <2>9 DEF TriageInv
  <1>9. CASE Triage!NotPursued(c)
    <2>1. /\ c.kind = "pursue" /\ v5' = v5 \ {c}
          /\ \/ v2' = v2 /\ v6' = v6
             \/ b \notin v2 /\ v2' = v2 \cup {b} /\ v6' = [v6 EXCEPT !.made[b] = @ + 1]
          /\ v4' = IF ~v4.mounted THEN v4
                   ELSE [v4 EXCEPT !.told = @ \cup {c.find}, !.busy = Triage!NotBusy(c.find)]
      BY <1>9 DEF Triage!NotPursued, Triage!CreateJob, Triage!Done
    <2>2. Triage!NotBusy(c.find) \in Finds \cup {None}
      BY <1>2 DEF Triage!NotBusy, TriageList
    <2>3. /\ v4' \in TriageList /\ v4'.mounted = v4.mounted /\ v4'.bulk = v4.bulk
          /\ v4'.override = v4.override /\ v4'.verb = v4.verb /\ v4.told \subseteq v4'.told
          /\ v4.mounted => b \in v4'.told
      BY <1>2, <1>3, <2>1, <2>2 DEF TriageList
    <2>4. /\ v6' \in TriageHistory /\ v6'.drafts = v6.drafts /\ v6'.excused = v6.excused
          /\ \A f \in Finds : v6'.made[f] = IF f \in v2' THEN 1 ELSE 0
          /\ (\A f \in Finds : v6'.made[f] >= v6.made[f]) /\ v2' \subseteq Finds
      <3>1. CASE v2' = v2 /\ v6' = v6
        BY <1>1, <1>2, <1>6, <3>1 DEF TriagePursued
      <3>2. CASE b \notin v2 /\ v2' = v2 \cup {b} /\ v6' = [v6 EXCEPT !.made[b] = @ + 1]
        BY <1>2, <1>3, <1>7, <3>2
      <3> QED BY <2>1, <3>1, <3>2
    <2>5. TriageTypes'
      BY <1>2, <1>4, <2>1, <2>3, <2>4 DEF TriageTypes
    <2>6. TriagePursued'
      <3>1. \A f \in Finds : v6'.made[f] \in Nat
        BY <2>4 DEF TriageHistory
      <3>2. ASSUME NEW f \in Finds
            PROVE  v6'.drafts[f] + (IF DraftOf(f) \in v5' THEN 1 ELSE 0) <= v6'.made[f]
        <4>1. v6.drafts[f] + (IF DraftOf(f) \in v5 THEN 1 ELSE 0) <= v6.made[f]
          BY <1>1 DEF TriagePursued
        <4>2. /\ v6'.drafts[f] = v6.drafts[f] /\ v6'.made[f] >= v6.made[f]
              /\ DraftOf(f) \in v5' => DraftOf(f) \in v5
          BY <2>1, <2>4
        <4> QED BY <1>6, <3>1, <4>1, <4>2
      <3> QED BY <1>1, <2>1, <2>4, <3>2 DEF TriagePursued
    <2>7. TriageTells'
      <3>1. ~v4.mounted => \A f \in Finds : v4.override[f] = "stored"
        BY <1>1 DEF TriageTells
      <3>2. b \in v4'.told \/ v4'.override[b] = "stored"
        BY <1>3, <2>3, <3>1
      <3>3. ASSUME NEW f \in Finds \ v6.excused
            PROVE  /\ \A q, r \in v5' : q.find = f /\ r.find = f => q = r
                   /\ f \in v4'.bulk => \A r \in v5' : r.find # f
                   /\ \A r \in v5' : r.find = f /\ Decides(r) /\ v4'.override[f] # "stored" =>
                        v4'.override[f] = r.verb
                   /\ f \in v4'.bulk /\ v4'.override[f] # "stored" => v4'.override[f] = v4'.verb
                   /\ v1[f].here /\ v4'.override[f] # "stored" =>
                        \/ v4'.override[f] = v1[f].decision \/ f \in v4'.told \/ f \in v4'.bulk
                        \/ \E r \in v5' : r.find = f /\ r.kind \in {"apply", "undo", "bulk", "pursue"}
        <4>1. CASE f = b
          BY <1>1, <2>1, <2>3, <3>2, <3>3, <4>1 DEF TriageTells
        <4>2. CASE f # b
          BY <1>1, <2>1, <2>3, <3>3, <4>2 DEF TriageTells
        <4> QED BY <4>1, <4>2
      <3> QED BY <1>4, <2>3, <2>4, <3>1, <3>3 DEF TriageTells, Decides
    <2> QED BY <2>5, <2>6, <2>7 DEF TriageInv
  <1>10. CASE Triage!Draft(c)
    <2>1. /\ c.kind = "draft" /\ v5' = v5 \ {c} /\ UNCHANGED <<v2, v4>>
          /\ v6' = [v6 EXCEPT !.drafts[b] = @ + 1]
      BY <1>10 DEF Triage!Draft, Triage!Done
    <2>2. c = DraftOf(b)
      BY <1>1, <2>1 DEF TriagePursued
    <2>3. /\ v6' \in TriageHistory /\ v6'.made = v6.made /\ v6'.excused = v6.excused
          /\ v6'.drafts = [v6.drafts EXCEPT ![b] = @ + 1]
      BY <1>2, <1>3, <2>1 DEF TriageHistory
    <2>4. TriageTypes'
      BY <1>2, <1>4, <2>1, <2>3 DEF TriageTypes
    <2>5. TriagePursued'
      <3>1. ASSUME NEW f \in Finds
            PROVE  v6'.drafts[f] + (IF DraftOf(f) \in v5' THEN 1 ELSE 0) <= v6.made[f]
        <4>1. v6.drafts[f] + (IF DraftOf(f) \in v5 THEN 1 ELSE 0) <= v6.made[f]
          BY <1>1 DEF TriagePursued
        <4>2. v6.drafts \in [Finds -> Nat]
          BY <1>2 DEF TriageHistory
        <4>3. CASE f = b
          <5>1. DraftOf(f) \in v5 /\ DraftOf(f) \notin v5' /\ v6'.drafts[f] = v6.drafts[f] + 1
            BY <1>3, <2>1, <2>2, <2>3, <4>2, <4>3
          <5> QED BY <1>6, <4>1, <5>1
        <4>4. CASE f # b
          <5>1. v6'.drafts[f] = v6.drafts[f] /\ (DraftOf(f) \in v5' => DraftOf(f) \in v5)
            BY <2>1, <2>3, <4>2, <4>4
          <5> QED BY <1>6, <4>1, <5>1
        <4> QED BY <4>3, <4>4
      <3> QED BY <1>1, <2>1, <2>3, <3>1 DEF TriagePursued
    <2>6. TriageTells'
      BY <1>1, <1>4, <2>1, <2>3 DEF TriageTells, Decides
    <2> QED BY <2>4, <2>5, <2>6 DEF TriageInv
  <1> QED BY <1>8, <1>9, <1>10

\* A step of the inbox keeps the invariant.
LEMMA TriageStep ==
  ASSUME TriageInv, Triage!TriageNext
  PROVE  TriageInv'
  <1>1. ASSUME NEW chosen \in SUBSET {f \in Finds : Triage!Listed(f)},
               Triage!BulkDecide(chosen, "skip")
        PROVE  TriageInv'
    <2>1. chosen \in SUBSET Finds
      OBVIOUS
    <2> QED BY <1>1, <2>1, TriageScreen
  <1> QED BY <1>1, TriageFinds, TriageClicks, TriageScreen, TriageAnswers, TriageJobs
      DEF Triage!TriageNext

-----------------------------------------------------------------------------
(***************************************************************************)
(* Decisions.                                                              *)
(***************************************************************************)

LEMMA DeskStart ==
  ASSUME Desk!DeskInit
  PROVE  DeskInv
  <1>1. PICK label \in BOOLEAN :
          v1 = [t \in Tasks |-> [label |-> label, mark |-> TRUE, tag |-> FALSE,
                                 status |-> "todo", deferred |-> 0,
                                 log |-> [op \in DeskOps |-> 0]]]
    BY DEF Desk!DeskInit, Desk!Ops, DeskOps
  <1>2. /\ v2 = [b \in Tabs |-> [open |-> TRUE, tasks |-> v1, hidden |-> {}, toast |-> None,
                                 pending |-> [t \in Tasks |-> None]]]
        /\ v3 = {} /\ v4 = 1 /\ v5 = [op \in DeskOps |-> "none"]
        /\ v6 = [ops |-> 0, edits |-> 0, loads |-> 0, fails |-> 0]
    BY DEF Desk!DeskInit, Desk!Ops, DeskOps
  <1>3. v1 \in DeskBoard /\ \A t \in Tasks : v1[t].log = [op \in DeskOps |-> 0]
    BY <1>1 DEF DeskBoard, DeskTask, DeskStatus
  <1>4. v2 \in [Tabs -> DeskTab]
    BY <1>2, <1>3 DEF DeskTab
  <1>5. v6 \in DeskUsed /\ v6.ops = 0
    BY <1>2 DEF DeskUsed
  <1>6. DeskTypes
    <2>1. MaxResolves \in Nat
      BY ClientAssumption
    <2>2. v5 \in [DeskOps -> {"none", "made", "undone"}]
      BY <1>2
    <2>3. v6.ops <= MaxResolves /\ v4 \in Nat
      BY <1>2, <1>5, <2>1
    <2>4. v3 \subseteq DeskGets \cup DeskWrites \cup DeskDefers \cup DeskAnswers
      BY <1>2
    <2> QED BY <1>3, <1>4, <1>5, <2>2, <2>3, <2>4 DEF DeskTypes
  <1>7. DeskUnwritten /\ DeskApart
    BY <1>2 DEF DeskUnwritten, DeskApart, WaitsIn
  <1>8. DeskLogs
    BY <1>2, <1>3 DEF DeskLogs
  <1> QED BY <1>6, <1>7, <1>8 DEF DeskInv

\* A step of no resolve: it writes none, makes none, and sends none.
LEMMA DeskQuiet ==
  ASSUME DeskInv, DeskTypes', v5' = v5, v6'.ops = v6.ops,
         \A t \in Tasks : v1'[t].log = v1[t].log,
         \A b \in Tabs : (v2'[b].open => v2[b].open) /\ v2'[b].pending = v2[b].pending,
         \A m \in v3' : Carries(m) => m \in v3
  PROVE  DeskInv'
  <1>1. DeskTypes /\ DeskUnwritten /\ DeskApart /\ DeskLogs
    BY DEF DeskInv
  <1>2. \A op : Unwritten(op) => Unwritten(op)'
    BY DEF Unwritten
  <1>3. \A b \in Tabs, t \in Tasks : WaitsIn(b, t)' => WaitsIn(b, t)
    BY DEF WaitsIn
  <1>4. DeskUnwritten'
    <2>1. \A b \in Tabs, t \in Tasks : WaitsIn(b, t)' => Unwritten(v2[b].pending[t].op)'
      BY <1>1, <1>2, <1>3 DEF DeskUnwritten
    <2>2. \A m \in v3' : Carries(m) => Unwritten(m.entry.op)'
      BY <1>1, <1>2 DEF DeskUnwritten
    <2> QED BY <2>1, <2>2 DEF DeskUnwritten, Carries
  <1>5. DeskApart'
    BY SMTT(30), <1>1, <1>3 DEF DeskApart, Carries
  <1>6. DeskLogs'
    BY <1>1 DEF DeskLogs
  <1> QED BY <1>4, <1>5, <1>6 DEF DeskInv

LEMMA DeskStays ==
  ASSUME DeskInv, UNCHANGED <<v1, v2, v3, v4, v5, v6>>
  PROVE  DeskInv'
  <1>1. DeskTypes'
    BY DEF DeskInv, DeskTypes
  <1> QED BY <1>1, DeskQuiet DEF DeskInv

\* What the run checks of the decisions.
LEMMA DeskHolds ==
  ASSUME DeskInv
  PROVE  Desk!ResolvedOnce
  BY DEF DeskInv, DeskLogs, Desk!ResolvedOnce, Desk!Ops, DeskOps

\* The broadcast: every open tab asks for the board.
LEMMA DeskAnnounced ==
  ASSUME DeskTypes, NEW ws, Desk!Announced(ws),
         ws \subseteq DeskGets \cup DeskWrites \cup DeskDefers \cup DeskAnswers
  PROVE  /\ v3' \subseteq DeskGets \cup DeskWrites \cup DeskDefers \cup DeskAnswers
         /\ \A m \in v3' : Carries(m) => m \in ws
  <1>1. v3' = ws \cup UNION {Desk!Reload(b, v6.loads + 1) : b \in {c \in Tabs : v2[c].open}}
    BY DEF Desk!Announced
  <1>2. v6.loads + 1 \in Nat
    BY DEF DeskTypes, DeskUsed
  <1>3. \A b \in Tabs : \A m \in Desk!Reload(b, v6.loads + 1) : m \in DeskGets /\ ~Carries(m)
    BY <1>2 DEF Desk!Reload, DeskGets, Carries
  <1>4. \A m \in v3' : m \in ws \/ (m \in DeskGets /\ ~Carries(m))
    BY <1>1, <1>3
  <1> QED BY <1>4

\* The calls that carry no resolve, and the tabs that only look.
LEMMA DeskLooks ==
  ASSUME DeskInv,
         \/ \E b \in Tabs, t \in Tasks : Desk!Defer(b, t)
         \/ \E m \in v3 : Desk!PatchFails(m) \/ Desk!ServeGet(m) \/ Desk!Arrives(m)
         \/ \E t \in Tasks : Desk!Relabel(t)
         \/ Desk!NextDay
  PROVE  DeskInv'
  <1>1. DeskTypes
    BY DEF DeskInv
  <1>2. /\ v1 \in DeskBoard /\ v2 \in [Tabs -> DeskTab]
        /\ v3 \subseteq DeskGets \cup DeskWrites \cup DeskDefers \cup DeskAnswers
        /\ v4 \in Nat /\ v6 \in DeskUsed /\ v6.ops <= MaxResolves
        /\ v5 \in [DeskOps -> {"none", "made", "undone"}]
    BY <1>1 DEF DeskTypes
  <1>3. ASSUME NEW b \in Tabs, NEW t \in Tasks, Desk!Defer(b, t) PROVE DeskInv'
    <2> DEFINE m == [kind |-> "defer", tab |-> b, task |-> t, on |-> v4]
    <2>1. v3' = v3 \cup {m} /\ UNCHANGED <<v1, v2, v4, v5>>
          /\ v6' = [v6 EXCEPT !.edits = @ + 1]
      BY <1>3 DEF Desk!Defer
    <2>2. m \in DeskDefers /\ ~Carries(m)
      BY <1>2 DEF DeskDefers, Carries
    <2> HIDE DEF m
    <2>3. v6' \in DeskUsed /\ v6'.ops = v6.ops
      BY <1>2, <2>1 DEF DeskUsed
    <2>4. DeskTypes'
      BY <1>2, <2>1, <2>2, <2>3 DEF DeskTypes
    <2>5. \A n \in v3' : Carries(n) => n \in v3
      BY <2>1, <2>2
    <2> QED BY <2>1, <2>3, <2>4, <2>5, DeskQuiet
  <1>4. ASSUME NEW m \in v3, Desk!PatchFails(m) PROVE DeskInv'
    <2>1. /\ Carries(m) /\ v3' = v3 \ {m} /\ UNCHANGED <<v1, v4, v5>>
          /\ v6' = [v6 EXCEPT !.fails = @ + 1]
          /\ v2' = IF m.kind = "patch" THEN [v2 EXCEPT ![m.tab].hidden = @ \ {m.entry.task}] ELSE v2
      BY <1>4 DEF Desk!PatchFails, Carries
    <2>2. m \in DeskWrites
      BY <1>2, <2>1 DEF DeskGets, DeskDefers, DeskAnswers, Carries
    <2>3. m.tab \in Tabs
      BY <2>2 DEF DeskWrites
    <2>4. /\ v2' \in [Tabs -> DeskTab]
          /\ \A b \in Tabs : v2'[b].open = v2[b].open /\ v2'[b].pending = v2[b].pending
      <3> DEFINE view == [v2[m.tab] EXCEPT !.hidden = @ \ {m.entry.task}]
      <3>1. v2[m.tab] \in DeskTab
        BY <1>2, <2>3
      <3>2. view \in DeskTab /\ view.open = v2[m.tab].open /\ view.pending = v2[m.tab].pending
        BY <3>1 DEF DeskTab
      <3>3. v2' = v2 \/ v2' = [v2 EXCEPT ![m.tab] = view]
        BY <2>1
      <3> HIDE DEF view
      <3> QED BY <1>2, <2>3, <3>2, <3>3
    <2>5. v6' \in DeskUsed /\ v6'.ops = v6.ops
      BY <1>2, <2>1 DEF DeskUsed
    <2>6. DeskTypes'
      BY <1>2, <2>1, <2>4, <2>5 DEF DeskTypes
    <2> QED BY <2>1, <2>4, <2>5, <2>6, DeskQuiet
  <1>5. ASSUME NEW m \in v3, Desk!ServeGet(m) PROVE DeskInv'
    <2> DEFINE n == [kind |-> "tasks", tab |-> m.tab, tasks |-> v1]
    <2>1. m.kind = "get" /\ v3' = (v3 \ {m}) \cup {n} /\ UNCHANGED <<v1, v2, v4, v5, v6>>
      BY <1>5 DEF Desk!ServeGet
    <2>2. m.tab \in Tabs
      BY <1>2 DEF DeskGets, DeskWrites, DeskDefers, DeskAnswers
    <2>3. n \in DeskAnswers /\ ~Carries(n)
      BY <1>2, <2>2 DEF DeskAnswers, Carries
    <2> HIDE DEF n
    <2>4. DeskTypes'
      BY <1>2, <2>1, <2>3 DEF DeskTypes
    <2>5. \A q \in v3' : Carries(q) => q \in v3
      BY <2>1, <2>3
    <2> QED BY <2>1, <2>4, <2>5, DeskQuiet
  <1>6. ASSUME NEW m \in v3, Desk!Arrives(m) PROVE DeskInv'
    <2>1. /\ m.kind = "tasks" /\ v3' = v3 \ {m} /\ UNCHANGED <<v1, v4, v5, v6>>
          /\ v2' = IF v2[m.tab].open
                   THEN [v2 EXCEPT ![m.tab] = Desk!Loaded(v2[m.tab], m.tasks)] ELSE v2
      BY <1>6 DEF Desk!Arrives
    <2>2. m \in DeskAnswers
      BY <1>2, <2>1 DEF DeskGets, DeskDefers, DeskWrites
    <2>3. m.tab \in Tabs /\ m.tasks \in DeskBoard
      BY <2>2 DEF DeskAnswers
    <2>4. /\ v2' \in [Tabs -> DeskTab]
          /\ \A b \in Tabs : v2'[b].open = v2[b].open /\ v2'[b].pending = v2[b].pending
      <3> DEFINE view == Desk!Loaded(v2[m.tab], m.tasks)
      <3>1. v2[m.tab] \in DeskTab
        BY <1>2, <2>3
      <3>2. view \in DeskTab /\ view.open = v2[m.tab].open /\ view.pending = v2[m.tab].pending
        BY <2>3, <3>1 DEF DeskTab, Desk!Loaded
      <3>3. v2' = v2 \/ v2' = [v2 EXCEPT ![m.tab] = view]
        BY <2>1
      <3> HIDE DEF view
      <3> QED BY <1>2, <2>3, <3>2, <3>3
    <2>5. DeskTypes'
      BY <1>2, <2>1, <2>4 DEF DeskTypes
    <2> QED BY <2>1, <2>4, <2>5, DeskQuiet
  <1>7. ASSUME NEW t \in Tasks, Desk!Relabel(t) PROVE DeskInv'
    <2>1. /\ v1' = [v1 EXCEPT ![t].tag = ~@] /\ UNCHANGED <<v2, v4, v5>>
          /\ v6' = [v6 EXCEPT !.edits = v6.edits + 1, !.loads = v6.loads + 1]
          /\ Desk!Announced(v3)
      BY <1>7 DEF Desk!Relabel
    <2>2. v1' \in DeskBoard /\ \A u \in Tasks : v1'[u].log = v1[u].log
      BY ZenonT(60), <1>2, <2>1 DEF DeskBoard, DeskTask
    <2>3. v6' \in DeskUsed /\ v6'.ops = v6.ops
      <3>1. v6.ops \in Nat /\ v6.edits + 1 \in Nat /\ v6.loads + 1 \in Nat /\ v6.fails \in Nat
        BY <1>2 DEF DeskUsed
      <3>2. v6' = [ops |-> v6.ops, edits |-> v6.edits + 1, loads |-> v6.loads + 1, fails |-> v6.fails]
        BY <1>2, <2>1 DEF DeskUsed
      <3> QED BY <3>1, <3>2 DEF DeskUsed
    <2>4. /\ v3' \subseteq DeskGets \cup DeskWrites \cup DeskDefers \cup DeskAnswers
          /\ \A m \in v3' : Carries(m) => m \in v3
      BY <1>1, <1>2, <2>1, DeskAnnounced
    <2>5. DeskTypes'
      BY <1>2, <2>1, <2>2, <2>3, <2>4 DEF DeskTypes
    <2> QED BY <2>1, <2>2, <2>3, <2>4, <2>5, DeskQuiet
  <1>8. CASE Desk!NextDay
    <2>1. UNCHANGED <<v1, v2, v3, v5, v6>> /\ v4' = v4 + 1
      BY <1>8 DEF Desk!NextDay
    <2>2. DeskTypes'
      BY <1>2, <2>1 DEF DeskTypes
    <2> QED BY <2>1, <2>2, DeskQuiet
  <1> QED BY <1>3, <1>4, <1>5, <1>6, <1>7, <1>8

\* A resolve is made: its number is new.
LEMMA DeskResolve ==
  ASSUME DeskInv, NEW b \in Tabs, NEW t \in Tasks, Desk!Resolve(b, t)
  PROVE  DeskInv'
  <1>1. DeskTypes /\ DeskUnwritten /\ DeskApart /\ DeskLogs
    BY DEF DeskInv
  <1>2. /\ v1 \in DeskBoard /\ v2 \in [Tabs -> DeskTab]
        /\ v3 \subseteq DeskGets \cup DeskWrites \cup DeskDefers \cup DeskAnswers
        /\ v4 \in Nat /\ v6 \in DeskUsed /\ v6.ops <= MaxResolves
        /\ v5 \in [DeskOps -> {"none", "made", "undone"}]
    BY <1>1 DEF DeskTypes
  <1>3. MaxResolves \in Nat
    BY ClientAssumption
  <1> DEFINE op == v6.ops + 1
  <1>4. PICK status \in DeskStatus :
          v2' = [v2 EXCEPT ![b].hidden = @ \cup {t}, ![b].toast = t,
                           ![b].pending[t] = Desk!BuildResolveWrite(b, t, op, status)]
    BY DEF Desk!Resolve, DeskStatus
  <1> DEFINE e == Desk!BuildResolveWrite(b, t, op, status)
             view == [v2[b] EXCEPT !.hidden = @ \cup {t}, !.toast = t, !.pending[t] = e]
  <1>5. /\ v6.ops < MaxResolves /\ v2[b].open /\ v2[b].pending[t] = None
        /\ v5' = [v5 EXCEPT ![op] = "made"] /\ v6' = [v6 EXCEPT !.ops = @ + 1]
        /\ UNCHANGED <<v1, v3, v4>>
    BY DEF Desk!Resolve
  <1>6. v6.ops \in Nat
    BY <1>2 DEF DeskUsed
  <1>7. v6' \in DeskUsed /\ v6'.ops = op /\ op \in DeskOps /\ op <= MaxResolves
    BY <1>2, <1>3, <1>5, <1>6 DEF DeskUsed, DeskOps
  <1>8. v2[b] \in DeskTab
    BY <1>2
  <1>9. e \in DeskEntry /\ e.op = op
    <2>1. v2[b].tasks[t].tag \in BOOLEAN
      BY <1>8 DEF DeskTab, DeskBoard, DeskTask
    <2> QED BY <1>7, <2>1 DEF DeskEntry, Desk!BuildResolveWrite
  <1> HIDE DEF e, op
  <1>10. /\ view \in DeskTab /\ view.open = v2[b].open /\ view.pending[t] = e
         /\ \A u \in Tasks : u # t => view.pending[u] = v2[b].pending[u]
    BY <1>8, <1>9 DEF DeskTab
  <1>11. v2' = [v2 EXCEPT ![b] = view]
    BY <1>4 DEF e, op
  <1> HIDE DEF view
  <1>12. /\ v2' \in [Tabs -> DeskTab]
         /\ v2'[b].open = v2[b].open /\ v2'[b].pending[t] = e
         /\ \A u \in Tasks : u # t => v2'[b].pending[u] = v2[b].pending[u]
         /\ \A c \in Tabs : c # b => v2'[c] = v2[c]
    BY <1>2, <1>10, <1>11
  <1>13. \A c \in Tabs, u \in Tasks : WaitsIn(c, u)' =>
           \/ c = b /\ u = t
           \/ WaitsIn(c, u) /\ (c # b \/ u # t) /\ v2'[c].pending[u] = v2[c].pending[u]
    BY <1>12 DEF WaitsIn
  <1>14. /\ v5' \in [DeskOps -> {"none", "made", "undone"}] /\ v5'[op] = "made"
         /\ \A o \in DeskOps : o # op => v5'[o] = v5[o]
    BY <1>2, <1>5, <1>7
  <1>15. \A u \in Tasks : v1[u].log \in [DeskOps -> Nat]
    BY <1>2 DEF DeskBoard, DeskTask
  <1>16. op > v6.ops /\ \A o : Unwritten(o) => o <= v6.ops
    BY <1>6 DEF Unwritten, op
  <1>17. \A u \in Tasks : v1[u].log[op] = 0
    BY <1>1, <1>7, <1>15, <1>16 DEF DeskLogs
  <1> DEFINE Later(o) == o <= v6'.ops /\ v5'[o] = "made" /\ \A u \in Tasks : v1'[u].log[o] = 0
  <1>18. Later(op)
    <2>1. op <= v6'.ops
      BY <1>6, <1>7 DEF op
    <2> QED BY <1>5, <1>14, <1>17, <2>1
  <1>19. \A o \in DeskOps : Unwritten(o) => o # op /\ Later(o)
    BY <1>3, <1>5, <1>6, <1>7, <1>14 DEF Unwritten, DeskOps, op
  <1> HIDE DEF Later
  <1>20. /\ \A c \in Tabs, u \in Tasks : WaitsIn(c, u) => v2[c].pending[u].op \in DeskOps
         /\ \A m \in v3 : Carries(m) => m.entry.op \in DeskOps
    <2>1. \A m \in v3 : Carries(m) => m \in DeskWrites
      BY <1>2 DEF DeskGets, DeskDefers, DeskAnswers, Carries
    <2>2. \A c \in Tabs, u \in Tasks : WaitsIn(c, u) => v2[c].pending[u] \in DeskEntry
      BY <1>2 DEF DeskTab, WaitsIn
    <2> QED BY <2>1, <2>2 DEF DeskWrites, DeskEntry
  <1>21. DeskTypes'
    BY <1>2, <1>5, <1>7, <1>12, <1>14 DEF DeskTypes
  <1>22. DeskUnwritten'
    <2>1. ASSUME NEW c \in Tabs, NEW u \in Tasks, WaitsIn(c, u)'
          PROVE  Later(v2'[c].pending[u].op)
      <3>1. CASE c = b /\ u = t
        BY <1>9, <1>12, <1>18, <3>1
      <3>2. CASE ~(c = b /\ u = t)
        <4>1. WaitsIn(c, u) /\ v2'[c].pending[u] = v2[c].pending[u]
          BY <1>13, <2>1, <3>2
        <4> QED BY <1>1, <1>19, <1>20, <4>1 DEF DeskUnwritten
      <3> QED BY <3>1, <3>2
    <2>2. \A m \in v3' : Carries(m) => Later(m.entry.op)
      BY <1>1, <1>5, <1>19, <1>20 DEF DeskUnwritten
    <2> QED BY <2>1, <2>2 DEF DeskUnwritten, Unwritten, Carries, Later
  <1>23. DeskApart'
    <2>1. /\ \A c \in Tabs, u \in Tasks : WaitsIn(c, u) => v2[c].pending[u].op # op
          /\ \A m \in v3 : Carries(m) => m.entry.op # op
      BY <1>1, <1>19, <1>20 DEF DeskUnwritten
    <2>2. ASSUME NEW c \in Tabs, NEW d \in Tabs, NEW u \in Tasks, NEW w \in Tasks,
                 WaitsIn(c, u)', WaitsIn(d, w)', v2'[c].pending[u].op = v2'[d].pending[w].op
          PROVE  c = d /\ u = w
      BY SMTT(30), <1>1, <1>9, <1>12, <1>13, <2>1, <2>2 DEF DeskApart
    <2>3. ASSUME NEW c \in Tabs, NEW u \in Tasks, NEW m \in v3, WaitsIn(c, u)', Carries(m)
          PROVE  m.entry.op # v2'[c].pending[u].op
      BY <1>1, <1>9, <1>12, <1>13, <2>1, <2>3 DEF DeskApart
    <2>4. \A m, n \in v3 : Carries(m) /\ Carries(n) /\ m.entry.op = n.entry.op => m = n
      BY <1>1 DEF DeskApart
    <2> QED BY <1>5, <2>2, <2>3, <2>4 DEF DeskApart, Carries
  <1>24. DeskLogs'
    <2>1. \A o \in DeskOps : o > op => o # op /\ v5[o] = "none"
      BY <1>1, <1>3, <1>6 DEF DeskLogs, DeskOps, op
    <2>2. ASSUME NEW o \in DeskOps
          PROVE  /\ o > op => v5'[o] = "none"
                 /\ \A u \in Tasks : v1[u].log[o] <= IF v5'[o] = "made" THEN 1 ELSE 0
      BY <1>1, <1>14, <1>15, <1>17, <2>1 DEF DeskLogs
    <2> QED BY <1>5, <1>7, <2>2 DEF DeskLogs
  <1> QED BY <1>21, <1>22, <1>23, <1>24 DEF DeskInv

\* It is undone while it waits: it is in no other place.
LEMMA DeskUndo ==
  ASSUME DeskInv, NEW b \in Tabs, Desk!UndoResolve(b)
  PROVE  DeskInv'
  <1>1. DeskTypes /\ DeskUnwritten /\ DeskApart /\ DeskLogs
    BY DEF DeskInv
  <1>2. /\ v1 \in DeskBoard /\ v2 \in [Tabs -> DeskTab]
        /\ v5 \in [DeskOps -> {"none", "made", "undone"}]
        /\ v6 \in DeskUsed /\ v6.ops <= MaxResolves
    BY <1>1 DEF DeskTypes
  <1> DEFINE t == v2[b].toast
             view == [v2[b] EXCEPT !.pending[t] = None, !.hidden = @ \ {t}, !.toast = None]
  <1>3. /\ v2[b].open /\ t # None /\ UNCHANGED <<v1, v3, v4, v6>>
        /\ v5' = IF v2[b].pending[t] = None THEN v5
                 ELSE [v5 EXCEPT ![v2[b].pending[t].op] = "undone"]
        /\ v2' = [v2 EXCEPT ![b].pending[t] = None, ![b].hidden = @ \ {t}, ![b].toast = None]
    BY DEF Desk!UndoResolve
  <1>4. v2[b] \in DeskTab
    BY <1>2
  <1>5. t \in Tasks
    BY <1>3, <1>4 DEF DeskTab
  <1>6. v2[b].pending[t] # None => v2[b].pending[t] \in DeskEntry /\ WaitsIn(b, t)
    BY <1>3, <1>4, <1>5 DEF DeskTab, WaitsIn
  <1>7. v2' = [v2 EXCEPT ![b] = view]
    BY <1>3
  <1> HIDE DEF t
  <1>8. /\ view \in DeskTab /\ view.open = v2[b].open /\ view.pending[t] = None
        /\ \A u \in Tasks : u # t => view.pending[u] = v2[b].pending[u]
    BY <1>4, <1>5 DEF DeskTab
  <1> HIDE DEF view
  <1>9. /\ v2' \in [Tabs -> DeskTab] /\ v2'[b].pending[t] = None
        /\ \A c \in Tabs : v2'[c].open = v2[c].open
        /\ \A c \in Tabs, u \in Tasks : c # b \/ u # t => v2'[c].pending[u] = v2[c].pending[u]
    BY <1>2, <1>7, <1>8
  <1>10. \A c \in Tabs, u \in Tasks : WaitsIn(c, u)' =>
           WaitsIn(c, u) /\ (c # b \/ u # t) /\ v2'[c].pending[u] = v2[c].pending[u]
    BY <1>9 DEF WaitsIn
  <1>11. \A u \in Tasks : v1[u].log \in [DeskOps -> Nat]
    BY SMTT(30), <1>2 DEF DeskBoard, DeskTask
  <1>14. DeskApart'
    <2>1. ASSUME NEW c \in Tabs, NEW d \in Tabs, NEW u \in Tasks, NEW w \in Tasks,
                 WaitsIn(c, u)', WaitsIn(d, w)', v2'[c].pending[u].op = v2'[d].pending[w].op
          PROVE  c = d /\ u = w
      <3>1. /\ WaitsIn(c, u) /\ v2'[c].pending[u] = v2[c].pending[u]
            /\ WaitsIn(d, w) /\ v2'[d].pending[w] = v2[d].pending[w]
        BY <1>10, <2>1
      <3>2. v2[c].pending[u].op = v2[d].pending[w].op
        BY <2>1, <3>1
      <3> QED BY <1>1, <3>1, <3>2 DEF DeskApart
    <2>2. ASSUME NEW c \in Tabs, NEW u \in Tasks, NEW m \in v3, WaitsIn(c, u)', Carries(m)
          PROVE  m.entry.op # v2'[c].pending[u].op
      BY <1>1, <1>10, <2>2 DEF DeskApart
    <2>3. \A m, n \in v3 : Carries(m) /\ Carries(n) /\ m.entry.op = n.entry.op => m = n
      BY <1>1 DEF DeskApart
    <2> QED BY ZenonT(60), <1>3, <2>1, <2>2, <2>3 DEF DeskApart, Carries
  <1> DEFINE Later(o) == o <= v6'.ops /\ v5'[o] = "made" /\ \A u \in Tasks : v1'[u].log[o] = 0
  <1>12. ASSUME v5' = v5 PROVE DeskInv'
    <2>1. DeskTypes'
      BY <1>1, <1>3, <1>9, <1>12 DEF DeskTypes
    <2>2. DeskUnwritten'
      <3>1. \A o : Unwritten(o) => Later(o)
        BY <1>3, <1>12 DEF Unwritten
      <3> HIDE DEF Later
      <3>2. ASSUME NEW c \in Tabs, NEW u \in Tasks, WaitsIn(c, u)'
            PROVE  Later(v2'[c].pending[u].op)
        <4>1. WaitsIn(c, u) /\ v2'[c].pending[u] = v2[c].pending[u]
          BY <1>10, <3>2
        <4> QED BY <1>1, <3>1, <4>1 DEF DeskUnwritten
      <3>3. \A m \in v3' : Carries(m) => Later(m.entry.op)
        BY <1>1, <1>3, <3>1 DEF DeskUnwritten
      <3> QED BY <3>2, <3>3 DEF DeskUnwritten, Unwritten, Carries, Later
    <2>4. DeskLogs'
      BY <1>1, <1>3, <1>12 DEF DeskLogs
    <2> QED BY <1>14, <2>1, <2>2, <2>4 DEF DeskInv
  <1>13. CASE v2[b].pending[t] # None
    <2> DEFINE op == v2[b].pending[t].op
    <2>1. op \in DeskOps /\ Unwritten(op) /\ v5' = [v5 EXCEPT ![op] = "undone"]
      BY <1>1, <1>3, <1>5, <1>6, <1>13 DEF DeskEntry, DeskUnwritten
    <2>2. /\ \A c \in Tabs, u \in Tasks : WaitsIn(c, u)' => v2'[c].pending[u].op # op
          /\ \A m \in v3 : Carries(m) => m.entry.op # op
      BY <1>1, <1>5, <1>6, <1>10, <1>13 DEF DeskApart
    <2> HIDE DEF op
    <2>3. /\ v5' \in [DeskOps -> {"none", "made", "undone"}] /\ v5'[op] = "undone"
          /\ \A o : o # op => v5'[o] = v5[o]
      BY <1>2, <2>1
    <2>4. DeskTypes'
      BY <1>1, <1>3, <1>9, <2>3 DEF DeskTypes
    <2>5. \A o : Unwritten(o) /\ o # op => Later(o)
      BY <1>3, <2>3 DEF Unwritten
    <2> HIDE DEF Later
    <2>6. DeskUnwritten'
      <3>1. ASSUME NEW c \in Tabs, NEW u \in Tasks, WaitsIn(c, u)'
            PROVE  Later(v2'[c].pending[u].op)
        <4>1. WaitsIn(c, u) /\ v2'[c].pending[u] = v2[c].pending[u]
          BY <1>10, <3>1
        <4> QED BY <1>1, <2>2, <2>5, <3>1, <4>1 DEF DeskUnwritten
      <3>2. \A m \in v3' : Carries(m) => Later(m.entry.op)
        BY <1>1, <1>3, <2>2, <2>5 DEF DeskUnwritten
      <3> QED BY <3>1, <3>2 DEF DeskUnwritten, Unwritten, Carries, Later
    <2>8. DeskLogs'
      <3>1. ASSUME NEW o \in DeskOps
            PROVE  /\ o > v6.ops => v5'[o] = "none"
                   /\ \A u \in Tasks : v1[u].log[o] <= IF v5'[o] = "made" THEN 1 ELSE 0
        <4>1. CASE o = op
          <5>1. o <= v6.ops /\ (\A u \in Tasks : v1[u].log[o] = 0) /\ v5'[o] = "undone"
            BY <2>1, <2>3, <4>1 DEF Unwritten
          <5>2. ~(o > v6.ops)
            BY <1>2, <5>1, ClientAssumption DEF DeskOps, DeskUsed
          <5> QED BY <5>1, <5>2
        <4>2. CASE o # op
          BY <1>1, <2>3, <4>2 DEF DeskLogs
        <4> QED BY <4>1, <4>2
      <3> QED BY <1>3, <3>1 DEF DeskLogs
    <2> QED BY <1>14, <2>4, <2>6, <2>8 DEF DeskInv
  <1> QED BY <1>3, <1>12, <1>13

\* Entries leave the tab as calls: the parts of the invariant, from where they go.
LEMMA DeskMoves ==
  ASSUME DeskInv, DeskTypes', UNCHANGED <<v1, v5, v6>>,
         \A b \in Tabs, t \in Tasks :
           WaitsIn(b, t)' => WaitsIn(b, t) /\ v2'[b].pending[t] = v2[b].pending[t],
         \A m \in v3' : Carries(m) =>
           \/ m \in v3
           \/ \E b \in Tabs, t \in Tasks :
                WaitsIn(b, t) /\ ~WaitsIn(b, t)' /\ m.entry = v2[b].pending[t],
         \A m, n \in v3' :
           Carries(m) /\ Carries(n) /\ m \notin v3 /\ n \notin v3 /\ m.entry = n.entry => m = n
  PROVE  DeskInv'
  <1>1. DeskTypes /\ DeskUnwritten /\ DeskApart /\ DeskLogs
    BY DEF DeskInv
  <1> DEFINE Later(o) == o <= v6'.ops /\ v5'[o] = "made" /\ \A u \in Tasks : v1'[u].log[o] = 0
             Old(m) == m \in v3
             From(m, b, t) == WaitsIn(b, t) /\ ~WaitsIn(b, t)' /\ m.entry = v2[b].pending[t]
  <1>2. \A o : Unwritten(o) => Later(o)
    BY DEF Unwritten
  <1> HIDE DEF Later
  <1>3. DeskUnwritten'
    <2>1. ASSUME NEW b \in Tabs, NEW t \in Tasks, WaitsIn(b, t)'
          PROVE  Later(v2'[b].pending[t].op)
      <3>1. WaitsIn(b, t) /\ v2'[b].pending[t] = v2[b].pending[t]
        BY <2>1
      <3> QED BY <1>1, <1>2, <3>1 DEF DeskUnwritten
    <2>2. ASSUME NEW m \in v3', Carries(m)
          PROVE  Later(m.entry.op)
      <3>1. CASE Old(m)
        BY <1>1, <1>2, <2>2, <3>1 DEF DeskUnwritten
      <3>2. CASE ~Old(m)
        <4>1. PICK b \in Tabs, t \in Tasks : From(m, b, t)
          BY <2>2, <3>2
        <4> QED BY <1>1, <1>2, <4>1 DEF DeskUnwritten
      <3> QED BY <3>1, <3>2
    <2> QED BY <2>1, <2>2 DEF DeskUnwritten, Unwritten, Carries, Later
  <1>4. DeskApart'
    <2>1. ASSUME NEW c \in Tabs, NEW d \in Tabs, NEW u \in Tasks, NEW w \in Tasks,
                 WaitsIn(c, u)', WaitsIn(d, w)', v2'[c].pending[u].op = v2'[d].pending[w].op
          PROVE  c = d /\ u = w
      <3>1. /\ WaitsIn(c, u) /\ v2'[c].pending[u] = v2[c].pending[u]
            /\ WaitsIn(d, w) /\ v2'[d].pending[w] = v2[d].pending[w]
        BY <2>1
      <3>2. v2[c].pending[u].op = v2[d].pending[w].op
        BY <2>1, <3>1
      <3> QED BY <1>1, <3>1, <3>2 DEF DeskApart
    <2>2. ASSUME NEW c \in Tabs, NEW u \in Tasks, NEW m \in v3', WaitsIn(c, u)', Carries(m)
          PROVE  m.entry.op # v2'[c].pending[u].op
      <3>1. WaitsIn(c, u) /\ v2'[c].pending[u] = v2[c].pending[u]
        BY <2>2
      <3>2. CASE Old(m)
        BY <1>1, <2>2, <3>1, <3>2 DEF DeskApart
      <3>3. CASE ~Old(m)
        <4>1. PICK b \in Tabs, t \in Tasks : From(m, b, t)
          BY <2>2, <3>3
        <4>2. b # c \/ t # u
          BY <2>2, <4>1
        <4> QED BY <1>1, <3>1, <4>1, <4>2 DEF DeskApart
      <3> QED BY <3>2, <3>3
    <2>3. ASSUME NEW m \in v3', NEW n \in v3', Carries(m), Carries(n), m.entry.op = n.entry.op
          PROVE  m = n
      <3>1. CASE Old(m) /\ Old(n)
        BY <1>1, <2>3, <3>1 DEF DeskApart
      <3>2. CASE Old(m) /\ ~Old(n)
        <4>1. PICK b \in Tabs, t \in Tasks : From(n, b, t)
          BY <2>3, <3>2
        <4> QED BY <1>1, <2>3, <3>2, <4>1 DEF DeskApart
      <3>3. CASE ~Old(m) /\ Old(n)
        <4>1. PICK b \in Tabs, t \in Tasks : From(m, b, t)
          BY <2>3, <3>3
        <4> QED BY <1>1, <2>3, <3>3, <4>1 DEF DeskApart
      <3>4. CASE ~Old(m) /\ ~Old(n)
        <4>1. PICK b \in Tabs, t \in Tasks : From(m, b, t)
          BY <2>3, <3>4
        <4>2. PICK c \in Tabs, u \in Tasks : From(n, c, u)
          BY <2>3, <3>4
        <4>3. b = c /\ t = u
          <5>1. v2[b].pending[t].op = v2[c].pending[u].op
            BY <2>3, <4>1, <4>2
          <5> QED BY <1>1, <4>1, <4>2, <5>1 DEF DeskApart
        <4>4. m.entry = n.entry
          BY <4>1, <4>2, <4>3
        <4> QED BY <2>3, <3>4, <4>4
      <3> QED BY <3>1, <3>2, <3>3, <3>4
    <2> QED BY <2>1, <2>2, <2>3 DEF DeskApart, Carries
  <1>5. DeskLogs'
    BY <1>1 DEF DeskLogs
  <1> QED BY <1>3, <1>4, <1>5 DEF DeskInv

\* The Undo window of an entry is over.
LEMMA DeskFlush ==
  ASSUME DeskInv, NEW b \in Tabs, NEW t \in Tasks, Desk!Flush(b, t)
  PROVE  DeskInv'
  <1>1. DeskTypes
    BY DEF DeskInv
  <1>2. /\ v2 \in [Tabs -> DeskTab]
        /\ v3 \subseteq DeskGets \cup DeskWrites \cup DeskDefers \cup DeskAnswers
    BY <1>1 DEF DeskTypes
  <1> DEFINE e == v2[b].pending[t]
             m == [kind |-> "patch", tab |-> e.tab, entry |-> e]
             view == [v2[b] EXCEPT !.pending[t] = None, !.toast = IF @ = t THEN None ELSE @]
  <1>3. /\ v2[b].open /\ e # None /\ UNCHANGED <<v1, v4, v5, v6>>
        /\ v2' = [v2 EXCEPT ![b].pending[t] = None, ![b].toast = IF @ = t THEN None ELSE @]
        /\ v3' = v3 \cup {m}
    BY DEF Desk!Flush, Desk!Patch
  <1>4. v2[b] \in DeskTab
    BY <1>2
  <1>5. e \in DeskEntry /\ WaitsIn(b, t)
    BY <1>3, <1>4 DEF DeskTab, WaitsIn
  <1>6. v2' = [v2 EXCEPT ![b] = view]
    BY <1>3
  <1>7. m \in DeskWrites /\ m.entry = e
    BY <1>5 DEF DeskWrites, DeskEntry
  <1> HIDE DEF e, m
  <1>8. /\ view \in DeskTab /\ view.open = v2[b].open /\ view.pending[t] = None
        /\ \A u \in Tasks : u # t => view.pending[u] = v2[b].pending[u]
    BY <1>4 DEF DeskTab
  <1> HIDE DEF view
  <1>9. /\ v2' \in [Tabs -> DeskTab] /\ v2'[b].pending[t] = None
        /\ \A c \in Tabs : v2'[c].open = v2[c].open
        /\ \A c \in Tabs, u \in Tasks : c # b \/ u # t => v2'[c].pending[u] = v2[c].pending[u]
    BY <1>2, <1>6, <1>8
  <1>10. DeskTypes'
    BY <1>1, <1>3, <1>7, <1>9 DEF DeskTypes
  <1>11. \A c \in Tabs, u \in Tasks :
           WaitsIn(c, u)' => WaitsIn(c, u) /\ v2'[c].pending[u] = v2[c].pending[u]
    BY <1>9 DEF WaitsIn
  <1>12. ~WaitsIn(b, t)' /\ m.entry = v2[b].pending[t]
    BY <1>7, <1>9 DEF WaitsIn, e
  <1>13. \A n \in v3' : n \in v3 \/ n = m
    BY <1>3
  <1>14. \A n \in v3' : Carries(n) =>
           \/ n \in v3
           \/ \E c \in Tabs, u \in Tasks :
                WaitsIn(c, u) /\ ~WaitsIn(c, u)' /\ n.entry = v2[c].pending[u]
    BY <1>5, <1>12, <1>13
  <1> QED BY <1>3, <1>10, <1>11, <1>13, <1>14, DeskMoves

\* The page is left: what is pending goes out with it, and its tab is closed.
LEMMA DeskUnload ==
  ASSUME DeskInv, UnloadSurvived = FALSE, NEW b \in Tabs, Desk!BeforeUnload(b)
  PROVE  DeskInv'
  <1>1. DeskTypes
    BY DEF DeskInv
  <1>2. /\ v2 \in [Tabs -> DeskTab]
        /\ v3 \subseteq DeskGets \cup DeskWrites \cup DeskDefers \cup DeskAnswers
    BY <1>1 DEF DeskTypes
  <1> DEFINE m(t) == [kind |-> "keepalive", tab |-> b, entry |-> v2[b].pending[t]]
  <1>3. /\ v2[b].open /\ UNCHANGED <<v1, v4, v5, v6>>
        /\ v2' = [v2 EXCEPT ![b].open = FALSE]
        /\ v3' = v3 \cup {m(t) : t \in {u \in Tasks : v2[b].pending[u] # None}}
    BY DEF Desk!BeforeUnload
  <1>4. \A t \in Tasks : v2[b].pending[t] # None => v2[b].pending[t] \in DeskEntry /\ WaitsIn(b, t)
    BY <1>2, <1>3 DEF DeskTab, WaitsIn
  <1>5. \A t \in Tasks : v2[b].pending[t] # None => m(t) \in DeskWrites
    BY <1>4 DEF DeskWrites
  <1>6. \A t : m(t).entry = v2[b].pending[t]
    OBVIOUS
  <1>7. \A n \in v3' : n \in v3 \/ \E t \in Tasks : v2[b].pending[t] # None /\ n = m(t)
    BY <1>3
  <1>8. \A t, u : v2[b].pending[t] = v2[b].pending[u] => m(t) = m(u)
    OBVIOUS
  <1> HIDE DEF m
  <1>9. /\ v2' \in [Tabs -> DeskTab] /\ ~v2'[b].open
        /\ \A c \in Tabs : c # b => v2'[c] = v2[c]
    <2>1. [v2[b] EXCEPT !.open = FALSE] \in DeskTab /\ [v2[b] EXCEPT !.open = FALSE].open = FALSE
      BY <1>2 DEF DeskTab
    <2> QED BY <1>2, <1>3, <2>1
  <1>10. DeskTypes'
    <2>1. v3' \subseteq DeskGets \cup DeskWrites \cup DeskDefers \cup DeskAnswers
      BY <1>2, <1>5, <1>7
    <2> QED BY <1>1, <1>3, <1>9, <2>1 DEF DeskTypes
  <1>11. /\ \A c \in Tabs, u \in Tasks :
             WaitsIn(c, u)' => WaitsIn(c, u) /\ v2'[c].pending[u] = v2[c].pending[u]
         /\ \A u \in Tasks : ~WaitsIn(b, u)'
    BY <1>9 DEF WaitsIn
  <1>12. \A n \in v3' : Carries(n) =>
           \/ n \in v3
           \/ \E c \in Tabs, u \in Tasks :
                WaitsIn(c, u) /\ ~WaitsIn(c, u)' /\ n.entry = v2[c].pending[u]
    BY <1>4, <1>6, <1>7, <1>11
  <1>13. \A q, n \in v3' :
           Carries(q) /\ Carries(n) /\ q \notin v3 /\ n \notin v3 /\ q.entry = n.entry => q = n
    BY <1>6, <1>7, <1>8
  <1> QED BY <1>3, <1>10, <1>11, <1>12, <1>13, DeskMoves

\* A write is served: the log of its task holds it, and nothing else does.
LEMMA DeskServes ==
  ASSUME DeskInv, NEW m \in v3, Desk!ServePatch(m)
  PROVE  DeskInv'
  <1>1. DeskTypes /\ DeskUnwritten /\ DeskApart /\ DeskLogs
    BY DEF DeskInv
  <1>2. /\ v1 \in DeskBoard /\ v2 \in [Tabs -> DeskTab]
        /\ v3 \subseteq DeskGets \cup DeskWrites \cup DeskDefers \cup DeskAnswers
        /\ v6 \in DeskUsed /\ v6.ops <= MaxResolves
    BY <1>1 DEF DeskTypes
  <1>3. /\ m.kind \in {"patch", "keepalive", "defer"} /\ UNCHANGED <<v2, v4, v5>>
        /\ IF m.kind = "defer" THEN v1' = [v1 EXCEPT ![m.task].deferred = m.on]
           ELSE Desk!ApplyResolve(m.entry)
        /\ Desk!Announced(v3 \ {m}) /\ v6' = [v6 EXCEPT !.loads = @ + 1]
    BY DEF Desk!ServePatch
  <1>4. /\ v3' \subseteq DeskGets \cup DeskWrites \cup DeskDefers \cup DeskAnswers
        /\ \A n \in v3' : Carries(n) => n \in v3 /\ n # m
    <2>1. v3 \ {m} \subseteq DeskGets \cup DeskWrites \cup DeskDefers \cup DeskAnswers
      BY <1>2
    <2> QED BY <1>1, <1>3, <2>1, DeskAnnounced
  <1>5. v6' \in DeskUsed /\ v6'.ops = v6.ops
    BY <1>2, <1>3 DEF DeskUsed
  <1>6. CASE m.kind = "defer"
    <2>1. m \in DeskDefers
      BY <1>2, <1>6 DEF DeskGets, DeskWrites, DeskAnswers
    <2>2. m.task \in Tasks /\ m.on \in Nat
      BY <2>1 DEF DeskDefers
    <2>3. v1' = [v1 EXCEPT ![m.task].deferred = m.on]
      BY <1>3, <1>6
    <2>4. v1' \in DeskBoard /\ \A u \in Tasks : v1'[u].log = v1[u].log
      <3> DEFINE task == [v1[m.task] EXCEPT !.deferred = m.on]
      <3>1. v1[m.task] \in DeskTask
        BY <1>2, <2>2 DEF DeskBoard
      <3>2. task \in DeskTask /\ task.log = v1[m.task].log
        BY <2>2, <3>1 DEF DeskTask
      <3>3. v1' = [v1 EXCEPT ![m.task] = task]
        BY <2>3
      <3> HIDE DEF task
      <3> QED BY <1>2, <2>2, <3>2, <3>3 DEF DeskBoard
    <2>5. DeskTypes'
      BY <1>1, <1>3, <1>4, <1>5, <2>4 DEF DeskTypes
    <2> QED BY <1>3, <1>4, <1>5, <2>4, <2>5, DeskQuiet
  <1>7. CASE m.kind # "defer"
    <2>1. m \in DeskWrites /\ Carries(m)
      BY <1>2, <1>3, <1>7 DEF DeskGets, DeskDefers, DeskAnswers, Carries
    <2> DEFINE e == m.entry
               t == e.task
               op == e.op
               task == [v1[t] EXCEPT !.log[op] = @ + 1, !.label = FALSE, !.mark = FALSE,
                                     !.tag = e.tag, !.status = e.status]
    <2>2. /\ t \in Tasks /\ op \in DeskOps /\ e.tag \in BOOLEAN /\ e.status \in DeskStatus
      BY SMTT(30), <2>1 DEF DeskWrites, DeskEntry
    <2>3. v1' = [v1 EXCEPT ![t] = task]
      BY <1>3, <1>7 DEF Desk!ApplyResolve
    <2>4. Unwritten(op)
      BY <1>1, <2>1 DEF DeskUnwritten
    <2> HIDE DEF e, t, op
    <2>5. v1[t] \in DeskTask
      BY <1>2, <2>2 DEF DeskBoard
    <2>6. /\ task \in DeskTask /\ task.log[op] = v1[t].log[op] + 1
          /\ \A o \in DeskOps : o # op => task.log[o] = v1[t].log[o]
      <3>1. v1[t].log \in [DeskOps -> Nat]
        BY <2>5 DEF DeskTask
      <3>2. task.log = [v1[t].log EXCEPT ![op] = @ + 1]
        BY <2>5 DEF DeskTask
      <3>3. task.log \in [DeskOps -> Nat]
        BY <2>2, <3>1, <3>2
      <3>4. task \in DeskTask
        BY <2>2, <2>5, <3>3 DEF DeskTask
      <3> HIDE DEF task
      <3> QED BY <2>2, <3>1, <3>2, <3>4
    <2> HIDE DEF task
    <2>7. /\ v1' \in DeskBoard /\ v1'[t].log[op] = v1[t].log[op] + 1
          /\ \A u \in Tasks : u # t => v1'[u].log = v1[u].log
          /\ \A o \in DeskOps : o # op => v1'[t].log[o] = v1[t].log[o]
      BY <1>2, <2>2, <2>3, <2>6 DEF DeskBoard
    <2>8. /\ \A u \in Tasks : v1[u].log[op] = 0
          /\ v5[op] = "made" /\ op <= v6.ops
      BY <2>4 DEF Unwritten
    <2>9. \A u \in Tasks : v1'[u].log[op] <= 1
      BY <2>2, <2>7, <2>8
    <2>10. \A o \in DeskOps : o # op => \A u \in Tasks : v1'[u].log[o] = v1[u].log[o]
      BY <2>7
    <2>11. DeskTypes'
      BY <1>1, <1>3, <1>4, <1>5, <2>7 DEF DeskTypes
    <2>12. /\ \A c \in Tabs, u \in Tasks : WaitsIn(c, u) => v2[c].pending[u].op \in DeskOps \ {op}
           /\ \A n \in v3' : Carries(n) => n.entry.op \in DeskOps \ {op}
      <3>1. \A n \in v3' : Carries(n) => n \in DeskWrites
        BY <1>4 DEF DeskGets, DeskDefers, DeskAnswers, Carries
      <3>2. \A c \in Tabs, u \in Tasks : WaitsIn(c, u) => v2[c].pending[u] \in DeskEntry
        BY <1>2 DEF DeskTab, WaitsIn
      <3>3. \A c \in Tabs, u \in Tasks : WaitsIn(c, u) => v2[c].pending[u].op # op
        BY <1>1, <2>1 DEF DeskApart, op, e
      <3>4. \A n \in v3' : Carries(n) => n.entry.op # op
        BY <1>1, <1>4, <2>1 DEF DeskApart, op, e
      <3> QED BY <3>1, <3>2, <3>3, <3>4 DEF DeskWrites, DeskEntry
    <2> DEFINE Later(o) == o <= v6'.ops /\ v5'[o] = "made" /\ \A u \in Tasks : v1'[u].log[o] = 0
    <2>13. \A o \in DeskOps \ {op} : Unwritten(o) => Later(o)
      BY <1>3, <1>5, <2>10 DEF Unwritten
    <2> HIDE DEF Later
    <2>14. DeskUnwritten'
      <3>1. \A c \in Tabs, u \in Tasks : WaitsIn(c, u) => Later(v2[c].pending[u].op)
        BY <1>1, <2>12, <2>13 DEF DeskUnwritten
      <3>2. \A n \in v3' : Carries(n) => Later(n.entry.op)
        BY <1>1, <1>4, <2>12, <2>13 DEF DeskUnwritten
      <3> QED BY <1>3, <3>1, <3>2 DEF DeskUnwritten, Unwritten, Carries, Later, WaitsIn
    <2>15. DeskApart'
      <3>1. /\ \A b, c \in Tabs, u, w \in Tasks :
                 WaitsIn(b, u) /\ WaitsIn(c, w) /\ v2[b].pending[u].op = v2[c].pending[w].op =>
                   b = c /\ u = w
            /\ \A b \in Tabs, u \in Tasks, n \in v3' :
                 WaitsIn(b, u) /\ Carries(n) => n.entry.op # v2[b].pending[u].op
            /\ \A q, n \in v3' : Carries(q) /\ Carries(n) /\ q.entry.op = n.entry.op => q = n
        BY <1>1, <1>4 DEF DeskApart
      <3> QED BY <1>3, <3>1 DEF DeskApart, Carries, WaitsIn
    <2>16. DeskLogs'
      <3>1. ASSUME NEW o \in DeskOps
            PROVE  /\ o > v6.ops => v5[o] = "none"
                   /\ \A u \in Tasks : v1'[u].log[o] <= IF v5[o] = "made" THEN 1 ELSE 0
        <4>1. CASE o = op
          BY <1>1, <2>8, <2>9, <3>1, <4>1 DEF DeskLogs
        <4>2. CASE o # op
          BY <1>1, <2>10, <3>1, <4>2 DEF DeskLogs
        <4> QED BY <4>1, <4>2
      <3> QED BY <1>3, <1>5, <3>1 DEF DeskLogs
    <2> QED BY <2>11, <2>14, <2>15, <2>16 DEF DeskInv
  <1> QED BY <1>6, <1>7

\* A step of the tabs or of the server keeps the invariant, where a page closes.
LEMMA DeskStep ==
  ASSUME DeskInv, UnloadSurvived = FALSE, Desk!DeskNext
  PROVE  DeskInv'
  BY DeskLooks, DeskResolve, DeskUndo, DeskFlush, DeskUnload, DeskServes DEF Desk!DeskNext

-----------------------------------------------------------------------------
(***************************************************************************)
(* Recursion along a sequence.                                             *)
(***************************************************************************)
\* Numbers have a least one.
LEMMA LeastNumber ==
  ASSUME NEW B \in SUBSET Nat, B # {}
  PROVE  \E m \in B : \A n \in B : m <= n
  <1>1. PICK m \in B : \A y \in B : ~(<<y, m>> \in OpToRel(<, Nat))
    BY NatLessThanWellFounded, WFMin
  <1>2. ASSUME NEW n \in B PROVE m <= n
    <2>1. ~(n < m)
      BY <1>1 DEF OpToRel
    <2> QED BY <2>1
  <1> QED BY <1>2

\* What holds at first, and after a step if it did before, holds all along.
LEMMA KeptAlong ==
  ASSUME NEW N \in Nat, NEW X, NEW f,
         f[0] \in X[0], \A n \in 1 .. N : f[n - 1] \in X[n - 1] => f[n] \in X[n]
  PROVE  \A n \in 0 .. N : f[n] \in X[n]
  <1> DEFINE B == {n \in 0 .. N : f[n] \notin X[n]}
  <1>1. SUFFICES ASSUME B # {} PROVE FALSE
    OBVIOUS
  <1>2. PICK m \in B : \A n \in B : m <= n
    <2>1. B \in SUBSET Nat
      OBVIOUS
    <2> QED BY <1>1, <2>1, LeastNumber
  <1>3. m # 0 /\ m \in 1 .. N
    BY <1>2
  <1>4. m - 1 \in 0 .. N /\ m - 1 \notin B
    BY <1>2, <1>3
  <1> QED BY <1>2, <1>3, <1>4

\* The recursive function that takes a step at each number of 1 .. N.
Iterates(f, N, start, step) ==
  f = [n \in 0 .. N |-> IF n = 0 THEN start ELSE step[<<f[n - 1], n>>]]

\* Such a function exists, and every one has at n a value of X[n], if a step leads from
\* each of these sets to the next.
LEMMA Iterated ==
  ASSUME NEW N \in Nat, NEW X, NEW U, NEW start \in X[0], NEW step,
         \A n \in 0 .. N : X[n] \subseteq U,
         \A n \in 1 .. N : \A Q \in X[n - 1] : step[<<Q, n>>] \in X[n]
  PROVE  /\ \E f : Iterates(f, N, start, step)
         /\ \A f : Iterates(f, N, start, step) => \A n \in 0 .. N : f[n] \in X[n]
  <1> USE DEF Iterates
  <1> DEFINE Reached(m, f) == Iterates(f, m, start, step)
             B == {m \in 0 .. N : ~\E f : Reached(m, f)}
  <1>1. ASSUME B # {} PROVE FALSE
    <2>1. PICK m \in B : \A n \in B : m <= n
      <3>1. B \in SUBSET Nat
        OBVIOUS
      <3> HIDE DEF B
      <3> QED BY <1>1, <3>1, LeastNumber
    <2>2. m # 0
      <3>1. Reached(0, [n \in 0 .. 0 |-> start])
        OBVIOUS
      <3> QED BY <2>1, <3>1
    <2>3. m - 1 \in 0 .. N /\ m - 1 \notin B
      BY <2>1, <2>2
    <2>4. PICK f : Reached(m - 1, f)
      BY <2>3
    <2> DEFINE g == [n \in 0 .. m |-> IF n < m THEN f[n] ELSE step[<<f[m - 1], m>>]]
    <2>5. ASSUME NEW n \in 0 .. m
          PROVE  g[n] = IF n = 0 THEN start ELSE step[<<g[n - 1], n>>]
      <3>1. CASE n = m
        <4>1. g[n - 1] = f[m - 1] /\ n # 0
          BY <2>1, <2>2, <3>1
        <4> QED BY SMTT(30), <3>1, <4>1
      <3>2. CASE n # m
        <4>1. n \in 0 .. m - 1 /\ g[n] = f[n]
          BY <2>1, <3>2
        <4>2. f[n] = IF n = 0 THEN start ELSE step[<<f[n - 1], n>>]
          BY <2>4, <4>1
        <4>3. n # 0 => g[n - 1] = f[n - 1]
          BY <2>1, <4>1
        <4> QED BY <4>1, <4>2, <4>3
      <3> QED BY <3>1, <3>2
    <2>6. Reached(m, g)
      BY <2>5
    <2> QED BY <2>1, <2>6
  <1>2. ASSUME NEW f, Reached(N, f) PROVE \A n \in 0 .. N : f[n] \in X[n]
    <2>1. f[0] = start /\ \A n \in 1 .. N : f[n] = step[<<f[n - 1], n>>]
      BY <1>2
    <2> QED BY <2>1, KeptAlong
  <1>3. N \notin B
    BY <1>1
  <1> QED BY <1>2, <1>3

\* One element more.
LEMMA OneMore ==
  ASSUME NEW A, NEW s \in Seq(A), NEW e \in A
  PROVE  /\ Append(s, e) \in Seq(A) /\ Len(Append(s, e)) = Len(s) + 1
         /\ Elements(Append(s, e)) = Elements(s) \cup {e}
         /\ Distinct(s) /\ e \notin Elements(s) => Distinct(Append(s, e))
  <1>1. /\ Append(s, e) \in Seq(A) /\ Len(Append(s, e)) = Len(s) + 1
        /\ DOMAIN Append(s, e) = DOMAIN s \cup {Len(s) + 1}
        /\ Append(s, e)[Len(s) + 1] = e /\ \A j \in DOMAIN s : Append(s, e)[j] = s[j]
    BY AppendProperties
  <1> DEFINE t == Append(s, e)
  <1> HIDE DEF t
  <1>2. Elements(t) = Elements(s) \cup {e}
    BY <1>1 DEF Elements, t
  <1>3. ASSUME Distinct(s), e \notin Elements(s) PROVE Distinct(t)
    <2>1. \A j \in DOMAIN s : s[j] # e
      BY <1>3 DEF Elements
    <2>2. \A j \in DOMAIN t : j \in DOMAIN s \/ j = Len(s) + 1
      BY <1>1 DEF t
    <2>3. t[Len(s) + 1] = e /\ \A j \in DOMAIN s : t[j] = s[j]
      BY <1>1 DEF t
    <2> QED BY <1>3, <2>1, <2>2, <2>3 DEF Distinct
  <1> QED BY <1>1, <1>2, <1>3 DEF t

\* A part of a sequence, and what comes after it.
LEMMA TwoParts ==
  ASSUME NEW A, NEW s \in Seq(A), NEW k \in 0 .. Len(s)
  PROVE  LET p == SubSeq(s, 1, k)
             r == SubSeq(s, k + 1, Len(s))
         IN  /\ p \in Seq(A) /\ Len(p) = k /\ r \in Seq(A) /\ Len(r) = Len(s) - k
             /\ Elements(p) \cup Elements(r) = Elements(s)
             /\ \A i \in 1 .. k : p[i] = s[i]
             /\ Distinct(s) => /\ Distinct(p) /\ Distinct(r)
                                 /\ Elements(p) \cap Elements(r) = {}
  <1> DEFINE p == SubSeq(s, 1, k)
             r == SubSeq(s, k + 1, Len(s))
             n == Len(s)
  <1>1. n \in Nat /\ DOMAIN s = 1 .. n /\ k \in Nat /\ k <= n
    OBVIOUS
  <1>2. p \in Seq(A) /\ Len(p) = k /\ \A i \in 1 .. k : p[i] = s[i]
    <2>1. \A i \in 1 .. k : s[i] \in A
      BY <1>1
    <2> QED BY <1>1, <2>1, SubSeqProperties
  <1>3. r \in Seq(A) /\ Len(r) = n - k /\ \A i \in 1 .. n - k : r[i] = s[k + i]
    <2>1. \A i \in k + 1 .. n : s[i] \in A
      BY <1>1
    <2>2. r \in Seq(A) /\ Len(r) = IF k + 1 <= n THEN n - (k + 1) + 1 ELSE 0
      BY <1>1, <2>1, SubSeqProperties
    <2>3. \A i \in 1 .. n - (k + 1) + 1 : r[i] = s[k + 1 + i - 1]
      BY <1>1, <2>1, SubSeqProperties
    <2> HIDE DEF r, n
    <2>4. Len(r) = n - k
      <3>1. n \in Nat /\ k \in Nat /\ k <= n
        BY <1>1
      <3>2. CASE k + 1 <= n
        BY <2>2, <3>1, <3>2
      <3>3. CASE ~(k + 1 <= n)
        <4>1. k = n
          BY <3>1, <3>3
        <4> QED BY <2>2, <3>1, <3>3, <4>1
      <3> QED BY <3>2, <3>3
    <2>5. ASSUME NEW i \in 1 .. n - k PROVE r[i] = s[k + i]
      <3>1. i \in 1 .. n - (k + 1) + 1 /\ k + 1 + i - 1 = k + i
        BY <1>1
      <3>2. r[i] = s[k + 1 + i - 1]
        BY <2>3, <3>1
      <3> QED BY <3>1, <3>2
    <2> QED BY <2>2, <2>4, <2>5
  <1>4. DOMAIN p = 1 .. k /\ DOMAIN r = 1 .. n - k
    BY <1>2, <1>3
  <1> HIDE DEF p, r, n
  <1>5. Elements(p) = {s[i] : i \in 1 .. k}
    BY <1>2, <1>4 DEF Elements
  <1>6. Elements(r) = {s[i] : i \in k + 1 .. n}
    <2>1. \A x \in Elements(r) : x \in {s[i] : i \in k + 1 .. n}
      <3>1. ASSUME NEW i \in 1 .. n - k PROVE r[i] \in {s[j] : j \in k + 1 .. n}
        <4>1. k + i \in k + 1 .. n /\ r[i] = s[k + i]
          BY <1>1, <1>3, <3>1
        <4> QED BY <4>1
      <3> QED BY <1>4, <3>1 DEF Elements
    <2>2. ASSUME NEW i \in k + 1 .. n PROVE s[i] \in Elements(r)
      <3>1. i - k \in 1 .. n - k /\ k + (i - k) = i
        BY <1>1
      <3>2. r[i - k] = s[i]
        BY <1>3, <3>1
      <3> QED BY <1>4, <3>1, <3>2 DEF Elements
    <2> QED BY <2>1, <2>2
  <1>7. 1 .. n = (1 .. k) \cup (k + 1 .. n)
    BY <1>1
  <1>8. Elements(p) \cup Elements(r) = Elements(s)
    BY <1>1, <1>5, <1>6, <1>7 DEF Elements
  <1>9. ASSUME Distinct(s)
        PROVE  Distinct(p) /\ Distinct(r) /\ Elements(p) \cap Elements(r) = {}
    <2>1. \A i, j \in 1 .. n : s[i] = s[j] => i = j
      BY <1>1, <1>9 DEF Distinct
    <2>2. Distinct(p)
      BY <1>2, <1>4, <1>7, <2>1 DEF Distinct
    <2>3. Distinct(r)
      <3>1. ASSUME NEW i \in 1 .. n - k, NEW j \in 1 .. n - k, r[i] = r[j] PROVE i = j
        <4>1. k + i \in 1 .. n /\ k + j \in 1 .. n
          BY <1>1
        <4>2. s[k + i] = s[k + j]
          BY <1>3, <3>1
        <4>3. k + i = k + j
          BY <2>1, <4>1, <4>2
        <4> QED BY <1>1, <4>3
      <3> QED BY <1>4, <3>1 DEF Distinct
    <2>4. \A i \in 1 .. k, j \in k + 1 .. n : i # j /\ i \in 1 .. n /\ j \in 1 .. n
      BY <1>1
    <2>5. Elements(p) \cap Elements(r) = {}
      BY <1>5, <1>6, <2>1, <2>4
    <2> QED BY <2>2, <2>3, <2>5
  <1> QED BY <1>2, <1>3, <1>8, <1>9 DEF p, r, n

-----------------------------------------------------------------------------
(***************************************************************************)
(* TelemetryBeacon.                                                        *)
(***************************************************************************)

\* The good events of a batch are among it, none twice.
LEMMA ValidKept ==
  ASSUME NEW b \in Seq(Nat), Distinct(b)
  PROVE  LET a == Beacon!Valid(b)
         IN  a \in Seq(Nat) /\ Distinct(a) /\ Elements(a) = {e \in Elements(b) : Good(e)}
  <1> DEFINE N == Len(b)
             Some(n) == {b[k] : k \in {j \in 1 .. n : Good(b[j])}}
             X == [n \in 0 .. N |-> {a \in Seq(Nat) : Distinct(a) /\ Elements(a) = Some(n)}]
             Step(a, e) == IF Good(e) THEN Append(a, e) ELSE a
             step == [q \in Seq(Nat) \X (1 .. N) |-> Step(q[1], b[q[2]])]
             Follows(f) == Iterates(f, N, <<>>, step)
             Recurs(f) == f = [n \in 0 .. N |-> IF n = 0 THEN <<>> ELSE Step(f[n - 1], b[n])]
  <1>1. N \in Nat /\ DOMAIN b = 1 .. N /\ \A n \in 1 .. N : b[n] \in Nat
    OBVIOUS
  <1>2. \A n \in 0 .. N : X[n] = {a \in Seq(Nat) : Distinct(a) /\ Elements(a) = Some(n)}
    OBVIOUS
  <1> HIDE DEF X
  <1>3. <<>> \in X[0]
    <2>1. Some(0) = {} /\ Elements(<<>>) = {} /\ Distinct(<<>>) /\ <<>> \in Seq(Nat)
      BY DEF Elements, Distinct
    <2>2. 0 \in 0 .. N
      BY <1>1
    <2> QED BY <1>2, <2>1, <2>2
  <1>4. ASSUME NEW n \in 1 .. N, NEW a \in X[n - 1] PROVE Step(a, b[n]) \in X[n]
    <2>1. n - 1 \in 0 .. N /\ n \in 0 .. N /\ b[n] \in Nat
      BY <1>1
    <2>2. a \in Seq(Nat) /\ Distinct(a) /\ Elements(a) = Some(n - 1)
      BY <1>2, <2>1
    <2>3. 1 .. n = (1 .. n - 1) \cup {n} /\ n \notin 1 .. n - 1 /\ 1 .. n \subseteq DOMAIN b
      BY <1>1
    <2>4. b[n] \notin Some(n - 1)
      BY <2>3 DEF Distinct
    <2>5. CASE Good(b[n])
      <3>1. Some(n) = Some(n - 1) \cup {b[n]}
        BY <2>3, <2>5
      <3> HIDE DEF Some
      <3>2. /\ Append(a, b[n]) \in Seq(Nat) /\ Distinct(Append(a, b[n]))
            /\ Elements(Append(a, b[n])) = Some(n)
        BY <2>1, <2>2, <2>4, <3>1, OneMore
      <3> QED BY <1>2, <2>1, <2>5, <3>2
    <2>6. CASE ~Good(b[n])
      <3>1. Some(n) = Some(n - 1)
        BY <2>3, <2>6
      <3> HIDE DEF Some
      <3> QED BY <1>2, <2>1, <2>2, <2>6, <3>1
    <2> QED BY <2>5, <2>6
  <1>5. \A n \in 1 .. N : \A a \in X[n - 1] : step[<<a, n>>] \in X[n]
    <2> SUFFICES ASSUME NEW n \in 1 .. N, NEW a \in X[n - 1] PROVE step[<<a, n>>] \in X[n]
      OBVIOUS
    <2>1. a \in Seq(Nat)
      <3>1. n - 1 \in 0 .. N
        BY <1>1
      <3> QED BY <1>2, <3>1
    <2>2. step[<<a, n>>] = Step(a, b[n])
      <3> HIDE DEF Step
      <3> QED BY <2>1
    <2> HIDE DEF step, Step
    <2> QED BY <1>4, <2>2
  <1> HIDE DEF Step, Some
  <1>6. (\E f : Follows(f)) /\ \A f : Follows(f) => \A n \in 0 .. N : f[n] \in X[n]
    <2>1. \A n \in 0 .. N : X[n] \subseteq Seq(Nat)
      BY <1>2
    <2> HIDE DEF step, N
    <2> QED BY <1>1, <1>3, <1>5, <2>1, Iterated
  <1>7. ASSUME NEW f, \A n \in 0 .. N : f[n] \in X[n] PROVE Follows(f) <=> Recurs(f)
    <2>1. ASSUME NEW n \in 1 .. N PROVE f[n - 1] \in Seq(Nat)
      <3>1. n - 1 \in 0 .. N
        BY <1>1
      <3> QED BY <1>2, <1>7, <3>1
    <2>2. \A n \in 1 .. N : step[<<f[n - 1], n>>] = Step(f[n - 1], b[n])
      BY <2>1
    <2> HIDE DEF step
    <2>3. [n \in 0 .. N |-> IF n = 0 THEN <<>> ELSE step[<<f[n - 1], n>>]]
            = [n \in 0 .. N |-> IF n = 0 THEN <<>> ELSE Step(f[n - 1], b[n])]
      <3>1. ASSUME NEW n \in 0 .. N
            PROVE  (IF n = 0 THEN <<>> ELSE step[<<f[n - 1], n>>])
                     = (IF n = 0 THEN <<>> ELSE Step(f[n - 1], b[n]))
        <4>1. n = 0 \/ n \in 1 .. N
          BY <1>1
        <4> QED BY <2>2, <4>1
      <3> QED BY <3>1
    <2> QED BY <2>3 DEF Iterates
  <1>8. \E f : Recurs(f)
    <2> HIDE DEF Follows, Recurs
    <2> QED BY <1>6, <1>7
  <1>9. ASSUME NEW f, Recurs(f) PROVE f[N] \in X[N]
    <2>1. f[0] = <<>> /\ \A n \in 1 .. N : f[n] = Step(f[n - 1], b[n])
      BY SMTT(30), <1>1, <1>9
    <2>2. f[0] \in X[0] /\ \A n \in 1 .. N : f[n - 1] \in X[n - 1] => f[n] \in X[n]
      BY <1>3, <1>4, <2>1
    <2>3. \A n \in 0 .. N : f[n] \in X[n]
      <3> HIDE DEF N
      <3> QED BY <1>1, <2>2, KeptAlong
    <2>4. N \in 0 .. N
      BY <1>1
    <2> QED BY <2>3, <2>4
  <1>10. Beacon!Valid(b) = (CHOOSE f : Recurs(f))[N]
    <2>1. \A f : Recurs(f) <=>
            f = [n \in 0 .. N |-> IF n = 0 THEN <<>>
                                  ELSE IF v1[b[n]].class = "good" THEN Append(f[n - 1], b[n])
                                       ELSE f[n - 1]]
      BY DEF Step, Good
    <2> QED BY DEF Beacon!Valid, Step, Good
  <1>11. Beacon!Valid(b) \in X[N]
    <2> HIDE DEF Recurs
    <2> QED BY <1>8, <1>9, <1>10
  <1>12. Some(N) = {e \in Elements(b) : Good(e)}
    BY <1>1 DEF Some, Elements
  <1>13. N \in 0 .. N
    BY <1>1
  <1> QED BY <1>2, <1>11, <1>12, <1>13

\* The line of an event that is written whole.
LineOf(e) == [events |-> {e}, parses |-> TRUE, ended |-> TRUE]

\* Lines after those of the store, each of an event that is good and new.
LEMMA LinesAfter ==
  ASSUME NEW L, LinesOf(L), \A i \in DOMAIN L : L[i].ended,
         NEW a \in Seq(Nat), Distinct(a), Elements(a) \cap OnLines(L) = {},
         \A e \in Elements(a) : Good(e),
         NEW W \in Seq(BeaconLine), Len(W) = Len(L) + Len(a),
         \A i \in 1 .. Len(L) : W[i] = L[i],
         \A k \in 1 .. Len(a) : W[Len(L) + k] = LineOf(a[k])
  PROVE  LinesOf(W) /\ OnLines(W) = OnLines(L) \cup Elements(a) /\ Spoiled(W) = Spoiled(L)
  <1> DEFINE n == Len(L)
             m == Len(a)
  <1>1. /\ L \in Seq(BeaconLine) /\ n \in Nat /\ m \in Nat
        /\ DOMAIN L = 1 .. n /\ DOMAIN a = 1 .. m /\ DOMAIN W = 1 .. n + m
    BY DEF LinesOf
  <1>2. \A k \in 1 .. m : a[k] \in Nat /\ a[k] \in Elements(a) /\ Good(a[k])
    <2>1. \A k \in DOMAIN a : a[k] \in Nat /\ a[k] \in Elements(a)
      BY DEF Elements
    <2> HIDE DEF m
    <2> QED BY <1>1, <2>1
  <1>3. /\ \A i \in 1 .. n : W[i] = L[i]
        /\ \A k \in 1 .. m : W[n + k] = LineOf(a[k])
    OBVIOUS
  <1>4. \A k \in 1 .. m : /\ W[n + k].events = {a[k]} /\ W[n + k].parses /\ W[n + k].ended
    <2>1. \A e : LineOf(e).events = {e} /\ LineOf(e).parses /\ LineOf(e).ended
      BY DEF LineOf
    <2> HIDE DEF n, m
    <2> QED BY <1>3, <2>1
  <1> HIDE DEF n, m
  <1>5. \A i \in 1 .. n + m : i \in 1 .. n \/ \E k \in 1 .. m : i = n + k
    <2>1. ASSUME NEW i \in 1 .. n + m, i \notin 1 .. n PROVE \E k \in 1 .. m : i = n + k
      <3>1. i - n \in 1 .. m /\ i = n + (i - n)
        BY <1>1, <2>1
      <3> QED BY <3>1
    <2> QED BY <2>1
  <1>6. \A k \in 1 .. m : n + k \in 1 .. n + m /\ n + k \notin 1 .. n
    BY <1>1
  <1>7. \A i \in 1 .. n : i \in 1 .. n + m
    BY <1>1
  <1>8. ASSUME NEW i \in 1 .. n + m, NEW j \in 1 .. n + m, i # j
        PROVE  W[i].events \cap W[j].events = {}
    <2>1. CASE i \in 1 .. n /\ j \in 1 .. n
      BY ZenonT(60), <1>1, <1>3, <1>8, <2>1 DEF LinesOf
    <2>2. CASE i \in 1 .. n /\ j \notin 1 .. n
      <3>1. PICK k \in 1 .. m : j = n + k
        BY <1>5, <2>2
      <3>2. a[k] \notin L[i].events
        BY <1>1, <1>2, <2>2 DEF OnLines
      <3> QED BY <1>3, <1>4, <2>2, <3>1, <3>2
    <2>3. CASE i \notin 1 .. n /\ j \in 1 .. n
      <3>1. PICK k \in 1 .. m : i = n + k
        BY <1>5, <2>3
      <3>2. a[k] \notin L[j].events
        BY <1>1, <1>2, <2>3 DEF OnLines
      <3> QED BY <1>3, <1>4, <2>3, <3>1, <3>2
    <2>4. CASE i \notin 1 .. n /\ j \notin 1 .. n
      <3>1. PICK k \in 1 .. m : i = n + k
        BY <1>5, <2>4
      <3>2. PICK l \in 1 .. m : j = n + l
        BY <1>5, <2>4
      <3>3. k # l
        BY <1>8, <3>1, <3>2
      <3>4. a[k] # a[l]
        BY <1>1, <3>3 DEF Distinct
      <3> QED BY <1>4, <3>1, <3>2, <3>4
    <2> QED BY <2>1, <2>2, <2>3, <2>4
  <1>9. \A i \in 1 .. n + m : W[i].ended
    BY <1>1, <1>3, <1>4, <1>5
  <1>10. \A i \in 1 .. n + m : W[i].parses => \E e \in Nat : W[i].events = {e} /\ Good(e)
    <2>1. \A i \in 1 .. n : W[i].parses => \E e \in Nat : W[i].events = {e} /\ Good(e)
      BY <1>1, <1>3 DEF LinesOf
    <2>2. \A k \in 1 .. m : \E e \in Nat : W[n + k].events = {e} /\ Good(e)
      BY <1>2, <1>4
    <2> QED BY <1>5, <2>1, <2>2
  <1>11. LinesOf(W)
    BY <1>1, <1>8, <1>9, <1>10 DEF LinesOf
  <1>12. OnLines(W) = OnLines(L) \cup Elements(a)
    <2>1. ASSUME NEW e \in OnLines(W) PROVE e \in OnLines(L) \cup Elements(a)
      <3>1. PICK i \in 1 .. n + m : e \in W[i].events
        BY <1>1, <2>1 DEF OnLines
      <3>2. CASE i \in 1 .. n
        BY <1>1, <1>3, <3>1, <3>2 DEF OnLines
      <3>3. CASE i \notin 1 .. n
        BY <1>2, <1>4, <1>5, <3>1, <3>3
      <3> QED BY <3>2, <3>3
    <2>2. ASSUME NEW i \in 1 .. n, NEW e \in L[i].events PROVE e \in OnLines(W)
      <3>1. e \in W[i].events /\ i \in DOMAIN W
        BY <1>1, <1>3, <1>7, <2>2
      <3> QED BY <3>1 DEF OnLines
    <2>3. ASSUME NEW k \in 1 .. m PROVE a[k] \in OnLines(W)
      <3>1. a[k] \in W[n + k].events /\ n + k \in DOMAIN W
        BY <1>1, <1>4, <1>6
      <3> QED BY <3>1 DEF OnLines
    <2>4. OnLines(L) \subseteq OnLines(W)
      <3>1. ASSUME NEW x \in OnLines(L) PROVE x \in OnLines(W)
        <4>1. PICK i \in 1 .. n : x \in L[i].events
          BY <1>1, <3>1 DEF OnLines
        <4> QED BY <2>2, <4>1
      <3> QED BY <3>1
    <2>5. Elements(a) \subseteq OnLines(W)
      BY <1>1, <2>3 DEF Elements
    <2> QED BY <2>1, <2>4, <2>5
  <1>13. Spoiled(W) = Spoiled(L)
    <2>1. \A k \in 1 .. m : n + k \notin Spoiled(W)
      BY <1>4 DEF Spoiled
    <2>2. \A i \in 1 .. n : i \in Spoiled(W) <=> i \in Spoiled(L)
      BY <1>1, <1>3, <1>7 DEF Spoiled
    <2>3. Spoiled(W) \subseteq 1 .. n + m /\ Spoiled(L) \subseteq 1 .. n
      BY <1>1 DEF Spoiled
    <2> QED BY <1>5, <1>7, <2>1, <2>2, <2>3
  <1> QED BY <1>11, <1>12, <1>13

\* One line of the store is another: the events it holds may be more by a new one, and
\* it does not parse unless it did before.
LEMMA LineChanged ==
  ASSUME NEW L, LinesOf(L), L # <<>>, NEW N \in SUBSET Nat, N \cap OnLines(L) = {},
         NEW l \in BeaconLine, l.events = L[Len(L)].events \cup N,
         l.parses => L[Len(L)].parses /\ N = {}
  PROVE  LET W == [L EXCEPT ![Len(L)] = l]
         IN  /\ LinesOf(W) /\ OnLines(W) = OnLines(L) \cup N /\ Len(W) = Len(L)
             /\ Spoiled(W) \subseteq Spoiled(L) \cup {Len(L)}
             /\ ~(L[Len(L)].parses /\ L[Len(L)].ended) /\ ~(l.parses /\ l.ended) =>
                  Spoiled(W) = Spoiled(L)
             /\ l.ended => \A i \in DOMAIN W : W[i].ended
  <1> DEFINE n == Len(L)
             W == [L EXCEPT ![n] = l]
  <1>1. /\ L \in Seq(BeaconLine) /\ n \in Nat /\ DOMAIN L = 1 .. n /\ n \in DOMAIN L
    BY EmptySeq DEF LinesOf
  <1>2. /\ DOMAIN W = 1 .. n /\ Len(W) = n /\ W \in Seq(BeaconLine) /\ W[n] = l
        /\ \A i \in 1 .. n : i # n => W[i] = L[i]
    BY <1>1
  <1>3. n \in 1 .. n
    BY <1>1
  <1> HIDE DEF W, n
  <1>4. \A i \in 1 .. n : L[i].events \subseteq OnLines(L)
    BY SMTT(30), <1>1 DEF OnLines
  <1>5. \A i \in 1 .. n : W[i].events = IF i = n THEN L[i].events \cup N ELSE L[i].events
    BY <1>2 DEF n
  <1>6. LinesOf(W)
    <2>1. ASSUME NEW i \in 1 .. n, NEW j \in 1 .. n, i # j
          PROVE  W[i].events \cap W[j].events = {}
      <3>1. L[i].events \cap L[j].events = {}
        BY <1>1, <2>1 DEF LinesOf
      <3>2. N \cap L[i].events = {} /\ N \cap L[j].events = {}
        BY <1>4
      <3>3. W[i].events = IF i = n THEN L[i].events \cup N ELSE L[i].events
        BY <1>5
      <3>4. W[j].events = IF j = n THEN L[j].events \cup N ELSE L[j].events
        BY <1>5
      <3> QED BY <2>1, <3>1, <3>2, <3>3, <3>4
    <2>2. \A i \in 1 .. n : W[i].ended \/ i = n
      BY <1>1, <1>2 DEF LinesOf, n
    <2>3. \A i \in 1 .. n : W[i].parses => \E e \in Nat : W[i].events = {e} /\ Good(e)
      <3>1. l.parses => l.events = L[n].events /\ L[n].parses
        BY DEF n
      <3> QED BY <1>1, <1>2, <3>1 DEF LinesOf
    <2> QED BY <1>2, <2>1, <2>2, <2>3 DEF LinesOf
  <1>7. OnLines(W) = OnLines(L) \cup N
    BY <1>1, <1>2, <1>3, <1>5 DEF OnLines
  <1>8. Spoiled(W) \subseteq Spoiled(L) \cup {n}
    BY <1>1, <1>2 DEF Spoiled
  <1>9. ~(L[n].parses /\ L[n].ended) /\ ~(l.parses /\ l.ended) => Spoiled(W) = Spoiled(L)
    BY SMTT(30), <1>1, <1>2, <1>3 DEF Spoiled
  <1>10. l.ended => \A i \in 1 .. n : W[i].ended
    BY <1>1, <1>2 DEF LinesOf, n
  <1> QED BY <1>2, <1>6, <1>7, <1>8, <1>9, <1>10 DEF W, n

\* A write: each event has its line, but for the one a torn line takes into itself.
LEMMA WrittenLines ==
  ASSUME LinesOf(v4), NEW a \in Seq(Nat), Distinct(a), Elements(a) \cap OnLines(v4) = {},
         \A e \in Elements(a) : Good(e)
  PROVE  LET W == Beacon!Written(a)
         IN  /\ LinesOf(W) /\ OnLines(W) = OnLines(v4) \cup Elements(a)
             /\ Spoiled(W) = Spoiled(v4) /\ (a # <<>> => W # <<>>)
  <1> DEFINE fresh == [k \in DOMAIN a |-> [events |-> {a[k]}, parses |-> TRUE, ended |-> TRUE]]
             W == Beacon!Written(a)
             n == Len(v4)
             m == Len(a)
  <1>1. /\ v4 \in Seq(BeaconLine) /\ n \in Nat /\ m \in Nat
        /\ DOMAIN v4 = 1 .. n /\ DOMAIN a = 1 .. m
    BY DEF LinesOf
  <1>2. \A k \in 1 .. m : a[k] \in Nat /\ a[k] \in Elements(a)
    <2>1. \A k \in DOMAIN a : a[k] \in Nat /\ a[k] \in Elements(a)
      BY DEF Elements
    <2> HIDE DEF m
    <2> QED BY <1>1, <2>1
  <1>3. \A e \in Nat : LineOf(e) \in BeaconLine
    BY DEF LineOf, BeaconLine
  <1>4. /\ fresh \in Seq(BeaconLine) /\ Len(fresh) = m
        /\ \A k \in 1 .. m : fresh[k] = LineOf(a[k])
    <2>1. fresh = [k \in 1 .. m |-> LineOf(a[k])]
      BY <1>1 DEF LineOf
    <2> HIDE DEF fresh, m
    <2>2. fresh \in [1 .. m -> BeaconLine]
      BY <1>2, <1>3, <2>1
    <2> QED BY <1>1, <2>1, <2>2
  <1>5. W = IF a = <<>> \/ v4 = <<>> \/ v4[n].ended THEN v4 \o fresh
            ELSE SubSeq(v4, 1, n - 1)
                   \o <<[events |-> v4[n].events \cup {Head(a)}, parses |-> FALSE, ended |-> TRUE]>>
                   \o Tail(fresh)
    BY DEF Beacon!Written
  <1> HIDE DEF fresh, W, n, m
  <1>6. a = <<>> <=> m = 0
    BY <1>1, EmptySeq DEF m
  <1>7. v4 = <<>> <=> n = 0
    BY <1>1, EmptySeq DEF n
  <1>8. \A i \in DOMAIN v4 : v4[i].ended \/ i = n
    BY DEF LinesOf, n
  <1>9. CASE a = <<>>
    <2>1. fresh = <<>>
      BY <1>4, <1>6, <1>9, EmptySeq
    <2>2. W = v4
      BY <1>1, <1>5, <1>9, <2>1, ConcatEmptySeq
    <2>3. Elements(a) = {}
      BY <1>9 DEF Elements
    <2> QED BY <1>9, <2>2, <2>3 DEF W
  <1>10. CASE a # <<>> /\ (v4 = <<>> \/ v4[n].ended)
    <2>1. W = v4 \o fresh
      BY <1>5, <1>10
    <2>2. /\ W \in Seq(BeaconLine) /\ Len(W) = n + m
          /\ \A i \in 1 .. n + m : W[i] = IF i <= n THEN v4[i] ELSE fresh[i - n]
      BY ZenonT(60), <1>1, <1>4, <2>1, ConcatProperties DEF n
    <2>3. \A i \in 1 .. n : W[i] = v4[i]
      <3>1. \A i \in 1 .. n : i \in 1 .. n + m /\ i <= n
        BY <1>1
      <3> QED BY <2>2, <3>1
    <2>4. \A k \in 1 .. m : W[n + k] = LineOf(a[k])
      <3>1. \A k \in 1 .. m : n + k \in 1 .. n + m /\ ~(n + k <= n) /\ (n + k) - n = k
        BY <1>1
      <3> QED BY <1>4, <2>2, <3>1
    <2>5. \A i \in DOMAIN v4 : v4[i].ended
      BY <1>1, <1>7, <1>8, <1>10
    <2>6. LinesOf(W) /\ OnLines(W) = OnLines(v4) \cup Elements(a) /\ Spoiled(W) = Spoiled(v4)
      BY <2>2, <2>3, <2>4, <2>5, LinesAfter DEF n, m
    <2>7. W # <<>>
      BY <1>1, <1>6, <1>10, <2>2
    <2> QED BY <2>6, <2>7 DEF W
  <1>11. CASE a # <<>> /\ v4 # <<>> /\ ~v4[n].ended
    <2> DEFINE l == [events |-> v4[n].events \cup {a[1]}, parses |-> FALSE, ended |-> TRUE]
               M == [v4 EXCEPT ![n] = l]
               r == SubSeq(a, 2, Len(a))
    <2>1. 1 \in 1 .. m /\ n \in 1 .. n /\ Head(a) = a[1] /\ m >= 1 /\ n >= 1
      BY <1>1, <1>6, <1>7, <1>11
    <2>2. v4[n] \in BeaconLine
      BY <1>1, <2>1
    <2>3. l \in BeaconLine /\ l.events = v4[n].events \cup {a[1]} /\ ~l.parses /\ l.ended
      BY <1>2, <2>1, <2>2 DEF BeaconLine
    <2>4. {a[1]} \cap OnLines(v4) = {} /\ {a[1]} \in SUBSET Nat
      BY <1>2, <2>1
    <2>5. /\ LinesOf(M) /\ OnLines(M) = OnLines(v4) \cup {a[1]} /\ Len(M) = n
          /\ Spoiled(M) = Spoiled(v4) /\ \A i \in DOMAIN M : M[i].ended
      <3> HIDE DEF l
      <3> QED BY <1>11, <2>3, <2>4, LineChanged DEF n
    <2>6. /\ DOMAIN M = 1 .. n /\ M[n] = l /\ \A i \in 1 .. n : i # n => M[i] = v4[i]
      BY <1>1, <2>1
    <2>7. /\ r \in Seq(Nat) /\ Len(r) = m - 1 /\ Distinct(r)
          /\ Elements(r) \subseteq Elements(a) /\ a[1] \notin Elements(r)
          /\ Elements(a) = {a[1]} \cup Elements(r)
      <3> DEFINE p == SubSeq(a, 1, 1)
      <3>1. /\ p \in Seq(Nat) /\ Len(p) = 1 /\ r \in Seq(Nat) /\ Len(r) = m - 1
            /\ Elements(p) \cup Elements(r) = Elements(a) /\ p[1] = a[1]
            /\ Distinct(r) /\ Elements(p) \cap Elements(r) = {}
        <4> DEFINE k == 1
                   P == SubSeq(a, 1, k)
                   R == SubSeq(a, k + 1, Len(a))
        <4>1. k \in 0 .. Len(a)
          BY <1>1, <2>1 DEF m
        <4>2. P = p /\ R = r /\ Len(a) - k = m - 1 /\ 1 \in 1 .. k
          BY DEF m
        <4> HIDE DEF k
        <4>3. /\ P \in Seq(Nat) /\ Len(P) = k /\ R \in Seq(Nat) /\ Len(R) = Len(a) - k
              /\ Elements(P) \cup Elements(R) = Elements(a) /\ (\A i \in 1 .. k : P[i] = a[i])
              /\ Distinct(R) /\ Elements(P) \cap Elements(R) = {}
          BY SMTT(30), <4>1, TwoParts
        <4> HIDE DEF P, R, r, p
        <4>4. k = 1
          BY DEF k
        <4> QED BY <4>2, <4>3, <4>4
      <3>2. DOMAIN p = {1}
        BY <3>1
      <3> HIDE DEF p, r
      <3>3. Elements(p) = {a[1]}
        BY <3>1, <3>2 DEF Elements
      <3> QED BY <3>1, <3>3
    <2>8. \A k \in 1 .. m - 1 : r[k] = a[k + 1]
      <3>1. \A i \in 2 .. m : a[i] \in Nat
        BY <1>1, <1>2
      <3>2. \A i \in 1 .. m - 2 + 1 : r[i] = a[2 + i - 1]
        <4>1. \A i \in 2 .. Len(a) : a[i] \in Nat
          BY <3>1 DEF m
        <4>2. \A i \in 1 .. Len(a) - 2 + 1 : r[i] = a[2 + i - 1]
          BY <1>1, <4>1, SubSeqProperties DEF m
        <4> QED BY <4>2 DEF m
      <3>3. \A k \in 1 .. m - 1 : k \in 1 .. m - 2 + 1 /\ 2 + k - 1 = k + 1
        BY <1>1
      <3> HIDE DEF r
      <3> QED BY <3>2, <3>3
    <2> HIDE DEF r
    <2> DEFINE q == SubSeq(v4, 1, n - 1)
               t == Tail(fresh)
               h == q \o <<l>>
    <2>9. fresh # <<>> /\ t \in Seq(BeaconLine) /\ Len(t) = m - 1
          /\ \A k \in 1 .. m - 1 : t[k] = LineOf(a[k + 1])
      <3>1. fresh # <<>>
        BY <1>4, <2>1
      <3>2. /\ t \in Seq(BeaconLine) /\ Len(t) = Len(fresh) - 1
            /\ \A i \in 1 .. Len(t) : t[i] = fresh[i + 1]
        BY <1>4, <3>1, HeadTailProperties
      <3>3. \A k \in 1 .. m - 1 : k + 1 \in 1 .. m
        BY <1>1
      <3> HIDE DEF t
      <3> QED BY <1>4, <3>1, <3>2, <3>3
    <2>10. q \in Seq(BeaconLine) /\ Len(q) = n - 1 /\ \A i \in 1 .. n - 1 : q[i] = v4[i]
      <3>1. n - 1 \in 0 .. Len(v4)
        BY SMTT(30), <1>1, <2>1 DEF n
      <3> QED BY <1>1, <3>1, TwoParts
    <2>11. W = h \o t
      BY <1>5, <1>11, <2>1
    <2> HIDE DEF q, t, l
    <2>12. /\ h \in Seq(BeaconLine) /\ Len(h) = n /\ h[n] = l
           /\ \A i \in 1 .. n : i # n => h[i] = v4[i]
      <3>1. <<l>> \in Seq(BeaconLine) /\ Len(<<l>>) = 1 /\ <<l>>[1] = l
        BY <2>3
      <3>2. /\ h \in Seq(BeaconLine) /\ Len(h) = Len(q) + 1
            /\ \A i \in 1 .. Len(q) + 1 : h[i] = IF i <= Len(q) THEN q[i] ELSE <<l>>[i - Len(q)]
        BY <2>10, <3>1, ConcatProperties
      <3> HIDE DEF h
      <3>3. Len(h) = n
        BY <1>1, <2>10, <3>2
      <3>4. h[n] = l
        <4>1. n \in 1 .. Len(q) + 1 /\ ~(n <= Len(q)) /\ n - Len(q) = 1
          BY <1>1, <2>1, <2>10
        <4> QED BY <3>1, <3>2, <4>1
      <3>5. ASSUME NEW i \in 1 .. n, i # n PROVE h[i] = v4[i]
        <4>1. i \in 1 .. Len(q) + 1 /\ i <= Len(q) /\ i \in 1 .. n - 1
          BY <1>1, <2>10, <3>5
        <4> QED BY <2>10, <3>2, <4>1
      <3> QED BY <3>2, <3>3, <3>4, <3>5
    <2>13. h = M
      <3> HIDE DEF h
      <3>1. h \in Seq(BeaconLine) /\ M \in Seq(BeaconLine)
        BY <2>5, <2>12 DEF LinesOf
      <3>2. Len(h) = Len(M) /\ \A i \in 1 .. n : h[i] = M[i]
        BY <2>5, <2>6, <2>12
      <3> HIDE DEF M
      <3> QED BY <2>5, <3>1, <3>2, SeqEqual
    <2> HIDE DEF h, M
    <2>14. /\ W \in Seq(BeaconLine) /\ Len(W) = n + (m - 1)
           /\ \A i \in 1 .. n + (m - 1) : W[i] = IF i <= n THEN M[i] ELSE t[i - n]
      <3>1. M \in Seq(BeaconLine) /\ W = M \o t
        BY <2>5, <2>11, <2>13 DEF LinesOf
      <3>2. /\ W \in Seq(BeaconLine) /\ Len(W) = Len(M) + Len(t)
            /\ \A i \in 1 .. Len(M) + Len(t) : W[i] = IF i <= Len(M) THEN M[i] ELSE t[i - Len(M)]
        BY <2>9, <3>1, ConcatProperties
      <3> QED BY <2>5, <2>9, <3>2
    <2>15. \A i \in 1 .. n : W[i] = M[i]
      <3>1. \A i \in 1 .. n : i \in 1 .. n + (m - 1) /\ i <= n
        BY <1>1, <2>1
      <3> QED BY <2>14, <3>1
    <2>16. \A k \in 1 .. m - 1 : W[n + k] = LineOf(r[k])
      <3>1. \A k \in 1 .. m - 1 : n + k \in 1 .. n + (m - 1) /\ ~(n + k <= n) /\ (n + k) - n = k
        BY <1>1, <2>1
      <3> QED BY <2>8, <2>9, <2>14, <3>1
    <2>17. Elements(r) \cap OnLines(M) = {} /\ \A e \in Elements(r) : Good(e)
      BY <2>5, <2>7
    <2>18. LinesOf(W) /\ OnLines(W) = OnLines(M) \cup Elements(r) /\ Spoiled(W) = Spoiled(M)
      <3>1. /\ Len(W) = Len(M) + Len(r) /\ \A i \in 1 .. Len(M) : W[i] = M[i]
            /\ \A k \in 1 .. Len(r) : W[Len(M) + k] = LineOf(r[k])
        BY <2>5, <2>7, <2>14, <2>15, <2>16
      <3> QED BY <2>5, <2>7, <2>14, <2>17, <3>1, LinesAfter
    <2>19. W # <<>>
      BY <1>1, <2>1, <2>14
    <2>20. OnLines(W) = OnLines(v4) \cup Elements(a)
      BY <2>5, <2>7, <2>18
    <2> QED BY <2>5, <2>18, <2>19, <2>20 DEF W
  <1> QED BY <1>9, <1>10, <1>11

\* The last line is torn off, and may not parse.
LEMMA TornLines ==
  ASSUME NEW L, LinesOf(L), L # <<>>, NEW parses \in BOOLEAN
  PROVE  LET T == [L EXCEPT ![Len(L)].ended = FALSE, ![Len(L)].parses = parses /\ @]
         IN  LinesOf(T) /\ OnLines(T) = OnLines(L) /\ Spoiled(T) \subseteq Spoiled(L) \cup {Len(L)}
  <1> DEFINE l == [L[Len(L)] EXCEPT !.ended = FALSE, !.parses = parses /\ @]
             T == [L EXCEPT ![Len(L)].ended = FALSE, ![Len(L)].parses = parses /\ @]
  <1>1. L[Len(L)] \in BeaconLine
    BY EmptySeq DEF LinesOf
  <1>2. l \in BeaconLine /\ l.events = L[Len(L)].events /\ (l.parses => L[Len(L)].parses)
    BY <1>1 DEF BeaconLine
  <1>3. T = [L EXCEPT ![Len(L)] = l]
    BY <1>1 DEF LinesOf
  <1>4. {} \in SUBSET Nat /\ {} \cap OnLines(L) = {} /\ l.events = L[Len(L)].events \cup {}
    BY <1>2
  <1> HIDE DEF l, T
  <1>5. LinesOf(T) /\ OnLines(T) = OnLines(L) \cup {} /\ Spoiled(T) \subseteq Spoiled(L) \cup {Len(L)}
    BY <1>2, <1>3, <1>4, LineChanged
  <1> QED BY <1>5 DEF T

LEMMA BeaconConstants ==
  /\ FlushAt \in Nat \ {0} /\ MaxBatch \in Nat \ {0} /\ Window \in Nat \ {0}
  /\ "none" \notin Surfaces
  BY ClientAssumption

LEMMA BeaconStart ==
  ASSUME Beacon!BeaconInit
  PROVE  BeaconInv
  <1>1. /\ v1 = <<>> /\ v3 = {} /\ v4 = <<>> /\ v5 = {}
        /\ v2 = [page |-> 1, queue |-> <<>>, lastView |-> [s \in Surfaces |-> Beacon!Never]]
        /\ v6 = [now |-> 0, lost |-> 0, kills |-> 0, loads |-> 0]
    BY DEF Beacon!BeaconInit, Beacon!Fresh
  <1>2. Beacon!Never \in Int
    BY BeaconConstants DEF Beacon!Never
  <1>3. v2 \in BeaconTab /\ v2.queue = <<>> /\ v2.page = 1 /\ v6 \in BeaconTally /\ v6.kills = 0
    BY <1>1, <1>2 DEF BeaconTab, BeaconTally
  <1>4. Elements(<<>>) = {} /\ Distinct(<<>>) /\ OnLines(<<>>) = {} /\ Spoiled(<<>>) = {}
    BY DEF Elements, Distinct, OnLines, Spoiled
  <1>5. OnWay({}) = {} /\ LinesOf(<<>>) /\ DOMAIN <<>> = {}
    BY DEF OnWay, LinesOf
  <1>6. BeaconTypes
    <2>1. v1 \in Seq(BeaconEvent) /\ Len(v2.queue) = 0
      BY <1>1, <1>3
    <2> QED BY <1>1, <1>3, <2>1, BeaconConstants DEF BeaconTypes
  <1>7. BeaconPlaces
    BY <1>1, <1>3, <1>4, <1>5 DEF BeaconPlaces
  <1>8. BeaconSpoils
    <2>1. Spoiled(v4) = {} /\ Cardinality({}) = 0 /\ v6.kills = 0
      BY <1>1, <1>3, <1>4, FS_EmptySet
    <2> QED BY <2>1 DEF BeaconSpoils
  <1>9. BeaconViews
    BY <1>1, <1>3, <1>5 DEF BeaconViews
  <1> QED BY <1>6, <1>7, <1>8, <1>9 DEF BeaconInv

LEMMA BeaconStays ==
  ASSUME BeaconInv, UNCHANGED <<v1, v2, v3, v4, v5, v6>>
  PROVE  BeaconInv'
  BY DEF BeaconInv, BeaconTypes, BeaconPlaces, BeaconSpoils, BeaconViews, LinesOf, Good

\* A batch is spliced off the outbox.
LEMMA BatchParts ==
  ASSUME NEW q \in Seq(Nat), Distinct(q)
  PROVE  LET p == Beacon!Batch(q)
             r == Beacon!Rest(q)
         IN  /\ p \in Seq(Nat) /\ r \in Seq(Nat) /\ Distinct(p) /\ Distinct(r)
             /\ Elements(p) \cup Elements(r) = Elements(q) /\ Elements(p) \cap Elements(r) = {}
             /\ q # <<>> => Len(p) \in 1 .. MaxBatch /\ Len(r) < Len(q)
  <1> DEFINE k == IF Len(q) < MaxBatch THEN Len(q) ELSE MaxBatch
             p == SubSeq(q, 1, k)
             r == SubSeq(q, k + 1, Len(q))
  <1>1. k \in 0 .. Len(q) /\ (q # <<>> => k \in 1 .. MaxBatch)
    <2>1. MaxBatch \in Nat \ {0}
      BY BeaconConstants
    <2> QED BY <2>1, EmptySeq
  <1> HIDE DEF k
  <1>2. /\ p \in Seq(Nat) /\ Len(p) = k /\ r \in Seq(Nat) /\ Len(r) = Len(q) - k
        /\ Elements(p) \cup Elements(r) = Elements(q)
        /\ Distinct(p) /\ Distinct(r) /\ Elements(p) \cap Elements(r) = {}
    BY SMTT(30), <1>1, TwoParts
  <1>3. Beacon!Batch(q) = p
    BY DEF Beacon!Batch, k
  <1>4. Beacon!Rest(q) = r
    BY <1>2, <1>3 DEF Beacon!Rest
  <1>5. q # <<>> => Len(r) < Len(q)
    BY <1>1, <1>2
  <1> HIDE DEF p, r
  <1> QED BY <1>1, <1>2, <1>3, <1>4, <1>5

\* A batch goes on its way, or leaves it.
LEMMA OneSent ==
  ASSUME NEW N, NEW p, Elements(p) \cap OnWay(N) = {},
         \A b, c \in N : b # c => Elements(b) \cap Elements(c) = {}
  PROVE  /\ OnWay(N \cup {p}) = OnWay(N) \cup Elements(p)
         /\ \A b, c \in N \cup {p} : b # c => Elements(b) \cap Elements(c) = {}
  <1>1. \A b \in N : Elements(b) \subseteq OnWay(N)
    BY DEF OnWay
  <1>2. OnWay(N \cup {p}) = OnWay(N) \cup Elements(p)
    BY DEF OnWay
  <1> QED BY <1>1, <1>2

LEMMA OneTaken ==
  ASSUME NEW N, NEW p \in N, \A b, c \in N : b # c => Elements(b) \cap Elements(c) = {}
  PROVE  OnWay(N \ {p}) = OnWay(N) \ Elements(p) /\ Elements(p) \subseteq OnWay(N)
  <1>1. \A x : x \in OnWay(N \ {p}) <=> \E b \in N : b # p /\ x \in Elements(b)
    BY DEF OnWay
  <1>2. \A x : x \in OnWay(N) <=> \E b \in N : x \in Elements(b)
    BY DEF OnWay
  <1> QED BY <1>1, <1>2

LEMMA SameBeaconSet == \A s : Beacon!Range(s) = Elements(s)
  BY DEF Beacon!Range, Elements

\* Where the events are after a step.
LEMMA PlacesBy ==
  ASSUME NEW Q, v2'.queue = Q, NEW N, v3' = N, NEW L, v4' = L, NEW G, v5' = G,
         LinesOf(v4)', Distinct(Q), \A b \in N : Distinct(b),
         \A b, c \in N : b # c => Elements(b) \cap Elements(c) = {},
         Elements(Q) \cup OnWay(N) \cup OnLines(L) \cup G = DOMAIN v1',
         Elements(Q) \cap OnWay(N) = {}, Elements(Q) \cap OnLines(L) = {},
         Elements(Q) \cap G = {}, OnWay(N) \cap OnLines(L) = {},
         OnWay(N) \cap G = {}, OnLines(L) \cap G = {}
  PROVE  BeaconPlaces'
  <1>1. Elements(v2.queue)' = Elements(Q)
    BY DEF Elements
  <1>2. OnWay(v3)' = OnWay(N)
    BY DEF OnWay
  <1>3. OnLines(v4)' = OnLines(L)
    BY DEF OnLines
  <1>4. Distinct(v2.queue)' = Distinct(Q)
    BY DEF Distinct
  <1> QED BY <1>1, <1>2, <1>3, <1>4 DEF BeaconPlaces

\* The outbox is flushed, or what is left of it dropped.
LEMMA BeaconLeaves ==
  ASSUME BeaconInv, Beacon!Flush \/ Beacon!Reload
  PROVE  BeaconInv'
  <1>1. BeaconTypes /\ BeaconPlaces /\ BeaconSpoils /\ BeaconViews
    BY DEF BeaconInv
  <1>2. /\ v1 \in Seq(BeaconEvent) /\ v2 \in BeaconTab /\ v3 \subseteq Seq(Nat)
        /\ v6 \in BeaconTally /\ Len(v2.queue) < FlushAt /\ \A b \in v3 : Len(b) \in 1 .. MaxBatch
    BY <1>1 DEF BeaconTypes
  <1> DEFINE q == v2.queue
             p == Beacon!Batch(q)
             r == Beacon!Rest(q)
  <1>3. q \in Seq(Nat) /\ v2.page \in Nat /\ Distinct(q)
    BY <1>1, <1>2 DEF BeaconTab, BeaconPlaces
  <1>4. /\ p \in Seq(Nat) /\ r \in Seq(Nat) /\ Distinct(p) /\ Distinct(r)
        /\ Elements(p) \cup Elements(r) = Elements(q) /\ Elements(p) \cap Elements(r) = {}
        /\ q # <<>> => Len(p) \in 1 .. MaxBatch /\ Len(r) < Len(q)
    BY <1>3, BatchParts
  <1>5. /\ Elements(q) \cap OnWay(v3) = {} /\ (\A b \in v3 : Distinct(b))
        /\ \A b, c \in v3 : b # c => Elements(b) \cap Elements(c) = {}
    BY <1>1 DEF BeaconPlaces
  <1> HIDE DEF p, r
  <1>6. /\ OnWay(v3 \cup {p}) = OnWay(v3) \cup Elements(p)
        /\ \A b, c \in v3 \cup {p} : b # c => Elements(b) \cap Elements(c) = {}
    <2>1. Elements(p) \cap OnWay(v3) = {}
      BY <1>4, <1>5
    <2> QED BY <1>5, <2>1, OneSent
  <1>7. FlushAt \in Nat /\ FlushAt > 0
    BY BeaconConstants
  <1>8. LinesOf(v4)
    BY <1>1 DEF BeaconPlaces
  <1>9. CASE Beacon!Flush
    <2>1. /\ q # <<>> /\ v2' = [v2 EXCEPT !.queue = r] /\ v3' = v3 \cup {p}
          /\ UNCHANGED <<v1, v4, v5, v6>>
      BY <1>9 DEF Beacon!Flush, Beacon!Flushed, Beacon!Sent, p, r
    <2>2. /\ v2' \in BeaconTab /\ v2'.queue = r /\ v2'.page = v2.page
          /\ v2'.lastView = v2.lastView
      BY <1>2, <1>4, <2>1 DEF BeaconTab
    <2>3. Len(r) < FlushAt
      BY <1>2, <1>3, <1>4, <1>7, <2>1
    <2>4. BeaconTypes'
      BY <1>2, <1>4, <2>1, <2>2, <2>3 DEF BeaconTypes
    <2>5. BeaconPlaces'
      <3>1. LinesOf(v4)'
        BY <1>8, <2>1 DEF LinesOf, Good
      <3>2. /\ Elements(r) \cup OnWay(v3') \cup OnLines(v4) \cup v5 = DOMAIN v1
            /\ Elements(r) \cap OnWay(v3') = {} /\ Elements(r) \cap OnLines(v4) = {}
            /\ Elements(r) \cap v5 = {} /\ OnWay(v3') \cap OnLines(v4) = {}
            /\ OnWay(v3') \cap v5 = {} /\ OnLines(v4) \cap v5 = {}
        BY <1>1, <1>4, <1>6, <2>1 DEF BeaconPlaces
      <3>4. /\ Distinct(r) /\ (\A b \in v3' : Distinct(b))
            /\ \A b, c \in v3' : b # c => Elements(b) \cap Elements(c) = {}
        BY <1>4, <1>5, <1>6, <2>1
      <3>5. v4' = v4 /\ v5' = v5 /\ v1' = v1 /\ v2'.queue = r
        BY <2>1, <2>2
      <3> QED BY <3>1, <3>2, <3>4, <3>5, PlacesBy
    <2>6. BeaconSpoils' /\ BeaconViews'
      BY <1>1, <2>1, <2>2 DEF BeaconSpoils, BeaconViews, Spoiled
    <2> QED BY <2>4, <2>5, <2>6 DEF BeaconInv
  <1>10. CASE Beacon!Reload
    <2> DEFINE fresh == [page |-> v2.page + 1, queue |-> <<>>, lastView |-> [s \in Surfaces |-> Beacon!Never]]
    <2>1. /\ v2' = fresh /\ UNCHANGED <<v1, v4>>
          /\ v6' = [v6 EXCEPT !.loads = @ + 1]
          /\ \/ v3' = Beacon!Sent(v2) /\ v5' = v5 \cup Elements(r)
             \/ v3' = v3 /\ v5' = v5 \cup Elements(q)
      BY <1>10, SameBeaconSet DEF Beacon!Reload, Beacon!Spend, Beacon!Fresh, r
    <2>2. /\ v2' \in BeaconTab /\ v2'.queue = <<>> /\ v2'.page = v2.page + 1
      <3>1. Beacon!Never \in Int
        BY BeaconConstants DEF Beacon!Never
      <3> QED BY <1>3, <2>1, <3>1 DEF BeaconTab
    <2>3. v6' \in BeaconTally /\ v6'.kills = v6.kills /\ v6'.now = v6.now
      BY SMTT(30), <1>2, <2>1 DEF BeaconTally
    <2>4. Elements(<<>>) = {} /\ Distinct(<<>>) /\ Len(<<>>) = 0
      BY DEF Elements, Distinct
    <2>5. ASSUME NEW gone, v5' = v5 \cup gone,
                 \/ v3' = v3 /\ gone = Elements(q)
                 \/ v3' = v3 \cup {p} /\ gone = Elements(r) /\ q # <<>>
          PROVE  BeaconInv'
      <3>1. BeaconTypes'
        BY <1>2, <1>4, <1>7, <2>1, <2>2, <2>3, <2>4, <2>5 DEF BeaconTypes
      <3>2. LinesOf(v4)'
        BY <1>8, <2>1 DEF LinesOf, Good
      <3>3. /\ OnWay(v3') \cup OnLines(v4) \cup v5' = DOMAIN v1
            /\ OnWay(v3') \cap OnLines(v4) = {} /\ OnWay(v3') \cap v5' = {} /\ OnLines(v4) \cap v5' = {}
        BY <1>1, <1>4, <1>6, <2>5 DEF BeaconPlaces
      <3>5. /\ \A b \in v3' : Distinct(b)
            /\ \A b, c \in v3' : b # c => Elements(b) \cap Elements(c) = {}
        BY <1>4, <1>5, <1>6, <2>5
      <3>6. BeaconPlaces'
        <4>1. v4' = v4 /\ v1' = v1 /\ v2'.queue = <<>>
          BY <2>1, <2>2
        <4>2. /\ Elements(<<>>) \cup OnWay(v3') \cup OnLines(v4) \cup v5' = DOMAIN v1
              /\ Elements(<<>>) \cap OnWay(v3') = {} /\ Elements(<<>>) \cap OnLines(v4) = {}
              /\ Elements(<<>>) \cap v5' = {}
          BY <2>4, <3>3
        <4> QED BY <2>4, <3>2, <3>3, <3>5, <4>1, <4>2, PlacesBy
      <3>7. BeaconSpoils'
        BY <1>1, <2>1, <2>3 DEF BeaconSpoils, Spoiled
      <3>8. BeaconViews'
        <4>1. \A e \in DOMAIN v1 : v1[e].page # v2.page + 1 /\ v1[e].page \in 1 .. v2.page + 1
          BY <1>1, <1>3 DEF BeaconViews
        <4>2. v2.page + 1 >= 1
          BY <1>3
        <4> QED BY <1>1, <2>1, <2>2, <2>3, <4>1, <4>2 DEF BeaconViews
      <3> QED BY <3>1, <3>6, <3>7, <3>8 DEF BeaconInv
    <2>6. Beacon!Sent(v2) = IF q = <<>> THEN v3 ELSE v3 \cup {p}
      BY DEF Beacon!Sent, p
    <2>7. q = <<>> => Elements(r) = Elements(q)
      BY <1>4, <2>4
    <2> QED BY <2>1, <2>5, <2>6, <2>7
  <1> QED BY <1>9, <1>10

\* A batch leaves the way: some of its events are on lines, the others dropped.
LEMMA BeaconStores ==
  ASSUME BeaconInv, NEW b \in v3, NEW C \in SUBSET Elements(b), NEW W,
         v1' = v1, v2' = v2, v3' = v3 \ {b}, v4' = W, v5' = v5 \cup (Elements(b) \ C),
         v6' \in BeaconTally, v6'.now = v6.now,
         LinesOf(W), OnLines(W) = OnLines(v4) \cup C, Cardinality(Spoiled(W)) <= v6'.kills
  PROVE  BeaconInv'
  <1>1. BeaconTypes /\ BeaconPlaces /\ BeaconViews
    BY DEF BeaconInv
  <1>2. BeaconTypes'
    BY <1>1 DEF BeaconTypes
  <1>3. \A q, r \in v3 : q # r => Elements(q) \cap Elements(r) = {}
    BY <1>1 DEF BeaconPlaces
  <1>4. OnWay(v3 \ {b}) = OnWay(v3) \ Elements(b) /\ Elements(b) \subseteq OnWay(v3)
    BY <1>3, OneTaken
  <1> DEFINE Q == v2.queue
             G == v5 \cup (Elements(b) \ C)
             N == v3 \ {b}
  <1>5. LinesOf(v4)'
    BY DEF LinesOf, Good
  <1>6. /\ Distinct(Q) /\ (\A r \in N : Distinct(r))
        /\ \A q, r \in N : q # r => Elements(q) \cap Elements(r) = {}
    BY <1>1, <1>3 DEF BeaconPlaces
  <1>7. /\ Elements(Q) \cup OnWay(v3) \cup OnLines(v4) \cup v5 = DOMAIN v1
        /\ Elements(Q) \cap OnWay(v3) = {} /\ Elements(Q) \cap OnLines(v4) = {}
        /\ Elements(Q) \cap v5 = {} /\ OnWay(v3) \cap OnLines(v4) = {}
        /\ OnWay(v3) \cap v5 = {} /\ OnLines(v4) \cap v5 = {}
    BY <1>1 DEF BeaconPlaces
  <1>8. /\ Elements(Q) \cup OnWay(N) \cup OnLines(W) \cup G = DOMAIN v1
        /\ Elements(Q) \cap OnWay(N) = {} /\ Elements(Q) \cap OnLines(W) = {}
        /\ Elements(Q) \cap G = {} /\ OnWay(N) \cap OnLines(W) = {}
        /\ OnWay(N) \cap G = {} /\ OnLines(W) \cap G = {}
    BY <1>4, <1>7
  <1>9. v2'.queue = Q /\ v3' = N /\ v5' = G
    OBVIOUS
  <1> HIDE DEF Q, G, N
  <1>10. BeaconPlaces'
    BY <1>5, <1>6, <1>8, <1>9, PlacesBy
  <1>11. BeaconSpoils'
    BY DEF BeaconSpoils, Spoiled
  <1>12. BeaconViews'
    BY <1>1 DEF BeaconViews
  <1> QED BY <1>2, <1>10, <1>11, <1>12 DEF BeaconInv

\* The spoiled lines are finitely many.
LEMMA SpoiledCount ==
  ASSUME NEW L, LinesOf(L)
  PROVE  IsFiniteSet(Spoiled(L)) /\ Cardinality(Spoiled(L)) \in Nat
  <1>1. Len(L) \in Nat /\ DOMAIN L = 1 .. Len(L)
    BY DEF LinesOf
  <1>2. IsFiniteSet(1 .. Len(L))
    BY <1>1, FS_Interval
  <1>3. Spoiled(L) \in SUBSET (1 .. Len(L))
    BY <1>1 DEF Spoiled
  <1> QED BY <1>2, <1>3, FS_Subset, FS_CardinalityType

\* What the server makes of a batch: nothing, all of its good events, or some of them
\* and a line that is torn off.
LEMMA BeaconAnswers ==
  ASSUME BeaconInv, NEW b \in v3, Beacon!Lost(b) \/ Beacon!Post(b) \/ Beacon!KilledInWrite(b)
  PROVE  BeaconInv'
  <1>1. BeaconTypes /\ BeaconPlaces /\ BeaconSpoils
    BY DEF BeaconInv
  <1>2. b \in Seq(Nat) /\ v6 \in BeaconTally /\ Distinct(b) /\ LinesOf(v4)
    BY <1>1 DEF BeaconTypes, BeaconPlaces
  <1>3. Elements(b) \cap OnLines(v4) = {}
    <2>1. Elements(b) \subseteq OnWay(v3)
      BY DEF OnWay
    <2> QED BY <1>1, <2>1 DEF BeaconPlaces
  <1>4. Cardinality(Spoiled(v4)) <= v6.kills
    BY <1>1 DEF BeaconSpoils
  <1> DEFINE a == Beacon!Valid(b)
  <1>5. a \in Seq(Nat) /\ Distinct(a) /\ Elements(a) = {e \in Elements(b) : Good(e)}
    BY <1>2, ValidKept
  <1> HIDE DEF a
  <1>6. ASSUME NEW s \in Seq(Nat), Distinct(s), Elements(s) \subseteq Elements(a)
        PROVE  LET W == Beacon!Written(s)
               IN  /\ LinesOf(W) /\ OnLines(W) = OnLines(v4) \cup Elements(s)
                   /\ Spoiled(W) = Spoiled(v4) /\ (s # <<>> => W # <<>>)
    <2>1. Elements(s) \cap OnLines(v4) = {} /\ \A e \in Elements(s) : Good(e)
      BY <1>3, <1>5, <1>6
    <2> QED BY <1>2, <1>6, <2>1, WrittenLines
  <1>7. CASE Beacon!Lost(b)
    <2>1. /\ v6' = [v6 EXCEPT !.lost = @ + 1] /\ v3' = v3 \ {b} /\ v5' = v5 \cup (Elements(b) \ {})
          /\ UNCHANGED <<v1, v2, v4>>
      BY <1>7, SameBeaconSet DEF Beacon!Lost, Beacon!Spend
    <2>2. v6' \in BeaconTally /\ v6'.now = v6.now /\ v6'.kills = v6.kills
      BY <1>2, <2>1 DEF BeaconTally
    <2>3. OnLines(v4) = OnLines(v4) \cup {} /\ {} \in SUBSET Elements(b)
      OBVIOUS
    <2>4. Cardinality(Spoiled(v4)) <= v6'.kills
      BY <1>4, <2>2
    <2> QED BY <1>2, <2>1, <2>2, <2>3, <2>4, BeaconStores
  <1>8. CASE Beacon!Post(b)
    <2> DEFINE s == IF Len(b) > MaxBatch THEN <<>> ELSE a
               W == Beacon!Written(s)
    <2>1. /\ v3' = v3 \ {b} /\ v4' = W /\ v5' = v5 \cup (Elements(b) \ Elements(s))
          /\ UNCHANGED <<v1, v2, v6>>
      BY <1>8, SameBeaconSet DEF Beacon!Post, a
    <2>2. s \in Seq(Nat) /\ Distinct(s) /\ Elements(s) \subseteq Elements(a)
      <3>1. <<>> \in Seq(Nat) /\ Distinct(<<>>) /\ Elements(<<>>) = {}
        BY DEF Distinct, Elements
      <3> QED BY <1>5, <3>1
    <2> HIDE DEF s
    <2>3. /\ LinesOf(W) /\ OnLines(W) = OnLines(v4) \cup Elements(s)
          /\ Spoiled(W) = Spoiled(v4)
      BY <1>6, <2>2
    <2>4. Elements(s) \in SUBSET Elements(b)
      BY <1>5, <2>2
    <2> HIDE DEF W
    <2>5. Cardinality(Spoiled(W)) <= v6'.kills
      BY <1>4, <2>1, <2>3
    <2>6. v6' \in BeaconTally /\ v6'.now = v6.now
      BY <1>2, <2>1
    <2> QED BY <2>1, <2>3, <2>4, <2>5, <2>6, BeaconStores
  <1>9. CASE Beacon!KilledInWrite(b)
    <2> DEFINE Part(n) == SubSeq(a, 1, n)
               Whole(n) == Beacon!Written(Part(n + 1))
               Torn(n, parses) ==
                 [Whole(n) EXCEPT ![Len(Whole(n))].ended = FALSE,
                                  ![Len(Whole(n))].parses = parses /\ @]
    <2>1. /\ a # <<>> /\ v3' = v3 \ {b} /\ v6' = [v6 EXCEPT !.kills = @ + 1]
          /\ UNCHANGED <<v1, v2>>
      BY <1>9 DEF Beacon!KilledInWrite, Beacon!Spend, a
    <2>2. \/ v4' = v4 /\ v5' = v5 \cup (Elements(b) \ {})
          \/ \E n \in 0 .. (Len(a) - 1) :
               \/ /\ v4' = Beacon!Written(Part(n))
                  /\ v5' = v5 \cup (Elements(b) \ Elements(Part(n)))
               \/ /\ \E parses \in BOOLEAN : v4' = Torn(n, parses)
                  /\ v5' = v5 \cup (Elements(b) \ Elements(Part(n + 1)))
      <3> HIDE DEF Torn
      <3>1. \/ v4' = v4 /\ v5' = v5 \cup Beacon!Range(b)
            \/ \E n \in 0 .. (Len(a) - 1) :
                 \/ /\ v4' = Beacon!Written(Part(n))
                    /\ v5' = v5 \cup (Beacon!Range(b) \ Beacon!Range(Part(n)))
                 \/ /\ \E parses \in BOOLEAN : v4' = Torn(n, parses)
                    /\ v5' = v5 \cup (Beacon!Range(b) \ Beacon!Range(Part(n + 1)))
        BY <1>9 DEF Beacon!KilledInWrite, a, Torn
      <3> HIDE DEF Part, Whole
      <3> QED BY <3>1, SameBeaconSet
    <2>3. /\ v6' \in BeaconTally /\ v6'.now = v6.now /\ v6'.kills = v6.kills + 1 /\ v6.kills \in Nat
      BY <1>2, <2>1 DEF BeaconTally
    <2>4. ASSUME NEW n \in 0 .. Len(a)
          PROVE  /\ Part(n) \in Seq(Nat) /\ Distinct(Part(n))
                 /\ Elements(Part(n)) \subseteq Elements(a) /\ Len(Part(n)) = n
      <3> DEFINE p == SubSeq(a, 1, n)
                 r == SubSeq(a, n + 1, Len(a))
      <3>1. /\ p \in Seq(Nat) /\ Len(p) = n /\ Elements(p) \cup Elements(r) = Elements(a)
            /\ Distinct(a) => Distinct(p)
        BY <1>5, TwoParts
      <3>2. Part(n) = p
        OBVIOUS
      <3> HIDE DEF p, r, Part
      <3> QED BY <1>5, <3>1, <3>2
    <2>5. Len(a) \in Nat /\ Elements(a) \subseteq Elements(b)
      BY <1>5
    <2>6. Cardinality(Spoiled(v4)) \in Nat /\ IsFiniteSet(Spoiled(v4))
      BY <1>2, SpoiledCount
    <2> HIDE DEF Part
    <2>7. CASE v4' = v4 /\ v5' = v5 \cup (Elements(b) \ {})
      <3>1. OnLines(v4) = OnLines(v4) \cup {} /\ {} \in SUBSET Elements(b)
        OBVIOUS
      <3>2. Cardinality(Spoiled(v4)) <= v6'.kills
        BY <1>4, <2>3, <2>6
      <3> QED BY <1>2, <2>1, <2>3, <2>7, <3>1, <3>2, BeaconStores
    <2>8. ASSUME NEW n \in 0 .. (Len(a) - 1), v4' = Beacon!Written(Part(n)),
                 v5' = v5 \cup (Elements(b) \ Elements(Part(n)))
          PROVE  BeaconInv'
      <3> DEFINE W == Beacon!Written(Part(n))
      <3>1. n \in 0 .. Len(a)
        BY <2>5
      <3>2. /\ Part(n) \in Seq(Nat) /\ Distinct(Part(n)) /\ Elements(Part(n)) \subseteq Elements(a)
        BY <2>4, <3>1
      <3>3. /\ LinesOf(W) /\ OnLines(W) = OnLines(v4) \cup Elements(Part(n))
            /\ Spoiled(W) = Spoiled(v4)
        BY <1>6, <3>2
      <3>4. v4' = W
        BY <2>8
      <3> HIDE DEF W
      <3>5. Cardinality(Spoiled(W)) <= v6'.kills
        BY <1>4, <2>3, <2>6, <3>3
      <3>6. Elements(Part(n)) \in SUBSET Elements(b)
        BY <2>5, <3>2
      <3> QED BY <2>1, <2>3, <2>8, <3>3, <3>4, <3>5, <3>6, BeaconStores
    <2>9. ASSUME NEW n \in 0 .. (Len(a) - 1), NEW parses \in BOOLEAN, v4' = Torn(n, parses),
                 v5' = v5 \cup (Elements(b) \ Elements(Part(n + 1)))
          PROVE  BeaconInv'
      <3> DEFINE W == Whole(n)
                 T == Torn(n, parses)
      <3>1. n + 1 \in 0 .. Len(a) /\ n + 1 # 0
        BY <2>5
      <3>2. /\ Part(n + 1) \in Seq(Nat) /\ Distinct(Part(n + 1))
            /\ Elements(Part(n + 1)) \subseteq Elements(a) /\ Len(Part(n + 1)) = n + 1
        BY <2>4, <3>1
      <3>3. Part(n + 1) # <<>>
        BY <3>1, <3>2, EmptySeq
      <3>4. /\ LinesOf(W) /\ OnLines(W) = OnLines(v4) \cup Elements(Part(n + 1))
            /\ Spoiled(W) = Spoiled(v4) /\ W # <<>>
        BY <1>6, <3>2, <3>3
      <3>5. T = [W EXCEPT ![Len(W)].ended = FALSE, ![Len(W)].parses = parses /\ @]
        OBVIOUS
      <3>6. v4' = T
        BY <2>9
      <3> HIDE DEF W, T, Torn
      <3>7. LinesOf(T) /\ OnLines(T) = OnLines(W) /\ Spoiled(T) \subseteq Spoiled(W) \cup {Len(W)}
        BY <3>4, <3>5, TornLines
      <3>8. Cardinality(Spoiled(T)) <= v6'.kills
        <4>1. /\ IsFiniteSet(Spoiled(v4) \cup {Len(W)})
              /\ Cardinality(Spoiled(v4) \cup {Len(W)}) <= Cardinality(Spoiled(v4)) + 1
          <5> DEFINE S == Spoiled(v4)
                     x == Len(W)
          <5>1. IsFiniteSet(S) /\ Cardinality(S) \in Nat
            BY <2>6
          <5> HIDE DEF S, x
          <5>2. /\ IsFiniteSet(S \cup {x})
                /\ Cardinality(S \cup {x}) = IF x \in S THEN Cardinality(S) ELSE Cardinality(S) + 1
            BY <5>1, FS_AddElement
          <5>3. Cardinality(S \cup {x}) <= Cardinality(S) + 1
            BY <5>1, <5>2
          <5> QED BY <5>2, <5>3 DEF S, x
        <4>2. /\ Cardinality(Spoiled(T)) <= Cardinality(Spoiled(v4) \cup {Len(W)})
              /\ Cardinality(Spoiled(T)) \in Nat /\ Cardinality(Spoiled(v4) \cup {Len(W)}) \in Nat
          <5>1. Spoiled(T) \in SUBSET (Spoiled(v4) \cup {Len(W)})
            BY <3>4, <3>7
          <5> QED BY <3>7, <4>1, <5>1, FS_Subset, FS_CardinalityType, SpoiledCount
        <4> QED BY <1>4, <2>3, <2>6, <4>1, <4>2
      <3>9. Elements(Part(n + 1)) \in SUBSET Elements(b) /\ OnLines(T) = OnLines(v4) \cup Elements(Part(n + 1))
        BY <2>5, <3>2, <3>4, <3>7
      <3> QED BY <2>1, <2>3, <2>9, <3>6, <3>7, <3>8, <3>9, BeaconStores
    <2> HIDE DEF Torn
    <2> QED BY <2>2, <2>7, <2>8, <2>9
  <1> QED BY <1>7, <1>8, <1>9

\* An event is made and queued, and the outbox flushed if it is long enough.
LEMMA TrackKept ==
  ASSUME BeaconInv, NEW t \in BeaconTab, t.queue = v2.queue, t.page = v2.page,
         \A s \in Surfaces : t.lastView[s] >= v2.lastView[s],
         NEW surface \in Surfaces \cup {"none"}, NEW class \in BeaconKinds,
         surface \in Surfaces =>
           t.lastView[surface] = v6.now /\ v6.now - v2.lastView[surface] >= Window,
         Beacon!Track(t, surface, class)
  PROVE  BeaconInv'
  <1>1. BeaconTypes /\ BeaconPlaces /\ BeaconSpoils /\ BeaconViews
    BY DEF BeaconInv
  <1>2. /\ v1 \in Seq(BeaconEvent) /\ v2 \in BeaconTab /\ v3 \subseteq Seq(Nat)
        /\ v6 \in BeaconTally /\ Len(v2.queue) < FlushAt /\ \A b \in v3 : Len(b) \in 1 .. MaxBatch
    BY <1>1 DEF BeaconTypes
  <1> DEFINE q == v2.queue
             n == Len(v1) + 1
             entry == [page |-> t.page, surface |-> surface, class |-> class, at |-> v6.now]
             Q == Append(q, n)
             queued == [t EXCEPT !.queue = Append(@, n)]
             full == Len(Q) >= FlushAt
             p == Beacon!Batch(Q)
             r == Beacon!Rest(Q)
  <1>3. /\ q \in Seq(Nat) /\ Len(q) \in Nat /\ v2.page \in Nat /\ t.lastView \in [Surfaces -> Int]
        /\ v2.lastView \in [Surfaces -> Int] /\ v6.now \in Nat /\ Len(v1) \in Nat /\ n \in Nat
        /\ DOMAIN v1 = 1 .. Len(v1)
    BY <1>2 DEF BeaconTab, BeaconTally
  <1>4. entry \in BeaconEvent
    BY <1>3 DEF BeaconEvent
  <1>5. /\ v1' = Append(v1, entry) /\ v4' = v4 /\ v5' = v5 /\ v6' = v6
        /\ v2' = IF Len(queued.queue) >= FlushAt THEN [queued EXCEPT !.queue = Beacon!Rest(@)] ELSE queued
        /\ v3' = IF Len(queued.queue) >= FlushAt THEN Beacon!Sent(queued) ELSE v3
    BY DEF Beacon!Track, Beacon!Flushed
  <1>6. /\ queued.queue = Q /\ queued.page = v2.page /\ queued.lastView = t.lastView
        /\ queued \in BeaconTab
    <2>1. t.queue \in Seq(Nat) /\ Append(t.queue, n) \in Seq(Nat) /\ Append(t.queue, n) = Q
      BY <1>3, AppendProperties
    <2> HIDE DEF n, Q
    <2>2. queued = [t EXCEPT !.queue = Q]
      BY <2>1 DEF BeaconTab
    <2>3. Q \in Seq(Nat)
      BY <2>1
    <2> HIDE DEF queued
    <2> QED BY <2>2, <2>3 DEF BeaconTab
  <1>7. /\ Q \in Seq(Nat) /\ Len(Q) = Len(q) + 1 /\ Elements(Q) = Elements(q) \cup {n}
        /\ Distinct(Q)
    <2>1. Elements(q) \subseteq DOMAIN v1 /\ Distinct(q) /\ n \notin DOMAIN v1
      BY <1>1, <1>3 DEF BeaconPlaces
    <2> HIDE DEF n
    <2> QED BY <1>3, <2>1, OneMore
  <1>8. /\ v1' \in Seq(BeaconEvent) /\ DOMAIN v1' = DOMAIN v1 \cup {n} /\ v1'[n] = entry
        /\ \A i \in DOMAIN v1 : v1'[i] = v1[i]
    BY <1>2, <1>3, <1>4, <1>5, AppendProperties
  <1> HIDE DEF entry, queued, Q
  <1>9. /\ p \in Seq(Nat) /\ r \in Seq(Nat) /\ Distinct(p) /\ Distinct(r)
        /\ Elements(p) \cup Elements(r) = Elements(Q) /\ Elements(p) \cap Elements(r) = {}
        /\ Len(p) \in 1 .. MaxBatch /\ Len(r) < Len(Q)
    <2>1. Q # <<>>
      BY <1>3, <1>7, EmptySeq
    <2> QED BY <1>7, <2>1, BatchParts
  <1> HIDE DEF p, r
  <1>10. /\ v2' \in BeaconTab /\ v2'.page = v2.page /\ v2'.lastView = t.lastView
         /\ v2'.queue = IF full THEN r ELSE Q
    <2>1. v2' = IF full THEN [queued EXCEPT !.queue = r] ELSE queued
      BY <1>5, <1>6 DEF r
    <2> HIDE DEF full
    <2> QED BY <1>6, <1>9, <2>1 DEF BeaconTab
  <1>11. v3' = IF full THEN v3 \cup {p} ELSE v3
    <2>1. Q # <<>>
      BY <1>3, <1>7, EmptySeq
    <2> QED BY <1>5, <1>6, <2>1 DEF Beacon!Sent, p
  <1>12. BeaconTypes'
    <2>1. FlushAt \in Nat \ {0} /\ MaxBatch \in Nat \ {0}
      BY BeaconConstants
    <2>2. Len(v2'.queue) < FlushAt
      BY SMTT(30), <1>2, <1>3, <1>7, <1>9, <1>10, <2>1
    <2>3. v3' \subseteq Seq(Nat) /\ \A b \in v3' : Len(b) \in 1 .. MaxBatch
      BY <1>2, <1>9, <1>11
    <2> QED BY <1>2, <1>5, <1>8, <1>10, <2>2, <2>3 DEF BeaconTypes
  <1>13. /\ Elements(q) \cup OnWay(v3) \cup OnLines(v4) \cup v5 = DOMAIN v1
         /\ Elements(q) \cap OnWay(v3) = {} /\ Elements(q) \cap OnLines(v4) = {}
         /\ Elements(q) \cap v5 = {} /\ OnWay(v3) \cap OnLines(v4) = {}
         /\ OnWay(v3) \cap v5 = {} /\ OnLines(v4) \cap v5 = {} /\ n \notin DOMAIN v1
         /\ LinesOf(v4) /\ (\A b \in v3 : Distinct(b))
         /\ \A b, c \in v3 : b # c => Elements(b) \cap Elements(c) = {}
    BY <1>1, <1>3 DEF BeaconPlaces
  <1>14. LinesOf(v4)'
    <2>1. \A i \in DOMAIN v4 : v4[i].events \subseteq DOMAIN v1
      BY <1>13 DEF OnLines
    <2>2. \A e \in DOMAIN v1 : Good(e)' = Good(e)
      BY <1>8 DEF Good
    <2>3. v4' = v4
      BY <1>5
    <2>4. \A i \in DOMAIN v4 : \A e \in v4[i].events : Good(e)' = Good(e)
      BY <2>1, <2>2
    <2> QED BY <1>13, <2>3, <2>4 DEF LinesOf
  <1> HIDE DEF n
  <1>15. BeaconPlaces'
    <2>1. CASE ~full
      <3>1. v2'.queue = Q /\ v3' = v3
        BY <1>10, <1>11, <2>1
      <3>2. /\ Elements(Q) \cup OnWay(v3) \cup OnLines(v4) \cup v5 = DOMAIN v1'
            /\ Elements(Q) \cap OnWay(v3) = {} /\ Elements(Q) \cap OnLines(v4) = {}
            /\ Elements(Q) \cap v5 = {}
        BY <1>7, <1>8, <1>13
      <3> QED BY <1>5, <1>7, <1>13, <1>14, <3>1, <3>2, PlacesBy
    <2>2. CASE full
      <3> DEFINE N == v3 \cup {p}
      <3>1. v2'.queue = r /\ v3' = N
        BY <1>10, <1>11, <2>2
      <3>2. /\ OnWay(N) = OnWay(v3) \cup Elements(p)
            /\ \A b, c \in N : b # c => Elements(b) \cap Elements(c) = {}
        <4>1. Elements(p) \cap OnWay(v3) = {}
          BY <1>7, <1>9, <1>13
        <4> QED BY <1>13, <4>1, OneSent
      <3>3. \A b \in N : Distinct(b)
        BY <1>9, <1>13
      <3> HIDE DEF N
      <3>4. /\ Elements(r) \cup OnWay(N) \cup OnLines(v4) \cup v5 = DOMAIN v1'
            /\ Elements(r) \cap OnWay(N) = {} /\ Elements(r) \cap OnLines(v4) = {}
            /\ Elements(r) \cap v5 = {} /\ OnWay(N) \cap OnLines(v4) = {}
            /\ OnWay(N) \cap v5 = {} /\ OnLines(v4) \cap v5 = {}
        BY <1>7, <1>8, <1>9, <1>13, <3>2
      <3> QED BY <1>5, <1>9, <1>14, <3>1, <3>2, <3>3, <3>4, PlacesBy
    <2> QED BY <2>1, <2>2
  <1>16. BeaconSpoils'
    BY <1>1, <1>5 DEF BeaconSpoils, Spoiled
  <1>17. BeaconViews'
    <2>1. /\ entry.page = v2.page /\ entry.surface = surface /\ entry.at = v6.now
      BY DEF entry
    <2>2. v2.page >= 1 /\ \A e \in DOMAIN v1 : v1[e].page \in 1 .. v2.page /\ v1[e].at <= v6.now
      BY <1>1 DEF BeaconViews
    <2>3. \A e \in DOMAIN v1' : v1'[e].page \in 1 .. v2.page /\ v1'[e].at <= v6.now
      BY <1>3, <1>8, <2>1, <2>2
    <2>4. \A e \in DOMAIN v1 : v1[e].page = v2.page /\ v1[e].surface \in Surfaces =>
            v1[e].at <= v2.lastView[v1[e].surface]
      BY <1>1 DEF BeaconViews
    <2>5. \A e \in DOMAIN v1 : v1[e].at \in Nat /\ v1[e] \in BeaconEvent
      <3>1. \A e \in DOMAIN v1 : v1[e] \in BeaconEvent
        BY <1>2, <1>3
      <3> QED BY <3>1 DEF BeaconEvent
    <2>6. ASSUME NEW e \in DOMAIN v1', v1'[e].page = v2.page, v1'[e].surface \in Surfaces
          PROVE  v1'[e].at <= t.lastView[v1'[e].surface]
      <3>1. CASE e \in DOMAIN v1
        <4> DEFINE s == v1[e].surface
        <4>1. v1'[e] = v1[e] /\ s \in Surfaces /\ v1[e].at <= v2.lastView[s]
          BY <1>8, <2>4, <2>6, <3>1
        <4>2. v1[e].at \in Nat
          BY <2>5, <3>1
        <4>3. t.lastView[s] >= v2.lastView[s] /\ t.lastView[s] \in Int /\ v2.lastView[s] \in Int
          BY <1>3, <4>1
        <4> HIDE DEF s
        <4>4. v1[e].at <= t.lastView[s]
          BY <4>1, <4>2, <4>3
        <4> QED BY <4>1, <4>4 DEF s
      <3>2. CASE e = n
        BY <1>3, <1>8, <2>1, <2>6, <3>2
      <3> QED BY <1>8, <3>1, <3>2
    <2>7. ASSUME NEW e \in DOMAIN v1', NEW f \in DOMAIN v1', e < f, v1'[e].page = v1'[f].page,
                 v1'[e].surface = v1'[f].surface, v1'[e].surface \in Surfaces
          PROVE  v1'[f].at - v1'[e].at >= Window
      <3>1. e \in DOMAIN v1
        BY <1>3, <1>8, <2>7 DEF n
      <3>2. CASE f \in DOMAIN v1
        <4>1. v1'[e] = v1[e] /\ v1'[f] = v1[f]
          BY <1>8, <3>1, <3>2
        <4> QED BY <1>1, <2>7, <3>1, <3>2, <4>1 DEF BeaconViews
      <3>3. CASE f = n
        <4>1. v1'[e] = v1[e] /\ v1'[f] = entry
          BY <1>8, <3>1, <3>3
        <4>2. v1[e].page = v2.page /\ v1[e].surface = surface /\ surface \in Surfaces
          BY <2>1, <2>7, <4>1
        <4>3. v1[e].at <= v2.lastView[surface] /\ v1[e].at \in Nat /\ v2.lastView[surface] \in Int
          BY <1>3, <2>4, <2>5, <3>1, <4>2
        <4>4. v6.now - v2.lastView[surface] >= Window /\ Window \in Nat
          BY <4>2, BeaconConstants
        <4>5. v6.now - v1[e].at >= Window
          BY <1>3, <4>3, <4>4
        <4> QED BY <2>1, <4>1, <4>5
      <3> QED BY <1>8, <3>2, <3>3
    <2>8. v2'.page = v2.page /\ v2'.lastView = t.lastView /\ v6' = v6
      BY <1>5, <1>10
    <2> HIDE DEF entry
    <2> QED BY <2>2, <2>3, <2>6, <2>7, <2>8 DEF BeaconViews
  <1> QED BY <1>12, <1>15, <1>16, <1>17 DEF BeaconInv

\* A view, a click, the clock.
LEMMA BeaconMakes ==
  ASSUME BeaconInv, (\E s \in Surfaces : Beacon!Mount(s)) \/ Beacon!Click \/ Beacon!Tick
  PROVE  BeaconInv'
  <1>1. v2 \in BeaconTab /\ v6 \in BeaconTally
    BY DEF BeaconInv, BeaconTypes
  <1>2. v2.lastView \in [Surfaces -> Int] /\ v6.now \in Nat
    BY <1>1 DEF BeaconTab, BeaconTally
  <1>3. ASSUME NEW s \in Surfaces, Beacon!Mount(s)
        PROVE  BeaconInv'
    <2> DEFINE t == [v2 EXCEPT !.lastView[s] = v6.now]
    <2>1. v6.now - v2.lastView[s] >= Window /\ Beacon!Track(t, s, "good")
      BY <1>3 DEF Beacon!Mount
    <2>2. t \in BeaconTab
      <3> DEFINE l == [v2.lastView EXCEPT ![s] = v6.now]
      <3>1. l \in [Surfaces -> Int] /\ t = [v2 EXCEPT !.lastView = l]
        BY <1>1, <1>2 DEF BeaconTab
      <3> HIDE DEF l, t
      <3> QED BY <1>1, <3>1 DEF BeaconTab
    <2>3. t.queue = v2.queue /\ t.page = v2.page /\ t.lastView = [v2.lastView EXCEPT ![s] = v6.now]
      BY <1>1 DEF BeaconTab
    <2> HIDE DEF t
    <2>4. Window \in Nat
      BY BeaconConstants
    <2>5. t.lastView[s] = v6.now /\ \A x \in Surfaces : t.lastView[x] >= v2.lastView[x]
      <3>1. v2.lastView[s] \in Int /\ v6.now >= v2.lastView[s]
        BY <1>2, <2>1, <2>4
      <3>2. \A x \in Surfaces : v2.lastView[x] \in Int
        BY <1>2
      <3> QED BY <1>2, <2>3, <3>1, <3>2
    <2>6. "good" \in BeaconKinds /\ s \in Surfaces \cup {"none"}
      BY DEF BeaconKinds
    <2> QED BY <2>1, <2>2, <2>3, <2>5, <2>6, TrackKept
  <1>4. CASE Beacon!Click
    <2>1. PICK class \in BeaconKinds : Beacon!Track(v2, "none", class)
      BY <1>4 DEF Beacon!Click, BeaconKinds
    <2>2. "none" \in Surfaces \cup {"none"} /\ "none" \notin Surfaces
      BY BeaconConstants
    <2>3. \A s \in Surfaces : v2.lastView[s] >= v2.lastView[s]
      BY <1>2
    <2> QED BY <1>1, <2>1, <2>2, <2>3, TrackKept
  <1>5. CASE Beacon!Tick
    <2>1. v6' = [v6 EXCEPT !.now = @ + 1] /\ UNCHANGED <<v1, v2, v3, v4, v5>>
      BY <1>5 DEF Beacon!Tick, Beacon!Spend
    <2>2. v6' \in BeaconTally /\ v6'.kills = v6.kills /\ v6'.now = v6.now + 1
      BY <1>1, <2>1 DEF BeaconTally
    <2>3. BeaconTypes'
      BY <2>1, <2>2 DEF BeaconInv, BeaconTypes
    <2>4. BeaconPlaces' /\ BeaconSpoils'
      BY <2>1, <2>2 DEF BeaconInv, BeaconPlaces, BeaconSpoils, LinesOf, Good
    <2>5. BeaconViews'
      <3>1. BeaconViews /\ \A e \in DOMAIN v1 : v1[e].at \in Nat
        <4>1. \A e \in DOMAIN v1 : v1[e] \in BeaconEvent
          BY DEF BeaconInv, BeaconTypes
        <4> QED BY <4>1 DEF BeaconInv, BeaconEvent
      <3>2. \A e \in DOMAIN v1 : v1[e].at <= v6.now + 1
        BY <1>2, <3>1 DEF BeaconViews
      <3> QED BY <2>1, <2>2, <3>1, <3>2 DEF BeaconViews
    <2> QED BY <2>3, <2>4, <2>5 DEF BeaconInv
  <1> QED BY <1>3, <1>4, <1>5

LEMMA BeaconStep ==
  ASSUME BeaconInv, Beacon!BeaconNext
  PROVE  BeaconInv'
  BY BeaconMakes, BeaconLeaves, BeaconAnswers DEF Beacon!BeaconNext

\* A set whose members are all the same has one of them, or none.
LEMMA OneOrNone ==
  ASSUME NEW S, \A x, y \in S : x = y
  PROVE  Cardinality(S) = IF S = {} THEN 0 ELSE 1
  <1>1. CASE S = {}
    BY <1>1, FS_EmptySet
  <1>2. CASE S # {}
    <2>1. PICK x \in S : TRUE
      BY <1>2
    <2>2. S = {x}
      BY <2>1
    <2> QED BY <1>2, <2>2, FS_Singleton
  <1> QED BY <1>1, <1>2

LEMMA SameBeaconCount == \A S : Beacon!Cardinality(S) = Cardinality(S)
  BY DEF Beacon!Cardinality, Cardinality

\* Every event is in one of the four places, and there once.
LEMMA BeaconAccounts ==
  ASSUME BeaconInv
  PROVE  Beacon!EventsAccounted
  <1>1. BeaconPlaces
    BY DEF BeaconInv
  <1>2. SUFFICES ASSUME NEW e \in DOMAIN v1
                 PROVE  Cardinality({k \in DOMAIN v2.queue : v2.queue[k] = e})
                          + Cardinality({b \in v3 : e \in Elements(b)})
                          + Cardinality({k \in DOMAIN v4 : e \in v4[k].events})
                          + (IF e \in v5 THEN 1 ELSE 0) = 1
    BY SameBeaconCount, SameBeaconSet DEF Beacon!EventsAccounted
  <1> DEFINE A == {k \in DOMAIN v2.queue : v2.queue[k] = e}
             B == {b \in v3 : e \in Elements(b)}
             C == {k \in DOMAIN v4 : e \in v4[k].events}
  <1>3. Cardinality(A) = IF e \in Elements(v2.queue) THEN 1 ELSE 0
    <2>1. \A x, y \in A : x = y
      BY <1>1 DEF BeaconPlaces, Distinct
    <2>2. A = {} <=> e \notin Elements(v2.queue)
      BY DEF Elements
    <2> HIDE DEF A
    <2> QED BY <2>1, <2>2, OneOrNone
  <1>4. Cardinality(B) = IF e \in OnWay(v3) THEN 1 ELSE 0
    <2>1. \A x, y \in B : x = y
      BY <1>1 DEF BeaconPlaces
    <2>2. B = {} <=> e \notin OnWay(v3)
      BY DEF OnWay
    <2> HIDE DEF B
    <2> QED BY <2>1, <2>2, OneOrNone
  <1>5. Cardinality(C) = IF e \in OnLines(v4) THEN 1 ELSE 0
    <2>1. \A x, y \in C : x = y
      BY <1>1 DEF BeaconPlaces, LinesOf
    <2>2. C = {} <=> e \notin OnLines(v4)
      BY DEF OnLines
    <2> HIDE DEF C
    <2> QED BY <2>1, <2>2, OneOrNone
  <1>6. /\ e \in Elements(v2.queue) \/ e \in OnWay(v3) \/ e \in OnLines(v4) \/ e \in v5
        /\ ~(e \in Elements(v2.queue) /\ e \in OnWay(v3))
        /\ ~(e \in Elements(v2.queue) /\ e \in OnLines(v4)) /\ ~(e \in Elements(v2.queue) /\ e \in v5)
        /\ ~(e \in OnWay(v3) /\ e \in OnLines(v4)) /\ ~(e \in OnWay(v3) /\ e \in v5)
        /\ ~(e \in OnLines(v4) /\ e \in v5)
    BY <1>1 DEF BeaconPlaces
  <1> HIDE DEF A, B, C
  <1>7. Cardinality(A) + Cardinality(B) + Cardinality(C) + (IF e \in v5 THEN 1 ELSE 0) = 1
    BY <1>3, <1>4, <1>5, <1>6
  <1> QED BY <1>7 DEF A, B, C

\* Times a window apart are of different windows.
LEMMA WindowsApart ==
  ASSUME NEW a \in Nat, NEW b \in Nat, NEW W \in Nat \ {0}
  PROVE  /\ a \div W \in Nat
         /\ b >= a => b \div W >= a \div W
         /\ b - a >= W => b \div W > a \div W
  OBVIOUS

\* What the summary counts of a surface: at most a view per page and window.
LEMMA ViewsBounded ==
  ASSUME BeaconInv, NEW s \in Surfaces
  PROVE  Cardinality({k \in DOMAIN v4 : v4[k].parses /\ \E e \in v4[k].events : v1[e].surface = s})
           <= v2.page * (1 + v6.now \div Window)
  <1> DEFINE V == {k \in DOMAIN v4 : v4[k].parses /\ \E e \in v4[k].events : v1[e].surface = s}
             ev == [k \in V |-> CHOOSE e \in v4[k].events : v1[e].surface = s]
             P == 1 .. v2.page
             D == 0 .. (v6.now \div Window)
             f == [k \in V |-> <<v1[ev[k]].page, v1[ev[k]].at \div Window>>]
  <1>1. BeaconTypes /\ BeaconPlaces /\ BeaconViews
    BY DEF BeaconInv
  <1>2. v2.page \in Nat /\ v6.now \in Nat /\ Window \in Nat \ {0}
    <2>1. v2 \in BeaconTab /\ v6 \in BeaconTally
      BY <1>1 DEF BeaconTypes
    <2> QED BY <2>1, BeaconConstants DEF BeaconTab, BeaconTally
  <1>3. v6.now \div Window \in Nat
    BY <1>2, WindowsApart
  <1>4. ASSUME NEW k \in V
        PROVE  /\ ev[k] \in v4[k].events /\ ev[k] \in DOMAIN v1 /\ v1[ev[k]].surface = s
               /\ v1[ev[k]].page \in P /\ v1[ev[k]].at \in Nat /\ v1[ev[k]].at <= v6.now
    <2>1. ev[k] \in v4[k].events /\ v1[ev[k]].surface = s
      OBVIOUS
    <2>2. v4[k].events \subseteq DOMAIN v1
      BY <1>1 DEF BeaconPlaces, OnLines
    <2>3. ev[k] \in DOMAIN v1
      BY <2>1, <2>2
    <2> HIDE DEF ev
    <2>4. v1[ev[k]] \in BeaconEvent
      BY <1>1, <2>3 DEF BeaconTypes
    <2>5. v1[ev[k]].at \in Nat
      BY <2>4 DEF BeaconEvent
    <2> QED BY <1>1, <2>1, <2>3, <2>5 DEF BeaconViews
  <1>5. f \in [V -> P \X D]
    <2>1. ASSUME NEW k \in V PROVE v1[ev[k]].at \div Window \in D
      <3>1. v1[ev[k]].at \in Nat /\ v1[ev[k]].at <= v6.now
        BY <1>4
      <3> DEFINE a == v1[ev[k]].at
      <3> HIDE DEF ev, V, a
      <3>2. a \div Window \in Nat /\ v6.now \div Window >= a \div Window
        BY <1>2, <3>1, WindowsApart DEF a
      <3> QED BY SMTT(30), <1>3, <3>2 DEF a
    <2> HIDE DEF ev, V, P, D
    <2> QED BY <1>4, <2>1
  <1>6. ASSUME NEW j \in V, NEW k \in V, f[j] = f[k]
        PROVE  j = k
    <2> DEFINE x == ev[j]
               y == ev[k]
    <2>1. v1[x].page = v1[y].page /\ v1[x].at \div Window = v1[y].at \div Window
      <3> HIDE DEF ev, V
      <3> QED BY SMTT(30), <1>6
    <2>2. /\ x \in v4[j].events /\ x \in DOMAIN v1 /\ v1[x].surface = s /\ v1[x].at \in Nat
          /\ y \in v4[k].events /\ y \in DOMAIN v1 /\ v1[y].surface = s /\ v1[y].at \in Nat
      BY <1>4
    <2>3. j \in DOMAIN v4 /\ k \in DOMAIN v4
      OBVIOUS
    <2> HIDE DEF ev, V, f, x, y
    <2>4. ASSUME NEW a \in DOMAIN v1, NEW b \in DOMAIN v1, v1[a].page = v1[b].page,
                 v1[a].surface = s, v1[b].surface = s, v1[a].at \in Nat, v1[b].at \in Nat, a < b
          PROVE  v1[a].at \div Window # v1[b].at \div Window
      <3>1. v1[b].at - v1[a].at >= Window
        BY <1>1, <2>4 DEF BeaconViews
      <3> DEFINE t == v1[a].at
                 u == v1[b].at
      <3>2. t \in Nat /\ u \in Nat /\ u - t >= Window
        BY <2>4, <3>1
      <3> HIDE DEF t, u
      <3>3. u \div Window > t \div Window /\ t \div Window \in Nat /\ u \div Window \in Nat
        BY <1>2, <3>2, WindowsApart
      <3>4. t \div Window # u \div Window
        BY <3>3
      <3> QED BY <3>4 DEF t, u
    <2>5. x = y
      <3>1. x \in Nat /\ y \in Nat
        BY <1>1, <2>2 DEF BeaconTypes
      <3>2. ~(x < y) /\ ~(y < x)
        BY <2>1, <2>2, <2>4
      <3> QED BY <3>1, <3>2
    <2>6. v4[j].events \cap v4[k].events # {}
      BY <2>2, <2>5
    <2> QED BY <1>1, <2>3, <2>6 DEF BeaconPlaces, LinesOf
  <1> HIDE DEF V, f
  <1>7. f \in Injection(V, P \X D)
    BY <1>5, <1>6 DEF Injection, IsInjective
  <1>8. /\ IsFiniteSet(P) /\ Cardinality(P) = v2.page
        /\ IsFiniteSet(D) /\ Cardinality(D) = 1 + v6.now \div Window
    <2> DEFINE n == v2.page
               m == v6.now \div Window
    <2>1. n \in Nat /\ m \in Nat
      BY <1>2, <1>3
    <2> HIDE DEF n, m
    <2>2. IsFiniteSet(1 .. n) /\ Cardinality(1 .. n) = n
      BY <2>1, FS_Interval
    <2>3. IsFiniteSet(0 .. m) /\ Cardinality(0 .. m) = 1 + m
      BY <2>1, FS_Interval
    <2> QED BY <2>2, <2>3 DEF n, m
  <1> HIDE DEF P, D
  <1>9. IsFiniteSet(P \X D) /\ Cardinality(P \X D) = v2.page * (1 + v6.now \div Window)
    BY <1>8, FS_Product
  <1>10. Cardinality(V) <= v2.page * (1 + v6.now \div Window)
    BY <1>7, <1>9, FS_Injection
  <1> QED BY <1>10 DEF V

\* What the screens show of it.
LEMMA BeaconHolds ==
  ASSUME BeaconInv
  PROVE  Beacon!EventsAccounted /\ Beacon!SummaryIsTrue /\ Beacon!BeaconTypeOK
  <1>1. BeaconTypes /\ BeaconPlaces /\ BeaconSpoils
    BY DEF BeaconInv
  <1>2. LinesOf(v4) /\ v6 \in BeaconTally
    BY <1>1 DEF BeaconTypes, BeaconPlaces
  <1>3. ASSUME NEW k \in DOMAIN v4, v4[k].parses
        PROVE  \E e \in DOMAIN v1 : v4[k].events = {e} /\ v1[e].class = "good"
    <2>1. PICK e \in Nat : v4[k].events = {e} /\ Good(e)
      BY <1>2, <1>3 DEF LinesOf
    <2>2. e \in OnLines(v4)
      BY <2>1 DEF OnLines
    <2>3. e \in DOMAIN v1
      BY <1>1, <2>2 DEF BeaconPlaces
    <2> QED BY <2>1, <2>3 DEF Good
  <1>4. Beacon!Summary.malformed <= v6.kills
    <2> DEFINE M == {k \in DOMAIN v4 : ~v4[k].parses}
    <2>1. Beacon!Summary.malformed = Cardinality(M)
      BY SameBeaconCount DEF Beacon!Summary
    <2>2. M \in SUBSET Spoiled(v4)
      BY DEF Spoiled
    <2> HIDE DEF M
    <2>3. IsFiniteSet(Spoiled(v4)) /\ Cardinality(Spoiled(v4)) \in Nat
      BY <1>2, SpoiledCount
    <2>4. Cardinality(M) <= Cardinality(Spoiled(v4)) /\ Cardinality(M) \in Nat
      BY <2>2, <2>3, FS_Subset, FS_CardinalityType
    <2>5. Cardinality(Spoiled(v4)) <= v6.kills /\ v6.kills \in Nat
      BY <1>1, <1>2 DEF BeaconSpoils, BeaconTally
    <2> QED BY <2>1, <2>3, <2>4, <2>5
  <1>5. ASSUME NEW s \in Surfaces
        PROVE  Beacon!Summary.views[s] <= v2.page * (1 + v6.now \div Window)
    <2>1. Beacon!Summary.views[s] =
            Cardinality({k \in DOMAIN v4 : v4[k].parses /\ \E e \in v4[k].events : v1[e].surface = s})
      BY SameBeaconCount DEF Beacon!Summary
    <2> QED BY <2>1, ViewsBounded
  <1>6. Beacon!SummaryIsTrue
    BY <1>3, <1>4, <1>5 DEF Beacon!SummaryIsTrue
  <1>7. Beacon!BeaconTypeOK
    BY <1>1, SameBeaconSet DEF Beacon!BeaconTypeOK, BeaconTypes, BeaconPlaces
  <1> QED BY <1>6, <1>7, BeaconAccounts

-----------------------------------------------------------------------------
(***************************************************************************)
(* FindsCache.                                                             *)
(***************************************************************************)

LEMMA BookStart ==
  ASSUME Workbook!FindsInit
  PROVE  BookInv
  <1>1. /\ v1 = [rows |-> [f \in BookFinds |-> "none"], time |-> 1, held |-> FALSE]
        /\ v2 = {} /\ v3 = FALSE /\ v4 = None /\ v5 = FALSE
        /\ v6 = [c \in Calls |-> [phase |-> "idle", asked |-> 0, dump |-> None, missed |-> FALSE]]
    BY DEF Workbook!FindsInit, Workbook!NotMade, Workbook!At
  <1>2. v1 \in BookState
    <2>1. [f \in BookFinds |-> "none"] \in BookRows
      BY DEF BookRows
    <2> QED BY <1>1, <2>1 DEF BookState
  <1>3. v6 \in [Calls -> BookCall] /\ \A c \in Calls : v6[c].phase = "idle"
    BY <1>1 DEF BookCall, BookPhases
  <1> QED BY <1>1, <1>2, <1>3 DEF BookInv, BookTypes

LEMMA BookStays ==
  ASSUME BookInv, UNCHANGED <<v1, v2, v3, v4, v5, v6, v7>>
  PROVE  BookInv'
  BY DEF BookInv, BookTypes, TellsBook

LEMMA BookHolds ==
  ASSUME BookInv
  PROVE  Workbook!CacheIsNow /\ Workbook!FindsTypeOK
  <1>1. Workbook!CacheIsNow
    BY DEF BookInv, TellsBook, Workbook!CacheIsNow, Workbook!Hit
  <1>2. v1.rows \in BookRows
    BY DEF BookInv, BookTypes, BookState
  <1>3. DOMAIN v1.rows \subseteq BookFinds
    BY <1>2 DEF BookRows
  <1>4. Workbook!FindsTypeOK
    BY <1>3 DEF BookInv, BookTypes, TellsBook, Workbook!FindsTypeOK
  <1> QED BY <1>1, <1>4

\* The calls after one of them took a step to a phase in which it has no dump yet.
LEMMA CallMoves ==
  ASSUME BookInv, NEW c \in Calls, NEW to \in BookCall, v6' = [v6 EXCEPT ![c] = to],
         to.phase # "dumped", to.phase = "dump" => to.asked <= v1.time,
         UNCHANGED <<v1, v2, v3>>, v4' = v4, v5' \in BOOLEAN, v5 => v5'
  PROVE  BookInv'
  <1>1. BookTypes
    BY DEF BookInv
  <1>2. /\ v6' \in [Calls -> BookCall] /\ v6'[c] = to
        /\ \A d \in Calls : d # c => v6'[d] = v6[d]
    BY <1>1 DEF BookTypes
  <1>3. BookTypes'
    BY <1>1, <1>2 DEF BookTypes
  <1>4. v4 # None => TellsBook(v4.asked, v4.dump, v4.missed, v5)
    BY DEF BookInv
  <1>5. (v4 # None => TellsBook(v4.asked, v4.dump, v4.missed, v5))'
    BY <1>4 DEF TellsBook
  <1>6. ASSUME NEW d \in Calls
        PROVE  (/\ v6[d].phase = "dump" => v6[d].asked <= v1.time
                /\ v6[d].phase = "dumped" => TellsBook(v6[d].asked, v6[d].dump, v6[d].missed, FALSE))'
    <2>1. CASE d = c
      BY <1>2, <2>1
    <2>2. CASE d # c
      BY <1>2, <2>2 DEF BookInv, TellsBook
    <2> QED BY <2>1, <2>2
  <1> QED BY <1>3, <1>5, <1>6 DEF BookInv

\* The workbook after a write by a process or by the owner: its time is a later one.
LEMMA BookWritten ==
  ASSUME BookInv, v1' \in BookState, v1'.time = v1.time + 1,
         UNCHANGED <<v2, v3, v4, v5>>,
         v6' \in [Calls -> BookCall],
         \A d \in Calls : v6'[d] = v6[d] \/ v6'[d].phase \in {"wrote", "late"}
  PROVE  BookInv'
  <1>1. BookTypes /\ v1.time \in Int
    BY DEF BookInv, BookTypes, BookState
  <1>2. BookTypes'
    BY <1>1 DEF BookTypes
  <1>3. ASSUME NEW asked \in Int, NEW dump, NEW missed, NEW stale, TellsBook(asked, dump, missed, stale)
        PROVE  TellsBook(asked, dump, missed, stale)'
    BY <1>1, <1>3 DEF TellsBook
  <1>4. (v4 # None => TellsBook(v4.asked, v4.dump, v4.missed, v5))'
    <2>1. v4 # None => v4.asked \in Int
      BY <1>1 DEF BookTypes, BookCache
    <2> QED BY <1>3, <2>1 DEF BookInv
  <1>5. ASSUME NEW d \in Calls
        PROVE  (/\ v6[d].phase = "dump" => v6[d].asked <= v1.time
                /\ v6[d].phase = "dumped" => TellsBook(v6[d].asked, v6[d].dump, v6[d].missed, FALSE))'
    <2>1. CASE v6'[d].phase \in {"wrote", "late"}
      BY <2>1
    <2>2. CASE v6'[d] = v6[d]
      <3>1. v6[d].asked \in Int
        BY <1>1 DEF BookTypes, BookCall
      <3>2. v6[d].phase = "dump" => v6[d].asked <= v1.time
        BY DEF BookInv
      <3>3. v6[d].phase = "dump" => v6[d].asked <= v1'.time
        BY <1>1, <3>1, <3>2
      <3> QED BY <1>3, <2>2, <3>1, <3>3 DEF BookInv
    <2> QED BY <2>1, <2>2
  <1> QED BY <1>2, <1>4, <1>5 DEF BookInv

LEMMA BookParts ==
  ASSUME BookInv
  PROVE  /\ v1.rows \in BookRows /\ v1.time \in Int /\ v1.held \in BOOLEAN
         /\ \A f : Workbook!Without(v1.rows, f) \in BookRows
         /\ \A f \in DOMAIN v1.rows, x \in {"none", "skip", "maybe"} :
              [v1.rows EXCEPT ![f] = x] \in BookRows
  <1>1. v1.rows \in BookRows /\ v1.time \in Int /\ v1.held \in BOOLEAN
    BY DEF BookInv, BookTypes, BookState
  <1>2. PICK S \in SUBSET BookFinds : v1.rows \in [S -> {"none", "skip", "maybe"}]
    BY <1>1 DEF BookRows
  <1>3. ASSUME NEW f PROVE Workbook!Without(v1.rows, f) \in BookRows
    <2>1. Workbook!Without(v1.rows, f) \in [S \ {f} -> {"none", "skip", "maybe"}]
      BY <1>2 DEF Workbook!Without
    <2>2. S \ {f} \in SUBSET BookFinds
      BY <1>2
    <2> QED BY <2>1, <2>2 DEF BookRows
  <1>4. ASSUME NEW f \in DOMAIN v1.rows, NEW x \in {"none", "skip", "maybe"}
        PROVE  [v1.rows EXCEPT ![f] = x] \in BookRows
    <2>1. [v1.rows EXCEPT ![f] = x] \in [S -> {"none", "skip", "maybe"}]
      BY <1>2
    <2> QED BY <1>2, <2>1 DEF BookRows
  <1> QED BY <1>1, <1>3, <1>4

\* The calls that read, and the ends of those that write.
LEMMA BookCalls ==
  ASSUME BookInv, NEW c \in Calls,
         \/ Workbook!Get(c) \/ Workbook!RefusalEnds(c) \/ Workbook!Decide(c) \/ Workbook!WriteEnds(c)
         \/ Workbook!DumpReads(c) /\ v1.held
  PROVE  BookInv'
  <1> DEFINE At(phase, asked) == [phase |-> phase, asked |-> asked, dump |-> None, missed |-> FALSE]
  <1>1. BookTypes /\ v1.time \in Int /\ v5 \in BOOLEAN
    BY DEF BookInv, BookTypes, BookState
  <1>2. PICK to : /\ v6' = [v6 EXCEPT ![c] = to]
                  /\ to \in {At(phase, 0) : phase \in {"done", "refused", "decide"}} \cup {At("dump", v1.time)}
    BY DEF Workbook!Get, Workbook!RefusalEnds, Workbook!Decide, Workbook!WriteEnds,
           Workbook!DumpReads, Workbook!Steps, Workbook!Done, Workbook!At
  <1>3. to \in BookCall /\ to.phase # "dumped" /\ (to.phase = "dump" => to.asked <= v1.time)
    <2>1. PICK phase \in {"done", "refused", "decide", "dump"}, asked \in {0, v1.time} :
            to = [phase |-> phase, asked |-> asked, dump |-> None, missed |-> FALSE]
      BY <1>2
    <2>2. phase = "dump" => asked = v1.time
      BY <1>2, <2>1
    <2>3. phase \in BookPhases /\ asked \in Int
      BY <1>1 DEF BookPhases
    <2>4. to.phase = phase /\ to.asked = asked /\ to \in BookCall
      BY <2>1, <2>3 DEF BookCall
    <2> QED BY <1>1, <2>2, <2>4
  <1>4. UNCHANGED <<v1, v2, v3>> /\ v4' = v4 /\ v5' \in BOOLEAN /\ (v5 => v5')
    BY <1>1 DEF Workbook!Get, Workbook!RefusalEnds, Workbook!Decide, Workbook!WriteEnds,
                Workbook!DumpReads
  <1> QED BY <1>2, <1>3, <1>4, CallMoves

\* A dump reads the workbook.
LEMMA BookReads ==
  ASSUME BookInv, NEW c \in Calls, Workbook!DumpReads(c), ~v1.held
  PROVE  BookInv'
  <1> DEFINE dump == [rows |-> v1.rows, tracked |-> v2]
             to == [phase |-> "dumped", asked |-> v6[c].asked, dump |-> dump, missed |-> FALSE]
  <1>1. BookTypes
    BY DEF BookInv
  <1>2. /\ v6[c].phase = "dump" /\ v6' = [v6 EXCEPT ![c] = to]
        /\ UNCHANGED <<v1, v2, v3, v4, v5>>
    BY DEF Workbook!DumpReads, Workbook!Steps, Workbook!At, Workbook!Dump
  <1>3. dump \in BookDump /\ v6[c].asked \in Int
    BY <1>1, BookParts DEF BookTypes, BookCall, BookDump
  <1>4. to \in BookCall /\ to.phase = "dumped" /\ to.dump = dump /\ to.asked = v6[c].asked
    BY <1>3 DEF BookCall, BookPhases
  <1>5. TellsBook(v6[c].asked, dump, to.missed, FALSE)
    BY <1>2 DEF BookInv, TellsBook
  <1> HIDE DEF to, dump
  <1>6. /\ v6' \in [Calls -> BookCall] /\ v6'[c] = to /\ \A d \in Calls : d # c => v6'[d] = v6[d]
    BY <1>1, <1>2, <1>4 DEF BookTypes
  <1>7. BookTypes'
    BY <1>1, <1>2, <1>3, <1>4, <1>6 DEF BookTypes
  <1>8. (v4 # None => TellsBook(v4.asked, v4.dump, v4.missed, v5))'
    BY <1>2 DEF BookInv, TellsBook
  <1>9. ASSUME NEW d \in Calls
        PROVE  (/\ v6[d].phase = "dump" => v6[d].asked <= v1.time
                /\ v6[d].phase = "dumped" => TellsBook(v6[d].asked, v6[d].dump, v6[d].missed, FALSE))'
    <2>1. CASE d = c
      BY <1>2, <1>4, <1>5, <1>6, <2>1 DEF TellsBook
    <2>2. CASE d # c
      BY <1>2, <1>6, <2>2 DEF BookInv, TellsBook
    <2> QED BY <2>1, <2>2
  <1> QED BY <1>7, <1>8, <1>9 DEF BookInv

\* A dump ends: it is what the server keeps.
LEMMA BookKept ==
  ASSUME BookInv, NEW c \in Calls, Workbook!DumpEnds(c)
  PROVE  BookInv'
  <1> DEFINE kept == [asked |-> v6[c].asked, dump |-> v6[c].dump, missed |-> v6[c].missed]
             to == [phase |-> "done", asked |-> 0, dump |-> None, missed |-> FALSE]
  <1>1. BookTypes
    BY DEF BookInv
  <1>2. /\ v6[c].phase = "dumped" /\ v6' = [v6 EXCEPT ![c] = to] /\ v4' = kept /\ v5' = FALSE
        /\ UNCHANGED <<v1, v2, v3>>
    BY DEF Workbook!DumpEnds, Workbook!Steps, Workbook!Done, Workbook!At
  <1>3. kept \in BookCache /\ to \in BookCall /\ to.phase = "done"
    BY <1>1, <1>2 DEF BookTypes, BookCall, BookCache, BookPhases
  <1>4. kept.asked = v6[c].asked /\ kept.dump = v6[c].dump /\ kept.missed = v6[c].missed
    OBVIOUS
  <1> HIDE DEF kept, to
  <1>5. /\ v6' \in [Calls -> BookCall] /\ v6'[c] = to /\ \A d \in Calls : d # c => v6'[d] = v6[d]
    BY <1>1, <1>2, <1>3 DEF BookTypes
  <1>6. BookTypes'
    BY <1>1, <1>2, <1>3, <1>5 DEF BookTypes
  <1>7. (v4 # None => TellsBook(v4.asked, v4.dump, v4.missed, v5))'
    BY <1>2, <1>4 DEF BookInv, TellsBook
  <1>8. ASSUME NEW d \in Calls
        PROVE  (/\ v6[d].phase = "dump" => v6[d].asked <= v1.time
                /\ v6[d].phase = "dumped" => TellsBook(v6[d].asked, v6[d].dump, v6[d].missed, FALSE))'
    <2>1. CASE d = c
      BY <1>3, <1>5, <2>1
    <2>2. CASE d # c
      BY <1>2, <1>5, <2>2 DEF BookInv, TellsBook
    <2> QED BY <2>1, <2>2
  <1> QED BY <1>6, <1>7, <1>8 DEF BookInv

\* The writes: by a process, and by the owner in Excel.
LEMMA BookWrites ==
  ASSUME BookInv,
         \/ \E c \in Calls : Workbook!DecideWrites(c) \/ Workbook!Prune(c)
         \/ Workbook!Opens \/ Workbook!Closes
  PROVE  BookInv'
  <1>1. BookTypes /\ v1 \in BookState /\ v6 \in [Calls -> BookCall]
    BY DEF BookInv, BookTypes
  <1> DEFINE At(phase) == [phase |-> phase, asked |-> 0, dump |-> None, missed |-> FALSE]
  <1>2. ASSUME NEW c \in Calls, NEW rows \in BookRows, NEW phase \in {"wrote", "late"},
               v1' = [v1 EXCEPT !.rows = rows, !.time = @ + 1], v6' = [v6 EXCEPT ![c] = At(phase)],
               UNCHANGED <<v2, v3, v4, v5>>
        PROVE  BookInv'
    <2>1. v1' \in BookState /\ v1'.time = v1.time + 1
      <3>1. v1' = [rows |-> rows, time |-> v1.time + 1, held |-> v1.held]
        BY <1>1, <1>2 DEF BookState
      <3> QED BY <1>2, <3>1, BookParts DEF BookState
    <2>2. At(phase) \in BookCall /\ At(phase).phase = phase
      BY <1>2 DEF BookCall, BookPhases
    <2> HIDE DEF At
    <2>3. v6' \in [Calls -> BookCall] /\ \A d \in Calls : v6'[d] = v6[d] \/ v6'[d].phase \in {"wrote", "late"}
      BY <1>1, <1>2, <2>2
    <2> QED BY <1>2, <2>1, <2>3, BookWritten
  <1>3. ASSUME NEW c \in Calls, Workbook!DecideWrites(c) PROVE BookInv'
    <2>1. PICK f \in DOMAIN v1.rows, x \in {"none", "skip", "maybe"} :
            v1' = [v1 EXCEPT !.rows = [v1.rows EXCEPT ![f] = x], !.time = @ + 1]
      BY <1>3 DEF Workbook!DecideWrites, Workbook!Written
    <2>2. v6' = [v6 EXCEPT ![c] = At("wrote")] /\ UNCHANGED <<v2, v3, v4, v5>>
      BY <1>3 DEF Workbook!DecideWrites, Workbook!Steps, Workbook!At
    <2>3. [v1.rows EXCEPT ![f] = x] \in BookRows
      BY BookParts
    <2> HIDE DEF At
    <2> QED BY <1>2, <2>1, <2>2, <2>3
  <1>4. ASSUME NEW c \in Calls, Workbook!Prune(c) PROVE BookInv'
    <2>1. PICK f : v1' = [v1 EXCEPT !.rows = Workbook!Without(v1.rows, f), !.time = @ + 1]
      BY <1>4 DEF Workbook!Prune, Workbook!Written
    <2>2. PICK phase \in {"wrote", "late"} : v6' = [v6 EXCEPT ![c] = At(phase)]
      BY <1>4 DEF Workbook!Prune, Workbook!Steps, Workbook!At
    <2>3. UNCHANGED <<v2, v3, v4, v5>>
      BY <1>4 DEF Workbook!Prune
    <2> HIDE DEF At
    <2> QED BY <1>2, <2>1, <2>2, <2>3, BookParts
  <1>5. ASSUME v1' = [v1 EXCEPT !.held = TRUE] \/ v1' = [v1 EXCEPT !.held = FALSE],
               UNCHANGED <<v2, v3, v4, v5, v6>>
        PROVE  BookInv'
    <2>1. v1' \in BookState /\ v1'.rows = v1.rows /\ v1'.time = v1.time
      BY <1>1, <1>5 DEF BookState
    <2> QED BY <1>1, <1>5, <2>1 DEF BookInv, BookTypes, TellsBook
  <1>6. ASSUME NEW f, v1' = [rows |-> Workbook!Without(v1.rows, f), time |-> v1.time + 1, held |-> FALSE],
               UNCHANGED <<v2, v3, v4, v5, v6>>
        PROVE  BookInv'
    <2>1. v1' \in BookState /\ v1'.time = v1.time + 1
      BY <1>6, BookParts DEF BookState
    <2> QED BY <1>1, <1>6, <2>1, BookWritten
  <1> QED BY <1>3, <1>4, <1>5, <1>6 DEF Workbook!Opens, Workbook!Closes

\* A folder changes, and the watcher tells of it.
LEMMA BookFolders ==
  ASSUME BookInv, Workbook!Watch \/ \E f \in BookFinds : Workbook!JobChanges(f)
  PROVE  BookInv'
  <1>1. BookTypes
    BY DEF BookInv
  <1>2. ASSUME NEW f \in BookFinds, Workbook!JobChanges(f) PROVE BookInv'
    <2>1. v2' \subseteq BookFinds /\ v3' = TRUE /\ UNCHANGED <<v1, v4, v5, v6>>
      BY <1>1, <1>2 DEF Workbook!JobChanges, BookTypes
    <2> QED BY <1>1, <2>1 DEF BookInv, BookTypes, TellsBook
  <1>3. CASE Workbook!Watch
    <2> DEFINE later(d) == [v6[d] EXCEPT !.missed = @ \/ v6[d].phase = "dumped"]
    <2>1. /\ v3' = FALSE /\ v5' = TRUE /\ UNCHANGED <<v1, v2, v4>>
          /\ v6' = [d \in Calls |-> later(d)]
      BY <1>3 DEF Workbook!Watch
    <2>2. ASSUME NEW d \in Calls
          PROVE  /\ later(d) \in BookCall /\ later(d).phase = v6[d].phase
                 /\ later(d).asked = v6[d].asked /\ later(d).dump = v6[d].dump
                 /\ v6[d].phase = "dumped" => later(d).missed
      <3>1. v6[d] \in BookCall
        BY <1>1 DEF BookTypes
      <3> QED BY <3>1 DEF BookCall
    <2> HIDE DEF later
    <2>3. BookTypes'
      BY <1>1, <2>1, <2>2 DEF BookTypes
    <2>4. (v4 # None => TellsBook(v4.asked, v4.dump, v4.missed, v5))'
      BY <2>1 DEF BookInv, TellsBook
    <2>5. ASSUME NEW d \in Calls
          PROVE  (/\ v6[d].phase = "dump" => v6[d].asked <= v1.time
                  /\ v6[d].phase = "dumped" => TellsBook(v6[d].asked, v6[d].dump, v6[d].missed, FALSE))'
      <3>1. v6'[d] = later(d)
        BY <2>1
      <3> QED BY <2>1, <2>2, <3>1 DEF BookInv, TellsBook
    <2> QED BY <2>3, <2>4, <2>5 DEF BookInv
  <1> QED BY <1>2, <1>3

LEMMA BookStep ==
  ASSUME BookInv, Workbook!FindsNext
  PROVE  BookInv'
  BY BookCalls, BookReads, BookKept, BookWrites, BookFolders DEF Workbook!FindsNext

-----------------------------------------------------------------------------
(***************************************************************************)
(* RunDock.                                                                *)
(***************************************************************************)

\* What becomes of a run that was launched: its end is final, and a run that no endpoint
\* finds stays so.
RunGoes(run, later) ==
  /\ later.via = run.via
  /\ run.fate \in DockEnds => later.fate = run.fate
  /\ run.map = "none" => later.map = "none"

-----------------------------------------------------------------------------
\* A panel stays true of its run, whatever becomes of that.
LEMMA PanelStaysTrue ==
  ASSUME NEW t, NEW run, NEW later, NEW boots \in Nat, NEW after \in Nat, boots <= after,
         PanelOK(t, run, boots), RunGoes(run, later)
  PROVE  PanelOK(t, later, after)
  <1>1. boots > 0 => after > 0
    OBVIOUS
  <1>2. t.shown \in DockEnds => later.fate = t.shown
    BY DEF PanelOK, RunGoes
  <1>3. t.answer \in DockEnds => later.fate = t.answer
    BY DEF PanelOK, RunGoes
  <1>4. t.shown = "gone" \/ t.answer = "not found" =>
          after > 0 /\ later.map = "none" /\ later.via # "source"
    BY <1>1 DEF PanelOK, RunGoes
  <1>5. later.via = run.via
    BY DEF RunGoes
  <1> QED BY <1>2, <1>3, <1>4, <1>5 DEF PanelOK

\* The entry of a run whose row is over is closed.
LEMMA SyncedRun ==
  ASSUME NEW run, NEW boots, RunOK(run, boots)
  PROVE  LET now == Dock!Synced(run)
         IN  /\ RunOK(now, boots) /\ RunGoes(run, now) /\ now.row = run.row
             /\ now.via = run.via /\ now.fate = run.fate
  <1>1. CASE run.map = "running" /\ RowIsOver(run.row)
    <2> DEFINE now == [run EXCEPT !.map = RowSays(run.row)]
    <2>1. Dock!Synced(run) = now
      BY <1>1 DEF Dock!Synced, Dock!Settled, Dock!RowOutcome, RowIsOver, RowSays
    <2>2. /\ now \in DockRun /\ now.map = RowSays(run.row) /\ now.via = run.via
          /\ now.row = run.row /\ now.old = run.old /\ now.fate = run.fate
      BY DEF RunOK, DockRun, DockMaps, DockEnds, RowSays
    <2>3. RowSays(run.row) \in DockEnds
      BY DEF RowSays, DockEnds
    <2>4. run.via # "none"
      BY <1>1 DEF RunOK, Dock!Unlaunched
    <2> HIDE DEF now
    <2>5. RunOK(now, boots)
      BY <1>1, <2>2, <2>3, <2>4 DEF RunOK, DockEnds
    <2>6. RunGoes(run, now)
      BY <1>1, <2>2 DEF RunGoes
    <2> QED BY <2>1, <2>2, <2>5, <2>6
  <1>2. CASE ~(run.map = "running" /\ RowIsOver(run.row))
    <2>1. Dock!Synced(run) = run
      BY <1>2 DEF Dock!Synced, Dock!Settled, RowIsOver
    <2> QED BY <2>1 DEF RunGoes
  <1> QED BY <1>1, <1>2

\* What an answer says of a run.
LEMMA ViewIsTrue ==
  ASSUME NEW run, NEW boots \in Nat, RunOK(run, boots), run.via # "none"
  PROVE  LET said == Dock!View(run)
         IN  /\ said \in DockAnswers \ {"none"}
             /\ said \in DockEnds => run.fate = said
             /\ said = "not found" => boots > 0 /\ run.map = "none" /\ run.via # "source"
  <1>1. run \in DockRun
    BY DEF RunOK
  <1>2. run.via \in DockVias /\ run.map \in DockMaps /\ run.row \in DockRows
    BY <1>1 DEF DockRun
  <1>3. Dock!QueuedRunnerView(run) \in {"stalled", "running", "waiting-for-runner"}
    BY DEF Dock!QueuedRunnerView
  <1> DEFINE said == Dock!View(run)
  <1>4. CASE run.map = "none" /\ run.via = "source"
    <2>1. said = Dock!SynthesizeRunnerRun(run)
      BY <1>4 DEF Dock!View
    <2>2. run.row # "none" /\ (RowIsOver(run.row) => run.fate = RowSays(run.row))
      BY <1>4 DEF RunOK
    <2>3. CASE run.row = "queued"
      <3>1. said = Dock!QueuedRunnerView(run)
        BY <2>1, <2>3 DEF Dock!SynthesizeRunnerRun
      <3> QED BY <1>3, <1>4, <3>1 DEF DockAnswers, DockEnds
    <2>4. CASE run.row = "claimed"
      <3>1. said = "running"
        BY <2>1, <2>4 DEF Dock!SynthesizeRunnerRun
      <3> QED BY <3>1 DEF DockAnswers, DockEnds
    <2>5. CASE RowIsOver(run.row)
      <3>1. said = RowSays(run.row)
        BY <2>1, <2>5 DEF Dock!SynthesizeRunnerRun, Dock!RowOutcome, RowSays, RowIsOver
      <3> QED BY <2>2, <2>5, <3>1 DEF DockAnswers, DockEnds, RowSays
    <2> QED BY <1>2, <2>2, <2>3, <2>4, <2>5 DEF DockRows, RowIsOver
  <1>5. CASE run.map = "none" /\ run.via # "source"
    <2>1. said = "not found"
      BY <1>5 DEF Dock!View
    <2>2. boots # 0
      BY <1>2, <1>5 DEF RunOK, DockVias
    <2>3. boots > 0
      BY <2>2
    <2>4. said \in DockAnswers \ {"none"} /\ said \notin DockEnds
      BY <2>1 DEF DockAnswers, DockEnds
    <2> QED BY <1>5, <2>1, <2>3, <2>4
  <1>6. CASE run.map # "none" /\ run.map = "running" /\ run.row = "queued"
    <2>1. said = Dock!QueuedRunnerView(run)
      BY <1>6 DEF Dock!View
    <2> QED BY <1>3, <2>1 DEF DockAnswers, DockEnds
  <1>7. CASE run.map # "none" /\ ~(run.map = "running" /\ run.row = "queued")
    <2>1. said = run.map
      BY <1>7 DEF Dock!View
    <2> QED BY <1>2, <1>7, <2>1 DEF DockAnswers, DockEnds, DockMaps, RunOK
  <1> QED BY <1>4, <1>5, <1>6, <1>7

\* A run that is stopped.
LEMMA StoppedRun ==
  ASSUME NEW run, NEW boots, RunOK(run, boots), run.via # "none"
  PROVE  LET later == Dock!Stopped(run)
         IN  RunOK(later, boots) /\ RunGoes(run, later) /\ (run.row = "claimed" => later.row = "claimed")
  <1> DEFINE now == Dock!Synced(run)
             later == Dock!Stopped(run)
  <1>1. /\ RunOK(now, boots) /\ RunGoes(run, now) /\ now.row = run.row /\ now.via = run.via
        /\ now.fate = run.fate
    BY SyncedRun
  <1> HIDE DEF now
  <1>2. now \in DockRun
    BY <1>1 DEF RunOK
  <1>3. CASE ~Dock!Found(run)
    <2>1. later = run
      BY <1>3 DEF Dock!Stopped
    <2> QED BY <2>1 DEF RunGoes
  <1>4. CASE Dock!Found(run) /\ now.via = "local" /\ now.map = "running"
    <2> DEFINE ended == [now EXCEPT !.map = "stopped", !.fate = "stopped"]
    <2>1. later = ended
      BY <1>4 DEF Dock!Stopped, now
    <2>2. /\ ended \in DockRun /\ ended.map = "stopped" /\ ended.fate = "stopped"
          /\ ended.via = now.via /\ ended.row = now.row /\ ended.old = now.old
      BY <1>2 DEF DockRun, DockMaps, DockFates, DockEnds
    <2>3. now.fate = "pending" /\ now.row = "none" /\ run.map # "none"
      BY <1>1, <1>4 DEF RunOK, RunGoes
    <2> HIDE DEF ended
    <2>4. RunOK(ended, boots)
      BY <1>1, <1>4, <2>2, <2>3 DEF RunOK, RowIsOver, DockEnds
    <2>5. RunGoes(run, ended)
      BY <1>1, <2>2, <2>3 DEF RunGoes, DockEnds
    <2> QED BY <1>1, <2>1, <2>2, <2>4, <2>5
  <1>5. CASE Dock!Found(run) /\ now.via = "runner" /\ now.row = "queued"
    <2> DEFINE ended == [now EXCEPT !.map = "stopped", !.row = "failed", !.fate = "stopped"]
    <2>1. later = ended
      BY <1>5 DEF Dock!Stopped, now
    <2>2. /\ ended \in DockRun /\ ended.map = "stopped" /\ ended.fate = "stopped"
          /\ ended.via = now.via /\ ended.row = "failed" /\ ended.old = now.old
      BY <1>2 DEF DockRun, DockMaps, DockFates, DockEnds, DockRows
    <2>3. now.fate = "pending" /\ run.map # "none"
      BY <1>1, <1>5 DEF RunOK, Dock!Found
    <2> HIDE DEF ended
    <2>4. RunOK(ended, boots)
      BY <1>5, <2>2 DEF RunOK, DockEnds
    <2>5. RunGoes(run, ended)
      BY <1>1, <2>2, <2>3 DEF RunGoes, DockEnds
    <2> QED BY <1>1, <1>5, <2>1, <2>4, <2>5
  <1>6. CASE Dock!Found(run) /\ now.via = "source" /\ now.row = "queued"
    <2> DEFINE ended == [now EXCEPT !.row = "failed", !.fate = "failed"]
    <2>1. later = ended
      BY <1>6 DEF Dock!Stopped, now
    <2>2. /\ ended \in DockRun /\ ended.map = now.map /\ ended.fate = "failed"
          /\ ended.via = now.via /\ ended.row = "failed" /\ ended.old = now.old
      BY <1>2 DEF DockRun, DockFates, DockEnds, DockRows
    <2>3. now.fate = "pending" /\ now.map = "none"
      BY <1>1, <1>6 DEF RunOK
    <2> HIDE DEF ended
    <2>4. RunOK(ended, boots)
      BY <1>6, <2>2, <2>3 DEF RunOK, DockEnds, RowSays
    <2>5. RunGoes(run, ended)
      BY <1>1, <2>2, <2>3 DEF RunGoes, DockEnds
    <2> QED BY <1>1, <1>6, <2>1, <2>4, <2>5
  <1>7. CASE /\ Dock!Found(run) /\ ~(now.via = "local" /\ now.map = "running")
             /\ ~(now.via = "runner" /\ now.row = "queued") /\ ~(now.via = "source" /\ now.row = "queued")
    <2>1. later = now
      BY <1>7 DEF Dock!Stopped, now
    <2> QED BY <1>1, <2>1
  <1> QED BY <1>3, <1>4, <1>5, <1>6, <1>7

LEMMA DockConstants ==
  /\ DockBatch \subseteq DockRuns /\ Vias \subseteq {"local", "runner", "source"}
  /\ "away" \notin DockRuns /\ "idle" \notin DockRuns
  BY ClientAssumption

LEMMA DockStart ==
  ASSUME Dock!DockInit
  PROVE  DockInv
  <1>1. /\ v1 = [r \in DockRuns |-> Dock!Unlaunched] /\ v3 = "away" /\ v5 = "closed"
        /\ v4 = [r \in DockRuns |-> Dock!Untracked] /\ v6 = [boots |-> 0, fails |-> 0, requeues |-> 0]
    BY DEF Dock!DockInit
  <1>2. Dock!Unlaunched \in DockRun /\ RunOK(Dock!Unlaunched, 0)
    <2>1. Dock!Unlaunched \in DockRun
      BY DEF Dock!Unlaunched, DockRun, DockVias, DockMaps, DockRows, DockFates
    <2> QED BY <2>1 DEF RunOK, Dock!Unlaunched, DockEnds
  <1>3. Dock!Untracked \in DockPanel /\ PanelOK(Dock!Untracked, Dock!Unlaunched, 0)
    <2>1. Dock!Untracked \in DockPanel
      BY DEF Dock!Untracked, DockPanel, DockShows, DockAnswers
    <2> QED BY <2>1 DEF PanelOK, Dock!Untracked, DockEnds
  <1>4. v6 \in DockCount /\ v6.boots = 0
    BY <1>1 DEF DockCount
  <1>5. BatchOK(v1, v5, v6.boots)
    BY <1>1 DEF BatchOK
  <1> HIDE DEF DockRun, DockPanel
  <1> QED BY <1>1, <1>2, <1>3, <1>4, <1>5, DockConstants DEF DockInv

LEMMA DockStays ==
  ASSUME DockInv, UNCHANGED <<v1, v2, v3, v4, v5, v6>>
  PROVE  DockInv'
  BY DEF DockInv

LEMMA DockHolds ==
  ASSUME DockInv
  PROVE  Dock!PanelTellsRun /\ Dock!DockTypeOK
  <1>1. v6.boots \in Nat
    BY DEF DockInv, DockCount
  <1>2. ASSUME NEW r \in DockRuns
        PROVE  /\ v4[r].shown \in Dock!Terminal => v1[r].fate = v4[r].shown
               /\ v4[r].shown = "gone" => v6.boots > 0 /\ ~Dock!Found(v1[r])
    BY DEF DockInv, PanelOK, Dock!Terminal, DockEnds, Dock!Found
  <1>3. Dock!PanelTellsRun
    BY <1>2 DEF Dock!PanelTellsRun, DockInv, BatchOK, Dock!Terminal, DockEnds
  <1>4. ASSUME NEW r \in DockRuns
        PROVE  /\ v1[r].map \in {"none", "running"} \cup Dock!Terminal
               /\ v1[r].old => v1[r].row \in {"queued", "failed"}
               /\ v4[r].shown \in Dock!Pending \cup Dock!Terminal \cup {"gone"}
    <2>1. v1[r] \in DockRun /\ v4[r] \in DockPanel /\ (v1[r].old => v1[r].row \in {"queued", "failed"})
      BY DEF DockInv, RunOK
    <2>2. v1[r].map \in DockMaps /\ v4[r].shown \in DockShows
      BY <2>1 DEF DockRun, DockPanel
    <2> QED BY <2>1, <2>2 DEF DockMaps, DockShows, DockEnds, Dock!Terminal, Dock!Pending
  <1>5. (v3 \in DockRuns => v1[v3].row = "claimed") /\ v5 \in {"closed", "active", "complete"}
    BY DEF DockInv, BatchOK
  <1> QED BY <1>3, <1>4, <1>5 DEF Dock!DockTypeOK

\* What the batch panel says stays true.
LEMMA BatchStaysTrue ==
  ASSUME NEW all, NEW later, NEW state, NEW boots \in Nat, NEW after \in Nat, boots <= after,
         BatchOK(all, state, boots), \A r \in DockBatch : RunGoes(all[r], later[r])
  PROVE  BatchOK(later, state, after)
  <1>1. after = 0 => boots = 0
    OBVIOUS
  <1>2. \A r \in DockBatch : /\ later[r].via = all[r].via
                             /\ all[r].fate \in DockEnds => later[r].fate \in DockEnds
    BY DEF RunGoes
  <1> QED BY <1>1, <1>2 DEF BatchOK

\* A step of one run and its panel.
LEMMA OneRunGoes ==
  ASSUME DockInv, NEW r \in DockRuns,
         v1' \in [DockRuns -> DockRun], v4' \in [DockRuns -> DockPanel],
         \A x \in DockRuns : x # r => v1'[x] = v1[x] /\ v4'[x] = v4[x],
         RunOK(v1'[r], v6.boots), PanelOK(v4'[r], v1'[r], v6.boots),
         r \in DockBatch => RunGoes(v1[r], v1'[r]),
         v3' \in DockRuns => v1'[v3'].row = "claimed",
         v5' = v5, v6' \in DockCount, v6'.boots = v6.boots
  PROVE  DockInv'
  <1>1. v6.boots \in Nat /\ BatchOK(v1, v5, v6.boots)
    BY DEF DockInv, DockCount
  <1>2. \A x \in DockBatch : RunGoes(v1[x], v1'[x])
    BY DockConstants DEF RunGoes
  <1>3. BatchOK(v1', v5', v6'.boots)
    BY <1>1, <1>2, BatchStaysTrue
  <1>4. \A x \in DockRuns : RunOK(v1'[x], v6'.boots) /\ PanelOK(v4'[x], v1'[x], v6'.boots)
    BY DEF DockInv
  <1> HIDE DEF DockCount, DockRun, DockPanel
  <1>5. (\A x \in DockRuns : RunOK(v1[x], v6.boots) /\ PanelOK(v4[x], v1[x], v6.boots))'
    BY <1>4 DEF RunOK, PanelOK
  <1>6. BatchOK(v1, v5, v6.boots)'
    BY <1>3 DEF BatchOK
  <1> QED BY <1>5, <1>6 DEF DockInv

\* A step of one run, which goes on: its panel stays true.
LEMMA OneRunOnly ==
  ASSUME DockInv, NEW r \in DockRuns, NEW later, v1' = [v1 EXCEPT ![r] = later], v4' = v4,
         RunOK(later, v6.boots), RunGoes(v1[r], later),
         \/ v3' \notin DockRuns
         \/ v3' = v3 /\ (v1[r].row = "claimed" => later.row = "claimed")
         \/ v3' = r /\ later.row = "claimed",
         v5' = v5, v6' \in DockCount, v6'.boots = v6.boots
  PROVE  DockInv'
  <1>1. /\ v1 \in [DockRuns -> DockRun] /\ v4 \in [DockRuns -> DockPanel] /\ v6.boots \in Nat
        /\ PanelOK(v4[r], v1[r], v6.boots) /\ (v3 \in DockRuns => v1[v3].row = "claimed")
    BY DEF DockInv, DockCount
  <1>2. later \in DockRun
    BY DEF RunOK
  <1> HIDE DEF DockRun, DockPanel
  <1>3. /\ v1' \in [DockRuns -> DockRun] /\ v1'[r] = later
        /\ \A x \in DockRuns : x # r => v1'[x] = v1[x]
    BY <1>1, <1>2
  <1>4. PanelOK(v4[r], later, v6.boots)
    BY <1>1, PanelStaysTrue
  <1>5. v3' \in DockRuns => v1'[v3'].row = "claimed"
    BY <1>1, <1>3
  <1> QED BY <1>1, <1>3, <1>4, <1>5, OneRunGoes

\* A step of one panel.
LEMMA OnePanelOnly ==
  ASSUME DockInv, NEW r \in DockRuns, NEW t, v4' = [v4 EXCEPT ![r] = t], v1' = v1,
         PanelOK(t, v1[r], v6.boots), v3' = v3, v5' = v5, v6' = v6
  PROVE  DockInv'
  <1>1. /\ v1 \in [DockRuns -> DockRun] /\ v4 \in [DockRuns -> DockPanel] /\ v6 \in DockCount
        /\ RunOK(v1[r], v6.boots) /\ (v3 \in DockRuns => v1[v3].row = "claimed")
    BY DEF DockInv
  <1>2. t \in DockPanel
    BY DEF PanelOK
  <1> HIDE DEF DockRun, DockPanel, DockCount
  <1>3. /\ v4' \in [DockRuns -> DockPanel] /\ v4'[r] = t
        /\ \A x \in DockRuns : x # r => v4'[x] = v4[x]
    BY <1>1, <1>2
  <1>4. RunGoes(v1[r], v1'[r])
    BY DEF RunGoes
  <1> QED BY <1>1, <1>3, <1>4, OneRunGoes

\* A panel or chip that mounts.
LEMMA MountedPanel ==
  ASSUME NEW b \in BOOLEAN
  PROVE  Dock!Mounted(b) =
           [on |-> TRUE, minimized |-> b, shown |-> "none", misses |-> 0, answer |-> "none"]
  <1>1. Dock!Mounted(b) =
          [[on |-> FALSE, minimized |-> FALSE, shown |-> "none", misses |-> 0, answer |-> "none"]
             EXCEPT !.on = TRUE, !.minimized = b]
    BY DEF Dock!Mounted, Dock!Untracked
  <1> QED BY <1>1

\* The panels: opened, minimized, dismissed, and the answers that arrive.
LEMMA DockPanels ==
  ASSUME DockInv, NEW r \in DockRuns, Dock!Toggle(r) \/ Dock!Dismiss(r) \/ Dock!Arrives(r)
  PROVE  DockInv'
  <1>1. /\ v4 \in [DockRuns -> DockPanel] /\ PanelOK(v4[r], v1[r], v6.boots) /\ v6.boots \in Nat
    BY DEF DockInv, DockCount
  <1>2. v4[r] \in DockPanel /\ v4[r].misses \in Nat /\ v4[r].answer \in DockAnswers /\ v4[r].shown \in DockShows
    BY <1>1 DEF DockPanel
  <1>3. CASE Dock!Toggle(r)
    <2> DEFINE t == [on |-> TRUE, minimized |-> ~v4[r].minimized, shown |-> "none", misses |-> 0, answer |-> "none"]
    <2>1. v4[r].on /\ v4' = [v4 EXCEPT ![r] = t] /\ UNCHANGED <<v1, v3, v5, v6>>
      <3>1. Dock!Mounted(~v4[r].minimized) = t
        BY MountedPanel
      <3> HIDE DEF t
      <3> QED BY <1>3, <3>1 DEF Dock!Toggle
    <2>2. t \in DockPanel
      BY DEF DockPanel, DockShows, DockAnswers
    <2>3. PanelOK(t, v1[r], v6.boots)
      BY <1>1, <2>1, <2>2 DEF PanelOK, DockEnds
    <2> HIDE DEF t
    <2> QED BY <2>1, <2>3, OnePanelOnly
  <1>4. CASE Dock!Dismiss(r)
    <2>1. v4' = [v4 EXCEPT ![r] = Dock!Untracked] /\ UNCHANGED <<v1, v3, v5, v6>>
      BY <1>4 DEF Dock!Dismiss
    <2>2. PanelOK(Dock!Untracked, v1[r], v6.boots)
      BY DEF PanelOK, Dock!Untracked, DockEnds, DockPanel, DockShows, DockAnswers
    <2> QED BY <2>1, <2>2, OnePanelOnly
  <1>5. CASE Dock!Arrives(r)
    <2> DEFINE c == [v4[r] EXCEPT !.answer = "none"]
               said == v4[r].answer
               t == IF said = "not found" THEN Dock!Missed(c) ELSE [c EXCEPT !.misses = 0, !.shown = said]
    <2>1. said # "none" /\ v4' = [v4 EXCEPT ![r] = t] /\ UNCHANGED <<v1, v3, v5, v6>>
      BY <1>5 DEF Dock!Arrives
    <2>2. v4[r].on
      BY <1>1, <2>1 DEF PanelOK
    <2>3. /\ c \in DockPanel /\ c.answer = "none" /\ c.shown = v4[r].shown /\ c.on = v4[r].on
          /\ c.misses = v4[r].misses
      BY <1>2 DEF DockPanel, DockAnswers
    <2> HIDE DEF c
    <2>4. CASE said = "not found"
      <3> DEFINE shown == IF c.misses + 1 >= NotFoundStreak THEN "gone" ELSE c.shown
                 m == [c EXCEPT !.misses = @ + 1, !.shown = shown]
      <3>1. t = m
        BY <2>4 DEF Dock!Missed
      <3>2. shown \in DockShows /\ (shown = "gone" \/ shown = v4[r].shown)
        BY <1>2, <2>3 DEF DockShows
      <3> HIDE DEF shown
      <3>3. m \in DockPanel /\ m.answer = "none" /\ m.shown = shown /\ m.on = v4[r].on
        <4> DEFINE k == c.misses + 1
        <4>1. k \in Nat /\ m = [c EXCEPT !.misses = k, !.shown = shown]
          BY <1>2, <2>3 DEF DockPanel
        <4> HIDE DEF k, m
        <4> QED BY <2>3, <3>2, <4>1 DEF DockPanel
      <3> HIDE DEF m
      <3>4. PanelOK(m, v1[r], v6.boots)
        BY <1>1, <2>2, <2>4, <3>2, <3>3 DEF PanelOK, DockEnds
      <3> HIDE DEF t
      <3> QED BY <2>1, <3>1, <3>4, OnePanelOnly
    <2>5. CASE said # "not found"
      <3> DEFINE m == [c EXCEPT !.misses = 0, !.shown = said]
      <3>1. t = m
        BY <2>5
      <3>2. said \in DockShows \ {"gone"}
        BY <1>2, <2>1, <2>5 DEF DockAnswers, DockShows, DockEnds
      <3>3. m \in DockPanel /\ m.answer = "none" /\ m.shown = said /\ m.on = v4[r].on
        BY <2>3, <3>2 DEF DockPanel
      <3>4. said \in DockEnds => v1[r].fate = said
        BY <1>1 DEF PanelOK
      <3> HIDE DEF m
      <3>5. PanelOK(m, v1[r], v6.boots)
        BY <1>1, <2>2, <3>2, <3>3, <3>4 DEF PanelOK, DockEnds
      <3> HIDE DEF t
      <3> QED BY <2>1, <3>1, <3>5, OnePanelOnly
    <2> QED BY <2>4, <2>5
  <1> QED BY <1>3, <1>4, <1>5

\* A run that is launched.
LEMMA LaunchedRun ==
  ASSUME NEW via \in Vias, NEW boots
  PROVE  /\ RunOK(Dock!Launched(via), boots) /\ Dock!Launched(via).via \in {"local", "runner", "source"}
  <1> DEFINE m == IF via = "source" THEN "none" ELSE "running"
             w == IF via = "local" THEN "none" ELSE "queued"
             U == Dock!Unlaunched
             run == [U EXCEPT !.via = via, !.fate = "pending", !.map = m, !.row = w]
  <1>1. via \in {"local", "runner", "source"}
    BY DockConstants
  <1>2. Dock!Launched(via) = run
    BY DEF Dock!Launched
  <1>3. U \in DockRun /\ U.old = FALSE
    BY DEF Dock!Unlaunched, DockRun, DockVias, DockMaps, DockRows, DockFates
  <1>4. via \in DockVias /\ m \in DockMaps /\ w \in DockRows /\ "pending" \in DockFates
    BY <1>1 DEF DockVias, DockMaps, DockRows, DockFates
  <1> HIDE DEF U, m, w
  <1>5. /\ run \in DockRun /\ run.via = via /\ run.map = m /\ run.row = w /\ run.old = FALSE
        /\ run.fate = "pending"
    BY <1>3, <1>4 DEF DockRun
  <1> HIDE DEF run
  <1>6. RunOK(run, boots)
    BY <1>1, <1>5 DEF RunOK, DockEnds, RowIsOver, m, w
  <1> QED BY <1>1, <1>2, <1>5, <1>6

\* The launches, of a run and of a batch.
LEMMA DockLaunches ==
  ASSUME DockInv, Dock!LaunchBatch \/ \E r \in DockRuns : Dock!Launch(r)
  PROVE  DockInv'
  <1>1. /\ v1 \in [DockRuns -> DockRun] /\ v4 \in [DockRuns -> DockPanel] /\ v6 \in DockCount
        /\ v6.boots \in Nat /\ (v3 \in DockRuns => v1[v3].row = "claimed")
        /\ \A r \in DockRuns : RunOK(v1[r], v6.boots) /\ PanelOK(v4[r], v1[r], v6.boots)
    BY DEF DockInv, DockCount
  <1>2. Dock!Unlaunched.via = "none" /\ Dock!Unlaunched.row = "none"
    BY DEF Dock!Unlaunched
  <1>3. ASSUME NEW t, NEW via \in Vias, PanelOK(t, Dock!Unlaunched, v6.boots)
        PROVE  PanelOK(t, Dock!Launched(via), v6.boots)
    <2>1. t \in DockPanel /\ t.shown = "none" /\ t.answer = "none"
      BY <1>2, <1>3 DEF PanelOK
    <2>2. Dock!Launched(via).via # "none"
      BY LaunchedRun
    <2> QED BY <2>1, <2>2 DEF PanelOK, DockEnds, Dock!Unlaunched
  <1>4. ASSUME NEW r \in DockRuns, Dock!Launch(r) PROVE DockInv'
    <2>1. PICK via \in Vias : v1' = [v1 EXCEPT ![r] = Dock!Launched(via)]
      BY <1>4 DEF Dock!Launch
    <2>2. v1[r] = Dock!Unlaunched /\ r \notin DockBatch /\ UNCHANGED <<v2, v3, v5>>
      BY <1>4 DEF Dock!Launch
    <2>3. \/ v4' = [v4 EXCEPT ![r] = Dock!Mounted(FALSE)] /\ v6' = v6
          \/ v4' = v4 /\ v6' = [v6 EXCEPT !.fails = @ + 1]
      BY <1>4 DEF Dock!Launch, Dock!Spend
    <2>4. v6' \in DockCount /\ v6'.boots = v6.boots
      <3>1. CASE v6' = [v6 EXCEPT !.fails = @ + 1]
        BY <1>1, <3>1 DEF DockCount
      <3>2. CASE v6' = v6
        BY <1>1, <3>2
      <3> QED BY <2>3, <3>1, <3>2
    <2>5. RunOK(Dock!Launched(via), v6.boots) /\ Dock!Launched(via) \in DockRun
          /\ Dock!Launched(via).via # "none"
      BY LaunchedRun DEF RunOK
    <2>6. PanelOK(Dock!Mounted(FALSE), Dock!Launched(via), v6.boots)
      <3> DEFINE m == [on |-> TRUE, minimized |-> FALSE, shown |-> "none", misses |-> 0, answer |-> "none"]
      <3>1. Dock!Mounted(FALSE) = m
        BY MountedPanel
      <3>2. m \in DockPanel
        BY DEF DockPanel, DockShows, DockAnswers
      <3>3. PanelOK(m, Dock!Launched(via), v6.boots)
        BY <2>5, <3>2 DEF PanelOK, DockEnds
      <3> QED BY <3>1, <3>3
    <2>7. PanelOK(v4[r], Dock!Launched(via), v6.boots)
      BY <1>1, <1>3, <2>2
    <2>8. Dock!Mounted(FALSE) \in DockPanel
      BY <2>6 DEF PanelOK
    <2> HIDE DEF DockRun, DockPanel, DockCount
    <2>9. /\ v1' \in [DockRuns -> DockRun] /\ v1'[r] = Dock!Launched(via)
          /\ \A x \in DockRuns : x # r => v1'[x] = v1[x]
      BY <1>1, <2>1, <2>5
    <2>10. /\ v4' \in [DockRuns -> DockPanel] /\ v4'[r] \in {Dock!Mounted(FALSE), v4[r]}
           /\ \A x \in DockRuns : x # r => v4'[x] = v4[x]
      BY <1>1, <2>3, <2>8
    <2>11. PanelOK(v4'[r], v1'[r], v6.boots)
      BY <2>6, <2>7, <2>9, <2>10
    <2>12. v3' \in DockRuns => v1'[v3'].row = "claimed"
      <3>1. v3 # r
        BY <1>1, <1>2, <2>2
      <3> QED BY <1>1, <2>2, <2>9, <3>1
    <2> QED BY <2>2, <2>4, <2>5, <2>9, <2>10, <2>11, <2>12, OneRunGoes
  <1>5. CASE Dock!LaunchBatch
    <2>1. PICK via \in Vias :
            v1' = [r \in DockRuns |-> IF r \in DockBatch THEN Dock!Launched(via) ELSE v1[r]]
      BY <1>5 DEF Dock!LaunchBatch
    <2>2. /\ \A r \in DockBatch : v1[r] = Dock!Unlaunched
          /\ v5' = "active" /\ UNCHANGED <<v2, v3, v4, v6>>
      BY <1>5 DEF Dock!LaunchBatch
    <2>3. RunOK(Dock!Launched(via), v6.boots) /\ Dock!Launched(via) \in DockRun
          /\ Dock!Launched(via).via # "none"
      BY LaunchedRun DEF RunOK
    <2>4. \A r \in DockRuns : RunOK(v1'[r], v6.boots) /\ PanelOK(v4[r], v1'[r], v6.boots)
      <3>1. ASSUME NEW r \in DockRuns PROVE RunOK(v1'[r], v6.boots) /\ PanelOK(v4[r], v1'[r], v6.boots)
        <4>1. CASE r \in DockBatch
          <5>1. v1'[r] = Dock!Launched(via) /\ PanelOK(v4[r], Dock!Unlaunched, v6.boots)
            BY <1>1, <2>1, <2>2, <4>1
          <5> QED BY <1>3, <2>3, <5>1
        <4>2. CASE r \notin DockBatch
          BY <1>1, <2>1, <4>2
        <4> QED BY <4>1, <4>2
      <3> QED BY <3>1
    <2> HIDE DEF DockRun, DockPanel, DockCount
    <2>5. v1' \in [DockRuns -> DockRun]
      BY <1>1, <2>1, <2>3
    <2>6. v3 \in DockRuns => v1'[v3].row = "claimed"
      <3>1. v3 \in DockRuns => v3 \notin DockBatch
        BY <1>1, <1>2, <2>2
      <3> QED BY <1>1, <2>1, <3>1
    <2>7. BatchOK(v1', "active", v6.boots)
      <3>1. \A r \in DockBatch : v1'[r] = Dock!Launched(via)
        BY <2>1, DockConstants
      <3> QED BY <2>3, <3>1 DEF BatchOK
    <2>8. (\A r \in DockRuns : RunOK(v1[r], v6.boots) /\ PanelOK(v4[r], v1[r], v6.boots))'
      BY ZenonT(60), <2>2, <2>4 DEF RunOK, PanelOK
    <2>9. BatchOK(v1, v5, v6.boots)'
      BY <2>2, <2>7 DEF BatchOK
    <2> QED BY <1>1, <2>2, <2>5, <2>6, <2>8, <2>9 DEF DockInv
  <1> QED BY <1>4, <1>5

\* A poll is served, or is not.
LEMMA DockPolls ==
  ASSUME DockInv, NEW r \in DockRuns, Dock!Poll(r) \/ Dock!PollFails(r)
  PROVE  DockInv'
  <1>1. /\ v1 \in [DockRuns -> DockRun] /\ v4 \in [DockRuns -> DockPanel] /\ v6 \in DockCount
        /\ v6.boots \in Nat /\ (v3 \in DockRuns => v1[v3].row = "claimed")
        /\ RunOK(v1[r], v6.boots) /\ PanelOK(v4[r], v1[r], v6.boots)
    BY DEF DockInv, DockCount
  <1>2. CASE Dock!PollFails(r)
    <2>1. v6' = [v6 EXCEPT !.fails = @ + 1] /\ UNCHANGED <<v1, v3, v4, v5>>
      BY <1>2 DEF Dock!PollFails, Dock!Spend
    <2>2. v6' \in DockCount /\ v6'.boots = v6.boots
      BY <1>1, <2>1 DEF DockCount
    <2> QED BY <2>1, <2>2 DEF DockInv
  <1>3. CASE Dock!Poll(r)
    <2> DEFINE now == Dock!Synced(v1[r])
               t == [v4[r] EXCEPT !.answer = Dock!View(now)]
    <2>1. /\ v4[r].on /\ v1' = [v1 EXCEPT ![r] = now]
          /\ v4' = [v4 EXCEPT ![r].answer = Dock!View(v1'[r])] /\ UNCHANGED <<v2, v3, v5, v6>>
      BY <1>3 DEF Dock!Poll, Dock!Asks
    <2>2. RunOK(now, v6.boots) /\ RunGoes(v1[r], now) /\ now.row = v1[r].row /\ now.via = v1[r].via
      BY <1>1, SyncedRun
    <2>3. now \in DockRun
      BY <2>2 DEF RunOK
    <2>4. now.via # "none"
      BY <1>1, <2>1, <2>2 DEF PanelOK
    <2> HIDE DEF now
    <2>5. /\ Dock!View(now) \in DockAnswers \ {"none"}
          /\ Dock!View(now) \in DockEnds => now.fate = Dock!View(now)
          /\ Dock!View(now) = "not found" => v6.boots > 0 /\ now.map = "none" /\ now.via # "source"
      BY <1>1, <2>2, <2>4, ViewIsTrue
    <2>6. v1'[r] = now
      BY <1>1, <2>1
    <2>7. v4' = [v4 EXCEPT ![r] = t]
      BY <2>1, <2>6
    <2>8. PanelOK(v4[r], now, v6.boots) /\ v4[r] \in DockPanel
      BY <1>1, <2>2, PanelStaysTrue
    <2>9. /\ t \in DockPanel /\ t.answer = Dock!View(now) /\ t.shown = v4[r].shown /\ t.on = v4[r].on
      BY <2>5, <2>8 DEF DockPanel
    <2> HIDE DEF t
    <2>10. PanelOK(t, now, v6.boots)
      BY <2>1, <2>4, <2>5, <2>8, <2>9 DEF PanelOK
    <2> HIDE DEF DockRun, DockPanel, DockCount
    <2>11. /\ v1' \in [DockRuns -> DockRun] /\ v4' \in [DockRuns -> DockPanel] /\ v4'[r] = t
           /\ \A x \in DockRuns : x # r => v1'[x] = v1[x] /\ v4'[x] = v4[x]
      BY <1>1, <2>1, <2>3, <2>7, <2>9
    <2>12. v3' \in DockRuns => v1'[v3'].row = "claimed"
      BY <1>1, <2>1, <2>2, <2>6, <2>11
    <2>13. RunOK(v1'[r], v6.boots) /\ PanelOK(v4'[r], v1'[r], v6.boots) /\ RunGoes(v1[r], v1'[r])
      BY <2>2, <2>6, <2>10, <2>11
    <2> QED BY <1>1, <2>1, <2>11, <2>12, <2>13, OneRunGoes
  <1> QED BY <1>2, <1>3

\* The owner stops a run, queues it again, or it ages; a process ends.
LEMMA DockRunSteps ==
  ASSUME DockInv, NEW r \in DockRuns,
         Dock!Stop(r) \/ Dock!Requeue(r) \/ Dock!LocalEnds(r) \/ Dock!RowAges(r)
  PROVE  DockInv'
  <1>1. /\ v6 \in DockCount /\ RunOK(v1[r], v6.boots) /\ PanelOK(v4[r], v1[r], v6.boots)
        /\ v1[r] \in DockRun
    BY DEF DockInv, RunOK
  <1>2. CASE Dock!Stop(r)
    <2> DEFINE later == Dock!Stopped(v1[r])
    <2>1. v4[r].on /\ v1' = [v1 EXCEPT ![r] = later] /\ UNCHANGED <<v2, v3, v4, v5, v6>>
      BY <1>2 DEF Dock!Stop
    <2>2. v1[r].via # "none"
      BY <1>1, <2>1 DEF PanelOK
    <2>3. /\ RunOK(later, v6.boots) /\ RunGoes(v1[r], later)
          /\ v1[r].row = "claimed" => later.row = "claimed"
      BY <1>1, <2>2, StoppedRun
    <2> HIDE DEF later
    <2> QED BY <1>1, <2>1, <2>3, OneRunOnly
  <1>3. ASSUME NEW old \in BOOLEAN, v1[r].row = "queued", v1' = [v1 EXCEPT ![r].old = old],
               UNCHANGED <<v3, v4, v5>>, v6' \in DockCount, v6'.boots = v6.boots
        PROVE  DockInv'
    <2> DEFINE later == [v1[r] EXCEPT !.old = old]
    <2>1. v1' = [v1 EXCEPT ![r] = later]
      BY <1>3
    <2>2. /\ later \in DockRun /\ later.via = v1[r].via /\ later.map = v1[r].map
          /\ later.row = v1[r].row /\ later.fate = v1[r].fate
      BY <1>1 DEF DockRun
    <2>3. v1[r].via # "none"
      BY <1>1, <1>3 DEF RunOK
    <2> HIDE DEF later
    <2>4. RunOK(later, v6.boots) /\ RunGoes(v1[r], later)
      BY <1>1, <1>3, <2>2, <2>3 DEF RunOK, RunGoes
    <2> QED BY <1>3, <2>1, <2>2, <2>4, OneRunOnly
  <1>4. CASE Dock!Requeue(r)
    <2>1. /\ v1[r].row = "queued" /\ v1' = [v1 EXCEPT ![r].old = FALSE] /\ UNCHANGED <<v3, v4, v5>>
          /\ v6' = [v6 EXCEPT !.requeues = @ + 1]
      BY <1>4 DEF Dock!Requeue, Dock!Spend
    <2>2. v6' \in DockCount /\ v6'.boots = v6.boots
      BY <1>1, <2>1 DEF DockCount
    <2> QED BY <1>3, <2>1, <2>2
  <1>5. CASE Dock!RowAges(r)
    BY <1>1, <1>3, <1>5 DEF Dock!RowAges
  <1>6. CASE Dock!LocalEnds(r)
    <2>1. PICK end \in {"done", "failed"} : v1' = [v1 EXCEPT ![r].map = end, ![r].fate = end]
      BY <1>6 DEF Dock!LocalEnds
    <2>2. v1[r].via = "local" /\ v1[r].map = "running" /\ UNCHANGED <<v3, v4, v5, v6>>
      BY <1>6 DEF Dock!LocalEnds
    <2> DEFINE later == [v1[r] EXCEPT !.map = end, !.fate = end]
    <2>3. v1' = [v1 EXCEPT ![r] = later]
      BY <2>1
    <2>4. /\ later \in DockRun /\ later.via = "local" /\ later.map = end /\ later.row = v1[r].row
          /\ later.fate = end /\ later.old = v1[r].old
      BY <1>1, <2>2 DEF DockRun, DockMaps, DockFates, DockEnds
    <2>5. v1[r].fate = "pending" /\ v1[r].row = "none"
      BY <1>1, <2>2 DEF RunOK
    <2> HIDE DEF later
    <2>6. RunOK(later, v6.boots)
      BY <1>1, <2>4, <2>5 DEF RunOK, DockEnds
    <2>7. RunGoes(v1[r], later)
      BY <2>2, <2>4, <2>5 DEF RunGoes, DockEnds
    <2> QED BY <1>1, <2>2, <2>3, <2>4, <2>5, <2>6, <2>7, OneRunOnly
  <1> QED BY <1>2, <1>4, <1>5, <1>6

\* The row of a run that the laptop works on ends.
LEMMA RowEnds ==
  ASSUME NEW run, NEW boots, RunOK(run, boots), run.row = "claimed",
         NEW row \in {"done", "failed", "dead"}
  PROVE  LET later == [run EXCEPT !.row = row, !.fate = RowSays(row)]
         IN  RunOK(later, boots) /\ RunGoes(run, later)
  <1> DEFINE later == [run EXCEPT !.row = row, !.fate = RowSays(row)]
  <1>1. run \in DockRun /\ RowSays(row) \in DockFates /\ row \in DockRows
    BY DEF RunOK, RowSays, DockFates, DockEnds, DockRows
  <1>2. /\ later \in DockRun /\ later.via = run.via /\ later.map = run.map /\ later.row = row
        /\ later.fate = RowSays(row) /\ later.old = run.old
    BY <1>1 DEF DockRun
  <1>3. run.fate = "pending" /\ run.via \in {"runner", "source"} /\ run.old = FALSE /\ run.map \notin DockEnds
    BY <1>1 DEF RunOK, DockEnds, DockRun
  <1> HIDE DEF later
  <1>4. RunOK(later, boots)
    BY <1>2, <1>3 DEF RunOK
  <1>5. RunGoes(run, later)
    BY <1>2, <1>3 DEF RunGoes, DockEnds
  <1> QED BY <1>4, <1>5 DEF later

\* The laptop: it starts, polls and claims, reports, and goes away.
LEMMA DockLaptop ==
  ASSUME DockInv,
         Dock!LaptopStarts \/ Dock!LaptopPolls \/ Dock!LaptopReports \/ Dock!LaptopStops \/ Dock!PollAges
  PROVE  DockInv'
  <1>1. /\ v1 \in [DockRuns -> DockRun] /\ v6 \in DockCount /\ (v3 \in DockRuns => v1[v3].row = "claimed")
        /\ \A r \in DockRuns : RunOK(v1[r], v6.boots)
    BY DEF DockInv
  <1>2. "away" \notin DockRuns /\ "idle" \notin DockRuns
    BY DockConstants
  <1>3. ASSUME UNCHANGED <<v1, v4, v5, v6>>, v3' \notin DockRuns \/ v3' = v3
        PROVE  DockInv'
    BY <1>3 DEF DockInv
  <1>4. CASE Dock!LaptopStarts \/ Dock!PollAges
    BY <1>2, <1>3, <1>4 DEF Dock!LaptopStarts, Dock!PollAges
  <1>5. CASE Dock!LaptopPolls
    <2>1. UNCHANGED <<v4, v5, v6>>
      BY <1>5 DEF Dock!LaptopPolls
    <2>2. \/ UNCHANGED <<v1, v3>>
          \/ \E r \in DockRuns :
               v1[r].row = "queued" /\ v3' = r /\ v1' = [v1 EXCEPT ![r].row = "claimed", ![r].old = FALSE]
      BY <1>5 DEF Dock!LaptopPolls
    <2>3. ASSUME NEW r \in DockRuns, v1[r].row = "queued", v3' = r,
                 v1' = [v1 EXCEPT ![r].row = "claimed", ![r].old = FALSE]
          PROVE  DockInv'
      <3> DEFINE later == [v1[r] EXCEPT !.row = "claimed", !.old = FALSE]
      <3>1. v1' = [v1 EXCEPT ![r] = later]
        BY <2>3
      <3>2. RunOK(v1[r], v6.boots) /\ v1[r] \in DockRun
        BY <1>1
      <3>3. /\ later \in DockRun /\ later.via = v1[r].via /\ later.map = v1[r].map
            /\ later.row = "claimed" /\ later.fate = v1[r].fate /\ later.old = FALSE
        BY <3>2 DEF DockRun, DockRows
      <3> HIDE DEF later
      <3>4. RunOK(later, v6.boots) /\ RunGoes(v1[r], later)
        BY <2>3, <3>2, <3>3 DEF RunOK, RunGoes, RowIsOver
      <3> QED BY <1>1, <2>1, <2>3, <3>1, <3>3, <3>4, OneRunOnly
    <2> QED BY <1>3, <2>1, <2>2, <2>3
  <1>6. CASE Dock!LaptopReports
    <2>1. PICK end \in {"done", "failed"} :
            v1' = [v1 EXCEPT ![v3] = Dock!Synced([@ EXCEPT !.row = end, !.fate = end])]
      BY <1>6 DEF Dock!LaptopReports
    <2>2. v3 \in DockRuns /\ v3' = "idle" /\ UNCHANGED <<v4, v5, v6>>
      BY <1>6 DEF Dock!LaptopReports
    <2> DEFINE ended == [v1[v3] EXCEPT !.row = end, !.fate = RowSays(end)]
               later == Dock!Synced(ended)
    <2>3. RowSays(end) = end
      BY DEF RowSays
    <2>4. v1' = [v1 EXCEPT ![v3] = later]
      BY SMTT(30), <2>1, <2>3
    <2>5. RunOK(ended, v6.boots) /\ RunGoes(v1[v3], ended)
      BY <1>1, <2>2, RowEnds
    <2> HIDE DEF ended
    <2>6. RunOK(later, v6.boots) /\ RunGoes(ended, later)
      BY <2>5, SyncedRun
    <2> HIDE DEF later
    <2>7. RunGoes(v1[v3], later)
      BY <2>5, <2>6 DEF RunGoes
    <2> QED BY <1>1, <1>2, <2>2, <2>4, <2>6, <2>7, OneRunOnly
  <1>7. CASE Dock!LaptopStops
    <2>1. v3' = "away" /\ UNCHANGED <<v4, v5, v6>>
      BY <1>7 DEF Dock!LaptopStops
    <2>2. CASE v3 \notin DockRuns
      BY <1>2, <1>3, <1>7, <2>1, <2>2 DEF Dock!LaptopStops
    <2>3. CASE v3 \in DockRuns
      <3> DEFINE later == [v1[v3] EXCEPT !.row = "dead", !.fate = RowSays("dead")]
      <3>1. v1' = [v1 EXCEPT ![v3] = later]
        BY <1>7, <2>3 DEF Dock!LaptopStops, Dock!Ends, RowSays
      <3>2. RunOK(later, v6.boots) /\ RunGoes(v1[v3], later)
        BY <1>1, <2>3, RowEnds
      <3> HIDE DEF later
      <3> QED BY <1>1, <1>2, <2>1, <2>3, <3>1, <3>2, OneRunOnly
    <2> QED BY <2>2, <2>3
  <1> QED BY <1>4, <1>5, <1>6, <1>7

\* The entries of runs that are over are closed, for the batch panel.
LEMMA DockBatchSteps ==
  ASSUME DockInv, Dock!PollBatch \/ Dock!CloseBatch
  PROVE  DockInv'
  <1>1. /\ v1 \in [DockRuns -> DockRun] /\ v6 \in DockCount /\ v6.boots \in Nat
        /\ (v3 \in DockRuns => v1[v3].row = "claimed")
        /\ \A r \in DockRuns : RunOK(v1[r], v6.boots) /\ PanelOK(v4[r], v1[r], v6.boots)
        /\ BatchOK(v1, v5, v6.boots)
    BY DEF DockInv, DockCount
  <1>2. CASE Dock!CloseBatch
    <2>1. v5' = "closed" /\ UNCHANGED <<v1, v3, v4, v6>>
      BY <1>2 DEF Dock!CloseBatch
    <2>2. BatchOK(v1, v5, v6.boots)'
      BY <2>1 DEF BatchOK
    <2> QED BY <2>1, <2>2 DEF DockInv
  <1>3. CASE Dock!PollBatch
    <2> DEFINE now(r) == Dock!Synced(v1[r])
    <2>1. /\ v5 = "active" /\ v1' = [r \in DockRuns |-> now(r)] /\ UNCHANGED <<v3, v4, v6>>
          /\ v5' = IF {r \in DockBatch : v1'[r].map = "running"} = {} THEN "complete" ELSE "active"
      BY <1>3 DEF Dock!PollBatch, Dock!BatchRunning
    <2>2. \A r \in DockRuns : /\ RunOK(now(r), v6.boots) /\ RunGoes(v1[r], now(r)) /\ now(r).row = v1[r].row
                              /\ now(r).via = v1[r].via
      BY <1>1, SyncedRun
    <2> HIDE DEF now
    <2>3. \A r \in DockRuns : RunOK(v1'[r], v6.boots) /\ PanelOK(v4[r], v1'[r], v6.boots)
      BY <1>1, <2>1, <2>2, PanelStaysTrue
    <2>4. \A r \in DockBatch : v1'[r] = now(r) /\ v1[r].via # "none"
      BY <1>1, <2>1, DockConstants DEF BatchOK
    <2>5. BatchOK(v1', v5', v6.boots)
      <3>1. ASSUME NEW r \in DockBatch, v5' = "complete", v6.boots = 0
            PROVE  v1'[r].via = "source" \/ v1'[r].fate \in DockEnds
        <4>1. v1'[r].map # "running" /\ RunOK(v1'[r], v6.boots) /\ v1'[r].via # "none"
          BY <2>1, <2>2, <2>3, <2>4, <3>1, DockConstants
        <4>2. v1'[r].map \in DockMaps /\ v1'[r].via \in DockVias
          BY <4>1 DEF RunOK, DockRun
        <4> QED BY <3>1, <4>1, <4>2 DEF RunOK, DockMaps, DockVias, DockEnds
      <3>2. \A r \in DockBatch : v1'[r].via # "none"
        BY <2>2, <2>4, DockConstants
      <3> QED BY <2>1, <3>1, <3>2 DEF BatchOK
    <2> HIDE DEF DockRun, DockPanel, DockCount
    <2>6. v1' \in [DockRuns -> DockRun]
      BY <2>1, <2>2 DEF RunOK
    <2>7. v3 \in DockRuns => v1'[v3].row = "claimed"
      BY <1>1, <2>1, <2>2
    <2>8. (\A r \in DockRuns : RunOK(v1[r], v6.boots) /\ PanelOK(v4[r], v1[r], v6.boots))'
      BY ZenonT(60), <2>1, <2>3 DEF RunOK, PanelOK
    <2>9. BatchOK(v1, v5, v6.boots)'
      BY <2>1, <2>5 DEF BatchOK
    <2> QED BY <2>1, <2>6, <2>7, <2>8, <2>9 DEF DockInv
  <1> QED BY <1>2, <1>3

\* The server restarts, and the Map is empty.
LEMMA DockRestarts ==
  ASSUME DockInv, Dock!Restart
  PROVE  DockInv'
  <1>1. /\ v1 \in [DockRuns -> DockRun] /\ v6 \in DockCount /\ v6.boots \in Nat
        /\ (v3 \in DockRuns => v1[v3].row = "claimed")
        /\ \A r \in DockRuns : RunOK(v1[r], v6.boots) /\ PanelOK(v4[r], v1[r], v6.boots)
        /\ BatchOK(v1, v5, v6.boots)
    BY DEF DockInv, DockCount
  <1> DEFINE lost(r) == Dock!Lost(v1[r])
  <1>2. /\ v6' = [v6 EXCEPT !.boots = @ + 1] /\ v1' = [r \in DockRuns |-> lost(r)]
        /\ UNCHANGED <<v3, v4, v5>>
    BY DEF Dock!Restart, Dock!Spend
  <1>3. v6' \in DockCount /\ v6'.boots = v6.boots + 1
    BY <1>1, <1>2 DEF DockCount
  <1>4. ASSUME NEW r \in DockRuns
        PROVE  RunOK(lost(r), v6.boots + 1) /\ RunGoes(v1[r], lost(r)) /\ lost(r).row = v1[r].row
    <2> DEFINE run == v1[r]
               fate == IF run.via = "local" /\ run.fate = "pending" THEN "unknown" ELSE run.fate
               later == [run EXCEPT !.map = "none", !.fate = fate]
    <2>1. lost(r) = later
      BY DEF Dock!Lost
    <2>2. RunOK(run, v6.boots) /\ run \in DockRun
      BY <1>1
    <2>3. fate \in DockFates
      BY <2>2 DEF DockRun, DockFates
    <2>4. run.via = "none" => run.map = "none" /\ fate = run.fate
      BY <2>2 DEF RunOK, Dock!Unlaunched
    <2>5. run.fate # "pending" \/ run.via # "local" => fate = run.fate
      OBVIOUS
    <2> HIDE DEF run, fate
    <2>6. /\ later \in DockRun /\ later.via = run.via /\ later.map = "none" /\ later.row = run.row
          /\ later.fate = fate /\ later.old = run.old
      BY <2>2, <2>3 DEF DockRun, DockMaps
    <2>7. run.via = "none" => later = run
      BY <2>2, <2>4 DEF DockRun
    <2> HIDE DEF later
    <2>8. v6.boots + 1 # 0
      BY <1>1
    <2>9. RunOK(later, v6.boots + 1)
      BY <2>2, <2>5, <2>6, <2>7, <2>8 DEF RunOK, DockEnds
    <2>10. RunGoes(run, later)
      BY <2>5, <2>6 DEF RunGoes, DockEnds
    <2> HIDE DEF lost
    <2> QED BY <2>1, <2>6, <2>9, <2>10 DEF run
  <1> HIDE DEF lost
  <1>5. v6.boots + 1 \in Nat /\ v6.boots <= v6.boots + 1
    BY <1>1
  <1>6. \A r \in DockRuns : v1'[r] = lost(r) /\ PanelOK(v4[r], lost(r), v6.boots + 1)
    BY <1>1, <1>2, <1>4, <1>5, PanelStaysTrue
  <1>7. BatchOK(v1', v5, v6.boots + 1)
    <2>1. \A r \in DockBatch : RunGoes(v1[r], v1'[r])
      BY <1>4, <1>6, DockConstants
    <2> QED BY <1>1, <1>5, <2>1, BatchStaysTrue
  <1> HIDE DEF DockRun, DockPanel, DockCount
  <1>8. v1' \in [DockRuns -> DockRun]
    BY <1>2, <1>4 DEF RunOK
  <1>9. (v3 \in DockRuns => v1[v3].row = "claimed")'
    BY <1>1, <1>2, <1>4, <1>6
  <1>10. (\A r \in DockRuns : RunOK(v1[r], v6.boots) /\ PanelOK(v4[r], v1[r], v6.boots))'
    BY ZenonT(60), <1>2, <1>3, <1>4, <1>6 DEF RunOK, PanelOK
  <1>11. BatchOK(v1, v5, v6.boots)'
    BY <1>2, <1>3, <1>7 DEF BatchOK
  <1>12. v4' \in [DockRuns -> DockPanel]
    BY <1>2 DEF DockInv
  <1> QED BY <1>3, <1>8, <1>9, <1>10, <1>11, <1>12 DEF DockInv

LEMMA DockStep ==
  ASSUME DockInv, Dock!DockNext
  PROVE  DockInv'
  BY DockPanels, DockLaunches, DockPolls, DockRunSteps, DockLaptop, DockBatchSteps, DockRestarts
     DEF Dock!DockNext

-----------------------------------------------------------------------------
(***************************************************************************)
(* JobBoard.                                                               *)
(***************************************************************************)

-----------------------------------------------------------------------------
LEMMA BoardFacts ==
  /\ None \notin Jobs /\ None \notin Board!Owners /\ None \notin Board!Statuses
  /\ None \notin BoardJob /\ BoardNotes \subseteq Nat
  /\ Board!Empty \in BoardNotes /\ Board!ByAgent \in BoardNotes /\ Board!AutoCloseNote \in BoardNotes
  /\ Board!Owners \subseteq BoardNotes
  <1>1. Board!Owners \subseteq Nat
    BY ClientAssumption DEF Board!Owners
  <1>2. BoardNotes \subseteq Nat
    BY <1>1 DEF BoardNotes, Board!Empty, Board!ByAgent, Board!AutoCloseNote
  <1>3. BoardJob \subseteq [id : Jobs, note : Nat, status : Board!Statuses]
    BY <1>2 DEF BoardJob
  <1> QED BY <1>1, <1>2, <1>3, BoardAssumption DEF BoardNotes

\* The requests by their kind.
LEMMA CallIs ==
  ASSUME NEW c, NEW owed, NEW id, NEW types, CallOK(c, owed, id, types)
  PROVE  /\ c.kind = "list" <=> c \in BoardList
         /\ Board!OfDrawer(c) <=> c \in BoardGet
         /\ Board!IsPatch(c) <=> c \in BoardPatch
         /\ c.kind = "move" => c \in BoardPatch
         /\ c.job \in Jobs \cup {None}
  <1>1. c \in BoardList => c.kind = "list" /\ c.job = None
    BY DEF BoardList
  <1>2. c \in BoardGet => c.kind \in {"load", "refetch", "fresh"} /\ c.job \in Jobs
    BY DEF BoardGet
  <1>3. c \in BoardPatch => c.kind \in {"move", "save", "flush"} /\ c.job \in Jobs
    BY DEF BoardPatch
  <1>4. c \in BoardList \/ c \in BoardGet \/ c \in BoardPatch
    BY DEF CallOK
  <1> QED BY <1>1, <1>2, <1>3, <1>4 DEF Board!OfDrawer, Board!IsPatch

\* What the ghost knows only grows.
BoardGrows(owed, later) ==
  /\ later.typed = owed.typed
  /\ \A j \in Jobs : owed.notes[j] \subseteq later.notes[j] /\ owed.statuses[j] \subseteq later.statuses[j]

LEMMA CallStays ==
  ASSUME NEW c, NEW owed, NEW later, NEW id, NEW next, NEW types \in Nat, NEW after \in Nat,
         CallOK(c, owed, id, types), BoardGrows(owed, later), types <= after,
         next = id \/ c \notin BoardGet
  PROVE  CallOK(c, later, next, after)
  <1>1. c \in BoardGet => c.job \in Jobs
    BY DEF BoardGet
  <1>2. c \in BoardPatch /\ c.note # None => c.note \in Nat
    BY BoardFacts DEF BoardPatch
  <1>3. c \in BoardPatch /\ c.note # None => c.note < 3 + after
    BY <1>2 DEF CallOK
  <1>4. c \in BoardGet => c.job = next
    BY DEF CallOK
  <1>5. c \in BoardGet /\ c.got # None => c.got.note \in later.notes[c.job]
    BY <1>1 DEF CallOK, BoardGrows
  <1>6. c \in BoardList /\ c.got # None => \A j \in Jobs : c.got[j].status \in later.statuses[j]
    BY DEF CallOK, BoardGrows
  <1> QED BY <1>3, <1>4, <1>5, <1>6 DEF CallOK

LEMMA TextStays ==
  ASSUME NEW j \in Jobs, NEW owed, NEW later, NEW pending, NEW after, NEW d, NEW failed,
         TextKept(j, owed, pending, d, failed), BoardGrows(owed, later),
         \A c \in pending : c \in BoardPatch => c \in after
  PROVE  TextKept(j, later, after, d, failed)
  <1>1. owed.notes[j] \subseteq later.notes[j] /\ later.typed[j] = owed.typed[j]
    BY DEF BoardGrows
  <1> QED BY <1>1 DEF TextKept

\* A job is written.
LEMMA WrittenJob ==
  ASSUME NEW j \in Jobs, NEW row \in BoardRow, NEW types \in Nat,
         RowsOK(v1, v7, types), row.note < 3 + types,
         "submitted" \in v7.statuses[j] \cup {row.status} <=> row.applied,
         Board!Written(j, row)
  PROVE  /\ RowsOK(v1', v7', types) /\ BoardGrows(v7, v7')
         /\ row.note \in v7'.notes[j] /\ row.status \in v7'.statuses[j]
         /\ v7'.unsaved = v7.unsaved /\ v7'.stray = v7.stray
  <1>1. v1' = [v1 EXCEPT ![j] = row]
    BY DEF Board!Written
  <1>2. v7 \in BoardOwed /\ v1 \in [Jobs -> BoardRow]
    BY DEF RowsOK
  <1>3. row.note \in BoardNotes /\ row.status \in Board!Statuses
    BY DEF BoardRow
  <1> DEFINE notes == [v7.notes EXCEPT ![j] = @ \cup {row.note}]
             statuses == [v7.statuses EXCEPT ![j] = @ \cup {row.status}]
  <1>4. v7.notes \in [Jobs -> SUBSET BoardNotes] /\ v7.statuses \in [Jobs -> SUBSET Board!Statuses]
    BY <1>2 DEF BoardOwed
  <1>5. notes \in [Jobs -> SUBSET BoardNotes] /\ statuses \in [Jobs -> SUBSET Board!Statuses]
    BY <1>3, <1>4
  <1>6. /\ v7'.typed = v7.typed /\ v7'.notes = notes /\ v7'.statuses = statuses
        /\ v7'.unsaved = v7.unsaved /\ v7'.stray = v7.stray
    BY <1>2 DEF Board!Written, BoardOwed
  <1>7. v7' = [typed |-> v7.typed, notes |-> notes, statuses |-> statuses, unsaved |-> v7.unsaved,
               stray |-> v7.stray]
    BY <1>2 DEF Board!Written, BoardOwed
  <1>8. v7' \in BoardOwed
    BY <1>2, <1>5, <1>7 DEF BoardOwed
  <1>9. \A i \in Jobs : /\ i # j => notes[i] = v7.notes[i] /\ statuses[i] = v7.statuses[i]
                        /\ i = j => notes[i] = v7.notes[i] \cup {row.note}
                        /\ i = j => statuses[i] = v7.statuses[i] \cup {row.status}
    BY <1>4
  <1> HIDE DEF notes, statuses
  <1>10. v1' \in [Jobs -> BoardRow] /\ \A i \in Jobs : v1'[i] = IF i = j THEN row ELSE v1[i]
    BY <1>1, <1>2
  <1>11. BoardGrows(v7, v7')
    BY <1>6, <1>9 DEF BoardGrows
  <1>12. ASSUME NEW i \in Jobs
         PROVE  /\ v1'[i].note \in notes[i] /\ v1'[i].status \in statuses[i]
                /\ "submitted" \in statuses[i] <=> v1'[i].applied
                /\ \A n \in notes[i] : n < 3 + types
    <2>1. CASE i = j
      BY <1>9, <1>10, <2>1 DEF RowsOK
    <2>2. CASE i # j
      BY <1>9, <1>10, <2>2 DEF RowsOK
    <2> QED BY <2>1, <2>2
  <1>13. RowsOK(v1', v7', types)
    BY <1>6, <1>8, <1>10, <1>12 DEF RowsOK
  <1> QED BY <1>6, <1>9, <1>11, <1>13

\* A PATCH is applied: the text it carries is stored.
LEMMA PatchedJob ==
  ASSUME NEW c \in BoardPatch, NEW types \in Nat, RowsOK(v1, v7, types),
         c.note # None => c.note < 3 + types, Board!PatchJob(c)
  PROVE  /\ RowsOK(v1', v7', types) /\ BoardGrows(v7, v7')
         /\ c.note # None => c.note \in v7'.notes[c.job]
  <1>1. /\ c.job \in Jobs /\ c.status \in Board!Statuses \cup {None}
        /\ c.note \in Board!Owners \cup {None}
    BY DEF BoardPatch
  <1> DEFINE j == c.job
             row == v1[j]
             status == IF c.status = None THEN row.status ELSE c.status
             note == IF c.note = None THEN row.note ELSE c.note
             later == [row EXCEPT !.status = status, !.note = note,
                                  !.applied = row.applied \/ c.status = "submitted"]
  <1>2. row \in BoardRow /\ row.note \in v7.notes[j] /\ row.status \in v7.statuses[j]
        /\ ("submitted" \in v7.statuses[j] <=> row.applied) /\ row.note < 3 + types
    BY <1>1 DEF RowsOK
  <1>3. Board!Written(j, later)
    BY <1>2 DEF Board!PatchJob, BoardRow
  <1> HIDE DEF row
  <1>4. status \in Board!Statuses /\ note \in BoardNotes /\ note < 3 + types
    BY <1>1, <1>2, BoardFacts DEF BoardRow
  <1>5. (row.applied \/ c.status = "submitted") \in BOOLEAN
    BY <1>2 DEF BoardRow
  <1>6. "submitted" \in v7.statuses[j] \cup {status} <=> (row.applied \/ c.status = "submitted")
    <2>1. CASE c.status = None
      BY <1>2, <2>1, BoardFacts DEF Board!Statuses, Board!ConfirmStatuses
    <2>2. CASE c.status # None
      BY <1>2, <2>2
    <2> QED BY <2>1, <2>2
  <1> HIDE DEF status, note
  <1>7. /\ later \in BoardRow /\ later.status = status /\ later.note = note
        /\ later.applied = (row.applied \/ c.status = "submitted")
    BY <1>2, <1>4, <1>5 DEF BoardRow
  <1> HIDE DEF later
  <1>8. /\ RowsOK(v1', v7', types) /\ BoardGrows(v7, v7') /\ note \in v7'.notes[j]
    <2>1. "submitted" \in v7.statuses[j] \cup {later.status} <=> later.applied
      BY <1>6, <1>7
    <2> HIDE DEF j
    <2>2. j \in Jobs
      BY <1>1 DEF j
    <2> QED BY <1>3, <1>4, <1>7, <2>1, <2>2, WrittenJob
  <1> QED BY <1>8 DEF note

LEMMA BoardStart == Board!BoardInit => BoardInv
  <1> SUFFICES ASSUME Board!BoardInit PROVE BoardInv
    OBVIOUS
  <1> DEFINE row == [status |-> "lead", note |-> Board!Empty, applied |-> FALSE, overdue |-> FALSE]
  <1>1. "lead" \in Board!Statuses /\ "submitted" # "lead"
    BY DEF Board!Statuses, Board!PreApplication
  <1>2. row \in BoardRow /\ row.status = "lead" /\ row.note = 0 /\ row.applied = FALSE
    BY <1>1, BoardFacts DEF BoardRow, Board!Empty
  <1> HIDE DEF row
  <1>3. v1 = [j \in Jobs |-> row] /\ v2 = [status |-> [j \in Jobs |-> v1[j].status], error |-> FALSE]
    BY DEF Board!BoardInit, row
  <1>4. v7 = [typed |-> [j \in Jobs |-> None], notes |-> [j \in Jobs |-> {Board!Empty}],
              statuses |-> [j \in Jobs |-> {v1[j].status}], unsaved |-> None, stray |-> FALSE]
    BY DEF Board!BoardInit
  <1>5. v8 = [moves |-> 0, types |-> 0, events |-> 0, failed |-> FALSE] /\ v5 = {}
    BY DEF Board!BoardInit
  <1>6. v8 \in BoardTally /\ v8.types = 0
    BY <1>5 DEF BoardTally
  <1>7. v7 \in BoardOwed
    BY <1>1, <1>2, <1>3, <1>4, BoardFacts DEF BoardOwed
  <1>8. ASSUME NEW j \in Jobs
        PROVE  /\ v1[j] = row /\ v7.notes[j] = {0} /\ v7.statuses[j] = {"lead"} /\ v7.typed[j] = None
               /\ v2.status[j] = "lead"
    BY <1>2, <1>3, <1>4 DEF Board!Empty
  <1>9. RowsOK(v1, v7, 0)
    BY <1>1, <1>2, <1>3, <1>7, <1>8 DEF RowsOK
  <1>10. v2 \in BoardCards
    BY <1>1, <1>2, <1>3 DEF BoardCards
  <1>11. v3 \in BoardAsked
    BY DEF Board!BoardInit, BoardAsked
  <1>12. DrawerOK(v4, 0)
    BY DEF Board!BoardInit, Board!Closed, DrawerOK, BoardDrawer
  <1>13. \A j \in Jobs : TextKept(j, v7, v5, v4, v8.failed) /\ CardKept(j, v2, v7, v5)
    BY <1>8 DEF TextKept, CardKept
  <1> QED BY <1>5, <1>6, <1>9, <1>10, <1>11, <1>12, <1>13 DEF BoardInv

LEMMA BoardStays ==
  BoardInv /\ UNCHANGED <<v1, v2, v3, v4, v5, v6, v7, v8>> => BoardInv'
  <1> SUFFICES ASSUME BoardInv, UNCHANGED <<v1, v2, v3, v4, v5, v6, v7, v8>> PROVE BoardInv'
    OBVIOUS
  <1>1. v8' \in BoardTally /\ v2' \in BoardCards /\ v3' \in BoardAsked
    BY DEF BoardInv
  <1>2. RowsOK(v1', v7', v8'.types) /\ DrawerOK(v4', v8'.types)
    BY DEF BoardInv
  <1>3. \A c \in v5' : CallOK(c, v7', v4'.id, v8'.types)
    BY DEF BoardInv
  <1>4. \A j \in Jobs : TextKept(j, v7', v5', v4', v8'.failed) /\ CardKept(j, v2', v7', v5')
    BY DEF BoardInv
  <1> QED BY <1>1, <1>2, <1>3, <1>4 DEF BoardInv

LEMMA BoardHolds ==
  BoardInv => Board!TypedIsSaved /\ Board!NoPhantomCard /\ Board!BoardTypeOK
  <1> SUFFICES ASSUME BoardInv PROVE Board!TypedIsSaved /\ Board!NoPhantomCard /\ Board!BoardTypeOK
    OBVIOUS
  <1>1. Board!TypedIsSaved
    BY DEF BoardInv, DrawerOK, TextKept, Board!TypedIsSaved
  <1>2. Board!NoPhantomCard
    BY DEF BoardInv, CardKept, Board!NoPhantomCard
  <1>3. v1 \in [Jobs -> BoardRow] /\ v2 \in BoardCards
    BY DEF BoardInv, RowsOK
  <1>4. \A j \in Jobs : "submitted" \in v7.statuses[j] <=> v1[j].applied
    BY DEF BoardInv, RowsOK
  <1>5. v4.id \in Jobs \cup {None} /\ v4.draft \in Board!Owners \cup {None} /\ (v4.id = None => v4.job = None)
    BY DEF BoardInv, DrawerOK, BoardDrawer
  <1> QED BY <1>1, <1>2, <1>3, <1>4, <1>5 DEF Board!BoardTypeOK, BoardRow, BoardCards, BoardNotes

-----------------------------------------------------------------------------
\* A step that leaves the drawer: it keeps the invariant, if what it writes is right, every
\* request it makes is, and a PATCH that is gone was stored or failed.
LEMMA BoardGoesOn ==
  ASSUME BoardInv, v8' \in BoardTally, v8'.types = v8.types, v8.failed => v8'.failed,
         RowsOK(v1', v7', v8.types), BoardGrows(v7, v7'),
         v2' \in BoardCards, v3' \in BoardAsked, v4' = v4,
         \A c \in v5' : c \in v5 \/ CallOK(c, v7', v4.id, v8.types),
         \A c \in v5 : c \in BoardPatch =>
           c \in v5' \/ v8'.failed \/ (c.note # None => c.note \in v7'.notes[c.job]),
         \A j \in Jobs : CardKept(j, v2', v7', v5')
  PROVE  BoardInv'
  <1>1. v8.types \in Nat /\ v8 \in BoardTally
    BY DEF BoardInv, BoardTally
  <1>2. ASSUME NEW c \in v5' PROVE CallOK(c, v7', v4'.id, v8'.types)
    <2>1. CASE c \in v5
      <3>1. CallOK(c, v7, v4.id, v8.types)
        BY <2>1 DEF BoardInv
      <3> QED BY <1>1, <3>1, CallStays
    <2>2. CASE c \notin v5
      BY <2>2
    <2> QED BY <2>1, <2>2
  <1>3. ASSUME NEW j \in Jobs PROVE TextKept(j, v7', v5', v4', v8'.failed)
    <2>1. TextKept(j, v7, v5, v4, v8.failed) /\ v7'.typed[j] = v7.typed[j]
          /\ v7.notes[j] \subseteq v7'.notes[j]
      BY DEF BoardInv, BoardGrows
    <2>2. CASE \E c \in v5 : c \in BoardPatch /\ c.job = j /\ c.note = v7.typed[j]
      <3>1. PICK c \in v5 : c \in BoardPatch /\ c.job = j /\ c.note = v7.typed[j]
        BY <2>2
      <3> QED BY <2>1, <3>1 DEF TextKept
    <2>3. CASE ~(\E c \in v5 : c \in BoardPatch /\ c.job = j /\ c.note = v7.typed[j])
      BY <2>1, <2>3 DEF TextKept
    <2> QED BY <2>2, <2>3
  <1>4. DrawerOK(v4', v8'.types)
    BY DEF BoardInv
  <1> QED BY <1>2, <1>3, <1>4 DEF BoardInv

LEMMA GrowsSame ==
  ASSUME v7' = v7 PROVE BoardGrows(v7, v7')
  BY DEF BoardGrows

\* The board as it was, for a step.
LEMMA BoardNow ==
  ASSUME BoardInv
  PROVE  /\ v8 \in BoardTally /\ v8.types \in Nat /\ v8.failed \in BOOLEAN
         /\ RowsOK(v1, v7, v8.types) /\ v1 \in [Jobs -> BoardRow] /\ v7 \in BoardOwed
         /\ v2 \in BoardCards /\ v2.status \in [Jobs -> Board!Statuses]
         /\ v3 \in BoardAsked /\ DrawerOK(v4, v8.types) /\ v4 \in BoardDrawer
         /\ \A c \in v5 : CallOK(c, v7, v4.id, v8.types)
         /\ \A j \in Jobs : TextKept(j, v7, v5, v4, v8.failed) /\ CardKept(j, v2, v7, v5)
  BY DEF BoardInv, RowsOK, DrawerOK, BoardTally, BoardCards

LEMMA ListIsACall ==
  ASSUME NEW owed, NEW id, NEW types
  PROVE  Board!List \in BoardList /\ CallOK(Board!List, owed, id, types) /\ Board!List.kind = "list"
  <1>1. /\ Board!List \in BoardList /\ Board!List.kind = "list" /\ Board!List.got = None
    BY DEF Board!List, Board!Get, BoardList
  <1>2. Board!List \notin BoardGet /\ Board!List \notin BoardPatch
    BY <1>1 DEF BoardGet, BoardPatch
  <1> QED BY <1>1, <1>2 DEF CallOK

LEMMA GetIsACall ==
  ASSUME NEW kind \in {"load", "refetch", "fresh"}, NEW j \in Jobs, NEW owed, NEW types
  PROVE  Board!Get(kind, j) \in BoardGet /\ CallOK(Board!Get(kind, j), owed, j, types)
  <1> DEFINE c == Board!Get(kind, j)
  <1>1. c \in BoardGet /\ c.job = j /\ c.got = None /\ c.kind = kind
    BY DEF Board!Get, BoardGet
  <1> HIDE DEF c
  <1>2. c \notin BoardList /\ c \notin BoardPatch
    BY <1>1 DEF BoardList, BoardPatch
  <1> QED BY <1>1, <1>2 DEF CallOK, c

LEMMA PatchIsACall ==
  ASSUME NEW kind \in {"move", "save", "flush"}, NEW j \in Jobs, NEW status \in Board!Statuses \cup {None},
         NEW note \in Board!Owners \cup {None}, NEW owed, NEW id, NEW types,
         note # None => note < 3 + types
  PROVE  LET c == Board!Patch(kind, j, status, note)
         IN  /\ c \in BoardPatch /\ CallOK(c, owed, id, types)
             /\ c.kind = kind /\ c.job = j /\ c.note = note
  <1> DEFINE c == Board!Patch(kind, j, status, note)
  <1>1. c \in BoardPatch /\ c.kind = kind /\ c.job = j /\ c.note = note
    BY DEF Board!Patch, BoardPatch
  <1> HIDE DEF c
  <1>2. c \notin BoardList /\ c \notin BoardGet
    BY <1>1 DEF BoardList, BoardGet
  <1> QED BY <1>1, <1>2 DEF CallOK, c

\* Cards that wait for a request, while requests of their kind remain.
LEMMA CardStays ==
  ASSUME NEW j \in Jobs, NEW shown, NEW owed, NEW later, NEW pending, NEW after,
         CardKept(j, shown, owed, pending), BoardGrows(owed, later),
         \/ \A c \in pending : c.kind \in {"list", "move"} => c \in after
         \/ \E c \in after : c.kind \in {"list", "move"}
  PROVE  CardKept(j, shown, later, after)
  BY DEF CardKept, BoardGrows

-----------------------------------------------------------------------------
\* The list is read, and the expired jobs are closed.
LEMMA BoardServeList ==
  ASSUME BoardInv, NEW c \in v5, Board!ServeList(c)
  PROVE  BoardInv'
  <1>1. /\ c.kind = "list" /\ c.got = None
        /\ v5' = (v5 \ {c}) \cup {[c EXCEPT !.got = v1']}
        /\ v2' = v2 /\ v3' = v3 /\ v4' = v4 /\ v8' = v8
    BY DEF Board!ServeList
  <1>2. CallOK(c, v7, v4.id, v8.types) /\ c \in BoardList
    BY <1>1, BoardNow, CallIs
  <1> DEFINE expired == {j \in Jobs : ~v6 /\ Board!ShouldAutoClose(v1[j])}
             row(j) == IF j \in expired
                       THEN [v1[j] EXCEPT !.status = "closed", !.note = Board!AutoCloseNote]
                       ELSE v1[j]
  <1>3. v1' = [j \in Jobs |-> row(j)]
    BY DEF Board!ServeList, Board!SweepExpiredJobs
  <1>4. v7' = [v7 EXCEPT !.notes = [j \in Jobs |-> @[j] \cup {v1'[j].note}],
                         !.statuses = [j \in Jobs |-> @[j] \cup {v1'[j].status}]]
    BY DEF Board!ServeList, Board!SweepExpiredJobs
  <1>5. "closed" \in Board!Statuses /\ "submitted" # "closed"
    BY DEF Board!Statuses, Board!ConfirmStatuses
  <1>6. ASSUME NEW j \in Jobs
        PROVE  /\ row(j) \in BoardRow /\ row(j).applied = v1[j].applied
               /\ row(j).note \in v7.notes[j] \cup {Board!AutoCloseNote}
               /\ row(j).status \in v7.statuses[j] \cup {"closed"}
    <2> DEFINE now == v1[j]
    <2>1. now \in BoardRow /\ now.note \in v7.notes[j] /\ now.status \in v7.statuses[j]
      BY BoardNow DEF RowsOK
    <2> HIDE DEF now
    <2> DEFINE closed == [now EXCEPT !.status = "closed", !.note = Board!AutoCloseNote]
    <2>2. /\ closed \in BoardRow /\ closed.applied = now.applied /\ closed.status = "closed"
          /\ closed.note = Board!AutoCloseNote
      BY <1>5, <2>1, BoardFacts DEF BoardRow
    <2>3. row(j) = closed \/ row(j) = now
      BY DEF now
    <2> HIDE DEF closed
    <2>4. row(j) \in BoardRow /\ row(j).applied = now.applied
      BY <2>1, <2>2, <2>3
    <2> QED BY <2>1, <2>2, <2>3, <2>4 DEF now
  <1> HIDE DEF row, expired
  <1>7. v1' \in [Jobs -> BoardRow] /\ \A j \in Jobs : v1'[j] = row(j)
    BY <1>3, <1>6
  <1> DEFINE notes == [j \in Jobs |-> v7.notes[j] \cup {v1'[j].note}]
             statuses == [j \in Jobs |-> v7.statuses[j] \cup {v1'[j].status}]
  <1>8. v7 \in BoardOwed /\ RowsOK(v1, v7, v8.types) /\ v8.types \in Nat
    BY BoardNow
  <1>9. /\ v7' = [typed |-> v7.typed, notes |-> notes, statuses |-> statuses,
                  unsaved |-> v7.unsaved, stray |-> v7.stray]
    BY <1>4, <1>8 DEF BoardOwed
  <1>10. \A j \in Jobs : v1'[j].note \in BoardNotes /\ v1'[j].status \in Board!Statuses
    BY <1>7 DEF BoardRow
  <1>11. notes \in [Jobs -> SUBSET BoardNotes] /\ statuses \in [Jobs -> SUBSET Board!Statuses]
    BY <1>8, <1>10 DEF BoardOwed
  <1>12. v7' \in BoardOwed
    BY <1>8, <1>9, <1>11 DEF BoardOwed
  <1>13. /\ v7'.notes = notes /\ v7'.statuses = statuses /\ v7'.typed = v7.typed
    BY <1>9
  <1>14. \A j \in Jobs : /\ v7'.notes[j] = v7.notes[j] \cup {v1'[j].note}
                         /\ v7'.statuses[j] = v7.statuses[j] \cup {v1'[j].status}
    BY <1>13
  <1> HIDE DEF notes, statuses
  <1>15. BoardGrows(v7, v7')
    BY <1>13, <1>14 DEF BoardGrows
  <1>16. ASSUME NEW j \in Jobs
         PROVE  /\ v1'[j].note \in v7'.notes[j] /\ v1'[j].status \in v7'.statuses[j]
                /\ "submitted" \in v7'.statuses[j] <=> v1'[j].applied
                /\ \A n \in v7'.notes[j] : n < 3 + v8.types
    <2>1. /\ "submitted" \in v7.statuses[j] <=> v1[j].applied
          /\ \A n \in v7.notes[j] : n < 3 + v8.types
      BY <1>8 DEF RowsOK
    <2>2. Board!AutoCloseNote < 3 + v8.types
      BY <1>8 DEF Board!AutoCloseNote
    <2>3. v1'[j] = row(j)
      BY <1>7
    <2>4. v7'.notes[j] \subseteq v7.notes[j] \cup {Board!AutoCloseNote}
          /\ v7'.statuses[j] \subseteq v7.statuses[j] \cup {"closed"}
      BY <1>6, <1>14, <2>3
    <2>5. "submitted" \in v7'.statuses[j] <=> "submitted" \in v7.statuses[j]
      BY <1>5, <1>14, <2>4
    <2> QED BY <1>6, <1>14, <2>1, <2>2, <2>3, <2>4, <2>5
  <1>17. RowsOK(v1', v7', v8.types)
    BY <1>7, <1>12, <1>16 DEF RowsOK
  <1> DEFINE d == [c EXCEPT !.got = v1']
  <1>18. d \in BoardList /\ d.got = v1' /\ d.kind = "list"
    BY <1>2, <1>7 DEF BoardList
  <1> HIDE DEF d
  <1>19. CallOK(d, v7', v4.id, v8.types)
    <2>1. d \notin BoardGet /\ d \notin BoardPatch
      BY <1>18 DEF BoardGet, BoardPatch
    <2> QED BY <1>16, <1>18, <2>1 DEF CallOK
  <1>20. v5' = (v5 \ {c}) \cup {d}
    BY <1>1 DEF d
  <1>21. \A b \in v5' : b \in v5 \/ CallOK(b, v7', v4.id, v8.types)
    BY <1>19, <1>20
  <1>22. c \notin BoardPatch
    BY <1>1, <1>2, CallIs DEF BoardList, BoardPatch
  <1>23. \A j \in Jobs : CardKept(j, v2', v7', v5')
    BY <1>18, <1>20 DEF CardKept
  <1> QED BY <1>1, <1>15, <1>17, <1>20, <1>21, <1>22, <1>23, BoardNow, BoardGoesOn

\* A job is read, for the drawer.
LEMMA BoardServeJob ==
  ASSUME BoardInv, NEW c \in v5, Board!ServeJob(c)
  PROVE  BoardInv'
  <1>1. /\ Board!OfDrawer(c) /\ c.got = None
        /\ v5' = (v5 \ {c}) \cup {[c EXCEPT !.got = v1[c.job]]}
        /\ v1' = v1 /\ v2' = v2 /\ v3' = v3 /\ v4' = v4 /\ v7' = v7 /\ v8' = v8
    BY DEF Board!ServeJob
  <1>2. CallOK(c, v7, v4.id, v8.types) /\ c \in BoardGet
    BY <1>1, BoardNow, CallIs
  <1>3. c.job = v4.id /\ c.job \in Jobs
    BY <1>2 DEF CallOK, BoardGet
  <1> DEFINE row == v1[c.job]
             d == [c EXCEPT !.got = row]
  <1>4. row \in BoardRow /\ row.note \in v7.notes[c.job]
    BY <1>3, BoardNow DEF RowsOK
  <1> HIDE DEF row
  <1>5. d \in BoardGet /\ d.job = c.job /\ d.got = row
    BY <1>2, <1>4 DEF BoardGet
  <1>6. v5' = (v5 \ {c}) \cup {d}
    BY <1>1 DEF row
  <1> HIDE DEF d
  <1>7. CallOK(d, v7', v4.id, v8.types)
    <2>1. d \notin BoardList /\ d \notin BoardPatch
      BY <1>5 DEF BoardGet, BoardList, BoardPatch
    <2> QED BY <1>1, <1>3, <1>4, <1>5, <2>1 DEF CallOK
  <1>8. c \notin BoardPatch /\ c.kind \notin {"list", "move"}
    BY <1>2 DEF BoardGet, BoardPatch
  <1>9. \A b \in v5' : b \in v5 \/ CallOK(b, v7', v4.id, v8.types)
    BY <1>6, <1>7
  <1>10. BoardGrows(v7, v7')
    BY <1>1, GrowsSame
  <1>11. ASSUME NEW j \in Jobs PROVE CardKept(j, v2', v7', v5')
    BY <1>1, <1>6, <1>8, <1>10, BoardNow, CardStays
  <1> QED BY <1>1, <1>6, <1>8, <1>9, <1>10, <1>11, BoardNow, BoardGoesOn

\* An agent, or the end of a run, writes the job.
LEMMA BoardAgentWrites ==
  ASSUME BoardInv, NEW j \in Jobs, Board!AgentWrites(j)
  PROVE  BoardInv'
  <1>1. /\ v5' = v5 \cup {Board!List} /\ v8' = [v8 EXCEPT !.events = @ + 1]
        /\ v2' = v2 /\ v3' = v3 /\ v4' = v4
    BY DEF Board!AgentWrites, Board!Spend
  <1>2. v8' \in BoardTally /\ v8'.types = v8.types /\ v8'.failed = v8.failed
    BY <1>1, BoardNow DEF BoardTally
  <1> DEFINE row == v1[j]
  <1>3. /\ row \in BoardRow /\ row.note \in v7.notes[j] /\ row.status \in v7.statuses[j]
        /\ ("submitted" \in v7.statuses[j] <=> row.applied) /\ row.note < 3 + v8.types
    BY BoardNow DEF RowsOK
  <1> HIDE DEF row
  <1>4. RowsOK(v1', v7', v8.types) /\ BoardGrows(v7, v7')
    <2>1. CASE Board!Written(j, [row EXCEPT !.status = "drafted"])
      <3> DEFINE later == [row EXCEPT !.status = "drafted"]
      <3>1. "drafted" \in Board!Statuses /\ "drafted" # "submitted"
        BY DEF Board!Statuses, Board!PreApplication
      <3>2. /\ later \in BoardRow /\ later.status = "drafted" /\ later.note = row.note
            /\ later.applied = row.applied
        BY <1>3, <3>1 DEF BoardRow
      <3> HIDE DEF later
      <3>3. "submitted" \in v7.statuses[j] \cup {later.status} <=> later.applied
        BY <1>3, <3>1, <3>2
      <3>4. Board!Written(j, later)
        BY <2>1 DEF later
      <3> QED BY <1>3, <3>2, <3>3, <3>4, BoardNow, WrittenJob
    <2>2. CASE Board!Written(j, [row EXCEPT !.note = Board!ByAgent])
      <3> DEFINE later == [row EXCEPT !.note = Board!ByAgent]
      <3>1. /\ later \in BoardRow /\ later.status = row.status /\ later.note = Board!ByAgent
            /\ later.applied = row.applied
        BY <1>3, BoardFacts DEF BoardRow
      <3> HIDE DEF later
      <3>2. "submitted" \in v7.statuses[j] \cup {later.status} <=> later.applied
        BY <1>3, <3>1
      <3>3. Board!Written(j, later)
        BY <2>2 DEF later
      <3>4. later.note < 3 + v8.types
        BY <3>1, BoardNow DEF Board!ByAgent
      <3> QED BY <3>1, <3>2, <3>3, <3>4, BoardNow, WrittenJob
    <2> QED BY <2>1, <2>2 DEF Board!AgentWrites, row
  <1>5. /\ \A b \in v5' : b \in v5 \/ CallOK(b, v7', v4.id, v8.types)
        /\ \A i \in Jobs : CardKept(i, v2', v7', v5')
    BY <1>1, ListIsACall DEF CardKept
  <1> QED BY <1>1, <1>2, <1>4, <1>5, BoardNow, BoardGoesOn

\* Midnight.
LEMMA BoardNextDay ==
  ASSUME BoardInv, Board!NextDay
  PROVE  BoardInv'
  <1>1. /\ v8' = [v8 EXCEPT !.events = @ + 1]
        /\ v2' = v2 /\ v3' = v3 /\ v4' = v4 /\ v5' = v5 /\ v7' = v7
    BY DEF Board!NextDay, Board!Spend
  <1>2. v8' \in BoardTally /\ v8'.types = v8.types /\ v8'.failed = v8.failed
    BY <1>1, BoardNow DEF BoardTally
  <1>3. PICK late \in SUBSET Jobs :
          v1' = [j \in Jobs |-> [v1[j] EXCEPT !.overdue = @ \/ j \in late]]
    BY DEF Board!NextDay
  <1>4. ASSUME NEW j \in Jobs
        PROVE  /\ v1'[j] \in BoardRow /\ v1'[j].note = v1[j].note /\ v1'[j].status = v1[j].status
               /\ v1'[j].applied = v1[j].applied
    <2> DEFINE row == v1[j]
               over == row.overdue \/ j \in late
    <2>1. row \in BoardRow
      BY BoardNow
    <2>2. v1'[j] = [row EXCEPT !.overdue = over]
      BY <1>3
    <2>3. over \in BOOLEAN
      OBVIOUS
    <2> HIDE DEF row, over
    <2>4. /\ v1'[j] \in BoardRow /\ v1'[j].note = row.note /\ v1'[j].status = row.status
          /\ v1'[j].applied = row.applied
      BY <2>1, <2>2, <2>3 DEF BoardRow
    <2> QED BY <2>4 DEF row
  <1>5. v1' \in [Jobs -> BoardRow]
    BY <1>3, <1>4
  <1>6. RowsOK(v1', v7', v8.types)
    BY <1>1, <1>4, <1>5, BoardNow DEF RowsOK
  <1>7. BoardGrows(v7, v7')
    BY <1>1, GrowsSame
  <1> QED BY <1>1, <1>2, <1>6, <1>7, BoardNow, BoardGoesOn

-----------------------------------------------------------------------------
\* A PATCH is answered.
LEMMA BoardAnswerPatch ==
  ASSUME BoardInv, NEW c \in v5, Board!AnswerPatch(c)
  PROVE  BoardInv'
  <1> DEFINE fresh == IF c.kind = "save" /\ v4.id = c.job THEN {Board!Get("fresh", c.job)} ELSE {}
  <1>1. /\ Board!IsPatch(c) /\ Board!PatchJob(c)
        /\ v5' = (v5 \ {c}) \cup {Board!List} \cup fresh
        /\ v2' = v2 /\ v3' = v3 /\ v4' = v4 /\ v8' = v8
    BY DEF Board!AnswerPatch
  <1>2. CallOK(c, v7, v4.id, v8.types) /\ c \in BoardPatch
    BY <1>1, BoardNow, CallIs
  <1>3. c.job \in Jobs
    BY <1>2 DEF BoardPatch
  <1>4. c.note # None => c.note < 3 + v8.types
    BY <1>2 DEF CallOK
  <1>5. /\ RowsOK(v1', v7', v8.types) /\ BoardGrows(v7, v7')
        /\ c.note # None => c.note \in v7'.notes[c.job]
    BY <1>1, <1>2, <1>4, BoardNow, PatchedJob
  <1>6. \A b \in fresh : CallOK(b, v7', v4.id, v8.types)
    BY <1>3, GetIsACall
  <1> HIDE DEF fresh
  <1>7. \A b \in v5' : b \in v5 \/ CallOK(b, v7', v4.id, v8.types)
    BY <1>1, <1>6, ListIsACall
  <1>8. \A j \in Jobs : CardKept(j, v2', v7', v5')
    BY <1>1, ListIsACall DEF CardKept
  <1>9. \A b \in v5 : b \in BoardPatch => b \in v5' \/ (b.note # None => b.note \in v7'.notes[b.job])
    BY <1>1, <1>5
  <1> QED BY <1>1, <1>5, <1>7, <1>8, <1>9, BoardNow, BoardGoesOn

\* A request fails.
LEMMA BoardFails ==
  ASSUME BoardInv, NEW c \in v5, Board!Fails(c)
  PROVE  BoardInv'
  <1>1. /\ v8' = [v8 EXCEPT !.events = @ + 1, !.failed = TRUE]
        /\ v3' = v3 /\ v4' = v4
        /\ IF Board!IsPatch(c) THEN Board!PatchJob(c) \/ (v1' = v1 /\ v7' = v7) ELSE v1' = v1 /\ v7' = v7
    BY DEF Board!Fails
  <1>2. /\ v8' \in BoardTally /\ v8'.types = v8.types /\ v8'.failed = TRUE
    <2> DEFINE now == v8
    <2>1. now \in BoardTally /\ v8' = [now EXCEPT !.events = now.events + 1, !.failed = TRUE]
      BY <1>1, BoardNow
    <2> HIDE DEF now
    <2>2. now = [moves |-> now.moves, types |-> now.types, events |-> now.events,
                  failed |-> now.failed]
      BY <2>1 DEF BoardTally
    <2>3. v8' = [moves |-> now.moves, types |-> now.types, events |-> now.events + 1, failed |-> TRUE]
      BY <2>1, <2>2
    <2>4. now.moves \in Nat /\ now.types \in Nat /\ now.events \in Nat
      BY <2>1 DEF BoardTally
    <2>5. v8' \in BoardTally
      BY <2>3, <2>4 DEF BoardTally
    <2> QED BY <2>3, <2>5 DEF now
  <1>3. CallOK(c, v7, v4.id, v8.types)
    BY BoardNow
  <1>4. RowsOK(v1', v7', v8.types) /\ BoardGrows(v7, v7')
    <2>1. CASE v1' = v1 /\ v7' = v7
      BY <2>1, BoardNow, GrowsSame
    <2>2. CASE Board!IsPatch(c) /\ Board!PatchJob(c)
      <3>1. c \in BoardPatch
        BY <1>3, <2>2, CallIs
      <3>2. c.note # None => c.note < 3 + v8.types
        BY <1>3, <3>1 DEF CallOK
      <3> QED BY <2>2, <3>1, <3>2, BoardNow, PatchedJob
    <2> QED BY <1>1, <2>1, <2>2
  <1>5. /\ v2' \in BoardCards
        /\ \A b \in v5' : b \in v5 \/ b = Board!List
        /\ \A j \in Jobs : CardKept(j, v2', v7', v5')
    <2>1. CASE /\ Board!IsPatch(c) /\ c.kind # "move"
               /\ v5' = v5 \ {c} /\ v2' = v2
      <3>1. c.kind \notin {"list", "move"}
        BY <2>1 DEF Board!IsPatch
      <3>2. ASSUME NEW j \in Jobs PROVE CardKept(j, v2', v7', v5')
        BY <1>4, <2>1, <3>1, BoardNow, CardStays
      <3> QED BY <2>1, <3>2, BoardNow
    <2>2. CASE c.kind = "move" /\ v5' = (v5 \ {c}) \cup {Board!List} /\ v2' = v2
      BY <2>2, ListIsACall, BoardNow DEF CardKept
    <2>3. CASE /\ ~Board!IsPatch(c) /\ v5' = v5 \ {c}
               /\ v2' = [v2 EXCEPT !.error = @ \/ c.kind = "list"]
      <3> DEFINE error == v2.error \/ c.kind = "list"
      <3>1. error \in BOOLEAN
        BY BoardNow DEF BoardCards
      <3>2. v2' = [v2 EXCEPT !.error = error]
        BY <2>3
      <3> HIDE DEF error
      <3>3. v2' \in BoardCards /\ v2'.error = error /\ v2'.status = v2.status
        BY <3>1, <3>2, BoardNow DEF BoardCards
      <3>4. c.kind # "move"
        BY <2>3 DEF Board!IsPatch
      <3>5. ASSUME NEW j \in Jobs PROVE CardKept(j, v2', v7', v5')
        <4>1. CASE error
          BY <3>3, <4>1 DEF CardKept
        <4>2. CASE ~error
          <5>1. c.kind # "list" /\ ~v2.error
            BY <4>2 DEF error
          <5>2. CardKept(j, v2, v7', v5')
            BY <1>4, <2>3, <3>4, <5>1, BoardNow, CardStays
          <5> QED BY <3>3, <5>1, <5>2 DEF CardKept
        <4> QED BY <4>1, <4>2
      <3> QED BY <2>3, <3>3, <3>5
    <2> QED BY <2>1, <2>2, <2>3 DEF Board!Fails, Board!MoveFails
  <1>6. \A b \in v5' : b \in v5 \/ CallOK(b, v7', v4.id, v8.types)
    BY <1>5, ListIsACall
  <1> QED BY <1>1, <1>2, <1>4, <1>5, <1>6, BoardNow, BoardGoesOn

\* A card is moved, and its PATCH sent.
LEMMA MovedCard ==
  ASSUME BoardInv, NEW j \in Jobs, NEW to \in Board!Statuses, Board!Moving(j, to),
         v1' = v1, v4' = v4, v7' = v7, v3' \in BoardAsked,
         v8' \in BoardTally, v8'.types = v8.types, v8'.failed = v8.failed
  PROVE  BoardInv'
  <1> DEFINE c == Board!Patch("move", j, to, None)
  <1>1. v5' = v5 \cup {c} /\ v2' = [v2 EXCEPT !.status[j] = to]
    BY DEF Board!Moving
  <1>2. CallOK(c, v7, v4.id, v8.types) /\ c.kind = "move"
    BY PatchIsACall
  <1> HIDE DEF c
  <1>3. v2' \in BoardCards
    BY <1>1, BoardNow DEF BoardCards
  <1>4. BoardGrows(v7, v7')
    BY GrowsSame
  <1>5. \A i \in Jobs : CardKept(i, v2', v7', v5')
    BY <1>1, <1>2 DEF CardKept
  <1>6. \A b \in v5' : b \in v5 \/ CallOK(b, v7', v4.id, v8.types)
    BY <1>1, <1>2
  <1> QED BY <1>1, <1>3, <1>4, <1>5, <1>6, BoardNow, BoardGoesOn

\* Nothing but a question on the screen changes.
LEMMA AskedOnly ==
  ASSUME BoardInv, UNCHANGED <<v1, v2, v4, v5, v7>>, v3' \in BoardAsked,
         v8' \in BoardTally, v8'.types = v8.types, v8'.failed = v8.failed
  PROVE  BoardInv'
  <1>1. BoardGrows(v7, v7')
    BY GrowsSame
  <1>2. \A i \in Jobs : CardKept(i, v2', v7', v5')
    BY BoardNow
  <1> QED BY <1>1, <1>2, BoardNow, BoardGoesOn

LEMMA BoardMoves ==
  ASSUME BoardInv,
         \/ \E j \in Jobs, to \in Board!Statuses : Board!RequestMove(j, to)
         \/ Board!ConfirmMove \/ Board!UndoMove \/ Board!Dismiss
  PROVE  BoardInv'
  <1> DEFINE pending == v3.pending
             undo == v3.undo
  <1>1. /\ v3 = [pending |-> pending, undo |-> undo]
        /\ pending \in {None} \cup [job : Jobs, to : Board!Statuses]
        /\ undo \in {None} \cup [job : Jobs, from : Board!Statuses]
    BY BoardNow DEF BoardAsked
  <1>2. [v3 EXCEPT !.pending = None] \in BoardAsked /\ [v3 EXCEPT !.undo = None] \in BoardAsked
    BY BoardNow DEF BoardAsked
  <1>3. CASE \E j \in Jobs, to \in Board!Statuses : Board!RequestMove(j, to)
    <2>1. PICK j \in Jobs, to \in Board!Statuses : Board!RequestMove(j, to)
      BY <1>3
    <2>2. v8' = [v8 EXCEPT !.moves = @ + 1] /\ v1' = v1 /\ v4' = v4 /\ v7' = v7
      BY <2>1 DEF Board!RequestMove, Board!Spend
    <2>3. v8' \in BoardTally /\ v8'.types = v8.types /\ v8'.failed = v8.failed
      BY <2>2, BoardNow DEF BoardTally
    <2>4. CASE to \in Board!ConfirmStatuses
      <3> DEFINE question == [job |-> j, to |-> to]
      <3>1. v3' = [v3 EXCEPT !.pending = question] /\ v2' = v2 /\ v5' = v5
        BY <2>1, <2>4 DEF Board!RequestMove
      <3>2. question \in [job : Jobs, to : Board!Statuses]
        OBVIOUS
      <3> HIDE DEF question
      <3>3. v3' \in BoardAsked
        BY <3>1, <3>2, BoardNow DEF BoardAsked
      <3> QED BY <2>2, <2>3, <3>1, <3>3, AskedOnly
    <2>5. CASE to \notin Board!ConfirmStatuses
      <3> DEFINE back == [job |-> j, from |-> v2.status[j]]
      <3>1. v3' = [v3 EXCEPT !.undo = back] /\ Board!Moving(j, to)
        BY <2>1, <2>5 DEF Board!RequestMove
      <3>2. back \in [job : Jobs, from : Board!Statuses]
        BY BoardNow
      <3> HIDE DEF back
      <3>3. v3' \in BoardAsked
        BY <3>1, <3>2, BoardNow DEF BoardAsked
      <3> QED BY <2>2, <2>3, <3>1, <3>3, MovedCard
    <2> QED BY <2>4, <2>5
  <1>4. CASE Board!ConfirmMove
    <2>1. /\ pending # None /\ Board!Moving(pending.job, pending.to)
          /\ v3' = [v3 EXCEPT !.pending = None] /\ v1' = v1 /\ v4' = v4 /\ v7' = v7 /\ v8' = v8
      BY <1>4 DEF Board!ConfirmMove
    <2>2. pending.job \in Jobs /\ pending.to \in Board!Statuses
      BY <1>1, <2>1
    <2> HIDE DEF pending
    <2> QED BY <1>2, <2>1, <2>2, BoardNow, MovedCard
  <1>5. CASE Board!UndoMove
    <2>1. /\ undo # None /\ Board!Moving(undo.job, undo.from)
          /\ v3' = [v3 EXCEPT !.undo = None] /\ v1' = v1 /\ v4' = v4 /\ v7' = v7 /\ v8' = v8
      BY <1>5 DEF Board!UndoMove
    <2>2. undo.job \in Jobs /\ undo.from \in Board!Statuses
      BY <1>1, <2>1
    <2> HIDE DEF undo
    <2> QED BY <1>2, <2>1, <2>2, BoardNow, MovedCard
  <1>6. CASE Board!Dismiss
    <2>1. /\ v3' = [v3 EXCEPT !.pending = None] \/ v3' = [v3 EXCEPT !.undo = None]
          /\ UNCHANGED <<v1, v2, v4, v5, v7, v8>>
      BY <1>6 DEF Board!Dismiss
    <2> QED BY <1>2, <2>1, BoardNow, AskedOnly
  <1> QED BY <1>3, <1>4, <1>5, <1>6

\* The list arrives.
LEMMA BoardAnswerList ==
  ASSUME BoardInv, NEW c \in v5, Board!AnswerList(c)
  PROVE  BoardInv'
  <1> DEFINE again == IF v4.id = None THEN {} ELSE {Board!Get("refetch", v4.id)}
  <1>1. /\ c.kind = "list" /\ c.got # None
        /\ v2' = [status |-> [j \in Jobs |-> c.got[j].status], error |-> FALSE]
        /\ v5' = (v5 \ {c}) \cup again
        /\ v1' = v1 /\ v3' = v3 /\ v4' = v4 /\ v7' = v7 /\ v8' = v8
    BY DEF Board!AnswerList
  <1>2. CallOK(c, v7, v4.id, v8.types) /\ c \in BoardList
    BY <1>1, BoardNow, CallIs
  <1>3. c.got \in [Jobs -> BoardRow] /\ \A j \in Jobs : c.got[j].status \in v7.statuses[j]
    BY <1>1, <1>2 DEF BoardList, CallOK
  <1>4. \A j \in Jobs : c.got[j].status \in Board!Statuses
    BY <1>3 DEF BoardRow
  <1>5. v2' \in BoardCards /\ \A j \in Jobs : v2'.status[j] \in v7.statuses[j]
    BY <1>1, <1>3, <1>4 DEF BoardCards
  <1>6. v4.id # None => v4.id \in Jobs
    BY BoardNow DEF BoardDrawer
  <1>7. \A b \in again : CallOK(b, v7', v4.id, v8.types)
    BY <1>6, GetIsACall
  <1> HIDE DEF again
  <1>8. \A j \in Jobs : CardKept(j, v2', v7', v5')
    BY <1>1, <1>5 DEF CardKept
  <1>9. BoardGrows(v7, v7')
    BY <1>1, GrowsSame
  <1>10. c \notin BoardPatch
    BY <1>1 DEF BoardPatch
  <1>11. \A b \in v5' : b \in v5 \/ CallOK(b, v7', v4.id, v8.types)
    BY <1>1, <1>7
  <1> QED BY <1>1, <1>5, <1>8, <1>9, <1>10, <1>11, BoardNow, BoardGoesOn

-----------------------------------------------------------------------------
(***************************************************************************)
(* The drawer.                                                             *)
(***************************************************************************)
\* The drawer, or what was typed into it, changes, and no job is written.
LEMMA DrawerGoesOn ==
  ASSUME BoardInv, v1' = v1, v2' = v2, v3' = v3, BoardGrows(v7, v7') \/ v7'.notes = v7.notes,
         RowsOK(v1', v7', v8'.types), v8' \in BoardTally, DrawerOK(v4', v8'.types),
         v7'.statuses = v7.statuses,
         \A c \in v5' : CallOK(c, v7', v4'.id, v8'.types),
         \A c \in v5 : c.kind \in {"list", "move"} => c \in v5',
         \A j \in Jobs : TextKept(j, v7', v5', v4', v8'.failed)
  PROVE  BoardInv'
  <1>1. \A j \in Jobs : CardKept(j, v2', v7', v5')
    BY BoardNow DEF CardKept
  <1> QED BY <1>1, BoardNow DEF BoardInv

\* The same for requests that are about no drawer: what the ghost keeps of the typed texts
\* is none of theirs.
LEMMA CallKeeps ==
  ASSUME NEW c, NEW owed, NEW later, NEW id, NEW next, NEW types \in Nat, NEW after \in Nat,
         CallOK(c, owed, id, types), later.notes = owed.notes, later.statuses = owed.statuses,
         types <= after, next = id \/ c \notin BoardGet
  PROVE  CallOK(c, later, next, after)
  <1>1. c \in BoardPatch /\ c.note # None => c.note \in Nat
    BY BoardFacts DEF BoardPatch
  <1>2. c \in BoardPatch /\ c.note # None => c.note < 3 + after
    BY <1>1 DEF CallOK
  <1>3. c \in BoardGet => c.job = next
    BY DEF CallOK
  <1> QED BY <1>2, <1>3 DEF CallOK

LEMMA RowsKeep ==
  ASSUME RowsOK(v1, v7, v8.types), v1' = v1, v7' \in BoardOwed, v7'.notes = v7.notes,
         v7'.statuses = v7.statuses, v8.types \in Nat, v8'.types \in Nat, v8.types <= v8'.types
  PROVE  RowsOK(v1', v7', v8'.types)
  <1>1. ASSUME NEW j \in Jobs, NEW n \in v7.notes[j] PROVE n < 3 + v8'.types
    <2>1. n \in Nat
      BY BoardFacts DEF RowsOK, BoardOwed
    <2>2. n < 3 + v8.types
      BY DEF RowsOK
    <2> QED BY <2>1, <2>2
  <1> QED BY <1>1 DEF RowsOK

\* It opens.
LEMMA BoardOpens ==
  ASSUME BoardInv, NEW j \in Jobs, Board!OpenDrawer(j)
  PROVE  BoardInv'
  <1>1. /\ v4.id = None /\ v4' = [Board!Closed EXCEPT !.id = j]
        /\ v5' = v5 \cup {Board!Get("load", j)}
        /\ v1' = v1 /\ v2' = v2 /\ v3' = v3 /\ v7' = v7 /\ v8' = v8
    BY DEF Board!OpenDrawer
  <1>2. v4' = [id |-> j, job |-> None, draft |-> None]
    BY <1>1 DEF Board!Closed
  <1>3. DrawerOK(v4', v8'.types) /\ v4'.id = j /\ v4'.job = None
    BY <1>2, BoardFacts DEF DrawerOK, BoardDrawer
  <1>4. ASSUME NEW c \in v5' PROVE CallOK(c, v7', v4'.id, v8'.types)
    <2>1. CASE c \in v5
      <3>1. CallOK(c, v7, v4.id, v8.types)
        BY <2>1, BoardNow
      <3>2. c \notin BoardGet
        BY <1>1, <3>1, BoardFacts DEF CallOK, BoardGet
      <3> QED BY <1>1, <3>1, <3>2, BoardNow, CallKeeps
    <2>2. CASE c = Board!Get("load", j)
      BY <1>3, <2>2, GetIsACall
    <2> QED BY <1>1, <2>1, <2>2
  <1>5. v4.job = None
    BY <1>1, BoardNow DEF DrawerOK
  <1>6. ASSUME NEW i \in Jobs PROVE TextKept(i, v7', v5', v4', v8'.failed)
    BY <1>1, <1>5, BoardNow DEF TextKept
  <1> QED BY <1>1, <1>3, <1>4, <1>6, BoardNow, DrawerGoesOn

\* The job arrives; a text that is in the field stays there, unless it is the one stored.
LEMMA BoardAnswerJob ==
  ASSUME BoardInv, NEW c \in v5, Board!AnswerJob(c)
  PROVE  BoardInv'
  <1> DEFINE job == [id |-> c.job, note |-> c.got.note, status |-> c.got.status]
  <1>1. /\ Board!OfDrawer(c) /\ c.got # None /\ v5' = v5 \ {c} /\ v4' = [v4 EXCEPT !.job = job]
        /\ v1' = v1 /\ v2' = v2 /\ v3' = v3 /\ v7' = v7 /\ v8' = v8
    BY DEF Board!AnswerJob
  <1>2. CallOK(c, v7, v4.id, v8.types) /\ c \in BoardGet
    BY <1>1, BoardNow, CallIs
  <1>3. c.job = v4.id /\ c.job \in Jobs /\ c.got \in BoardRow /\ c.got.note \in v7.notes[c.job]
    BY <1>1, <1>2 DEF CallOK, BoardGet
  <1>4. job \in BoardJob /\ job.id = v4.id /\ job.note \in v7.notes[c.job]
    BY <1>3 DEF BoardJob, BoardRow
  <1> HIDE DEF job
  <1>5. job # None /\ job.note < 3 + v8.types
    BY <1>3, <1>4, BoardNow, BoardFacts DEF RowsOK
  <1>6. v4' \in BoardDrawer /\ v4'.id = v4.id /\ v4'.job = job /\ v4'.draft = v4.draft
    BY <1>1, <1>4, BoardNow DEF BoardDrawer
  <1>7. DrawerOK(v4', v8'.types)
    BY <1>1, <1>3, <1>4, <1>5, <1>6, BoardNow, BoardFacts DEF DrawerOK
  <1>8. \A b \in v5' : CallOK(b, v7', v4'.id, v8'.types)
    BY <1>1, <1>6, BoardNow
  <1>9. c \notin BoardPatch /\ c.kind \notin {"list", "move"}
    BY <1>2 DEF BoardGet, BoardPatch
  <1>10. ASSUME NEW j \in Jobs PROVE TextKept(j, v7', v5', v4', v8'.failed)
    <2>1. TextKept(j, v7, v5, v4, v8.failed)
      BY BoardNow
    <2>2. CASE v4.job # None /\ v4.job.id = j /\ v4.draft = v7.typed[j] /\ v4.draft # v4.job.note
      <3>1. j = v4.id
        BY <2>2, BoardNow DEF DrawerOK
      <3>2. v4.draft = job.note => v7.typed[j] \in v7.notes[j]
        BY <1>3, <1>4, <2>2, <3>1
      <3> QED BY <1>1, <1>4, <1>5, <1>6, <2>2, <3>1, <3>2 DEF TextKept
    <2>3. CASE ~(v4.job # None /\ v4.job.id = j /\ v4.draft = v7.typed[j] /\ v4.draft # v4.job.note)
      BY <1>1, <1>9, <2>1, <2>3 DEF TextKept
    <2> QED BY <2>2, <2>3
  <1>11. \A b \in v5 : b.kind \in {"list", "move"} => b \in v5'
    BY <1>1, <1>9
  <1> QED BY <1>1, <1>7, <1>8, <1>10, <1>11, BoardNow, DrawerGoesOn

\* A text is typed, newer than any that the job had.
LEMMA BoardTypes ==
  ASSUME BoardInv, NEW n \in Board!Owners, Board!Type(n)
  PROVE  BoardInv'
  <1> DEFINE j == v4.job.id
             typed == [v7.typed EXCEPT ![j] = n]
  <1>1. /\ n = 3 + v8.types /\ v4.job # None /\ v4' = [v4 EXCEPT !.draft = n]
        /\ v7' = [v7 EXCEPT !.typed[j] = n, !.unsaved = n]
        /\ v8' = [v8 EXCEPT !.types = @ + 1]
        /\ v1' = v1 /\ v2' = v2 /\ v3' = v3 /\ v5' = v5
    BY DEF Board!Type, Board!Spend
  <1>2. v8' \in BoardTally /\ v8'.types = v8.types + 1 /\ v8'.failed = v8.failed
    BY <1>1, BoardNow DEF BoardTally
  <1>3. /\ v4' \in BoardDrawer /\ v4'.id = v4.id /\ v4'.job = v4.job /\ v4'.draft = n
    BY <1>1, BoardNow DEF BoardDrawer
  <1>4. v4.job \in BoardJob /\ v4.job.id = v4.id /\ v4.job.note < 3 + v8.types /\ j \in Jobs
    BY <1>1, BoardNow DEF DrawerOK, BoardDrawer, BoardJob
  <1>5. v4.job.note \in Nat /\ v4.job.note # n
    BY <1>1, <1>4, BoardNow, BoardFacts DEF BoardJob
  <1>6. DrawerOK(v4', v8'.types)
    BY <1>1, <1>2, <1>3, <1>4, <1>5, BoardNow, BoardFacts DEF DrawerOK
  <1>7. v7.typed \in [Jobs -> Board!Owners \cup {None}]
    BY BoardNow DEF BoardOwed
  <1>8. typed \in [Jobs -> Board!Owners \cup {None}] /\ typed[j] = n
        /\ \A i \in Jobs : i # j => typed[i] = v7.typed[i]
    BY <1>4, <1>7
  <1>9. v7' = [typed |-> typed, notes |-> v7.notes, statuses |-> v7.statuses, unsaved |-> n,
               stray |-> v7.stray]
    BY <1>1, BoardNow DEF BoardOwed
  <1> HIDE DEF typed, j
  <1>10. v7' \in BoardOwed
    BY <1>8, <1>9, BoardNow DEF BoardOwed
  <1>11. v7'.typed = typed /\ v7'.notes = v7.notes /\ v7'.statuses = v7.statuses
    BY <1>9
  <1>12. RowsOK(v1', v7', v8'.types)
    <2>1. v8'.types \in Nat /\ v8.types <= v8'.types
      BY <1>2, BoardNow
    <2> QED BY <1>1, <1>10, <1>11, <2>1, BoardNow, RowsKeep
  <1>13. ASSUME NEW c \in v5' PROVE CallOK(c, v7', v4'.id, v8'.types)
    <2>1. v8'.types \in Nat /\ v8.types <= v8'.types
      BY <1>2, BoardNow
    <2>2. CallOK(c, v7, v4.id, v8.types)
      BY <1>1, BoardNow
    <2> QED BY <1>3, <1>11, <2>1, <2>2, BoardNow, CallKeeps
  <1>14. ASSUME NEW i \in Jobs PROVE TextKept(i, v7', v5', v4', v8'.failed)
    <2>1. CASE i = j
      BY <1>1, <1>3, <1>5, <1>8, <1>11, <2>1 DEF TextKept, j
    <2>2. CASE i # j
      <3>1. v7'.typed[i] = v7.typed[i] /\ v4.job.id # i
        BY <1>8, <1>11, <2>2 DEF j
      <3> QED BY <1>1, <1>2, <1>11, <3>1, BoardNow DEF TextKept
    <2> QED BY <2>1, <2>2
  <1> QED BY <1>1, <1>2, <1>6, <1>11, <1>12, <1>13, <1>14, DrawerGoesOn

-----------------------------------------------------------------------------
\* The draft is sent.
LEMMA DrawerSends ==
  ASSUME BoardInv, NEW kind \in {"save", "flush"}, NEW others, Board!PendingFieldUpdates,
         Board!Sends(kind, others)
  PROVE  LET c == Board!Patch(kind, v4.job.id, None, v4.draft)
         IN  /\ v5' = others \cup {c} /\ c \in BoardPatch
             /\ \A id : CallOK(c, v7', id, v8.types)
             /\ c.job = v4.job.id /\ c.note = v4.draft
             /\ v4.job # None /\ v4.job \in BoardJob /\ v4.job.id = v4.id /\ v4.id \in Jobs
             /\ v4.draft \in Board!Owners /\ v4.draft < 3 + v8.types
             /\ v7' \in BoardOwed /\ v7'.typed = v7.typed /\ v7'.notes = v7.notes
             /\ v7'.statuses = v7.statuses
  <1>1. v4.job # None /\ v4.draft # None /\ v4.draft # v4.job.note
    BY DEF Board!PendingFieldUpdates
  <1>2. /\ v4.job \in BoardJob /\ v4.job.id = v4.id /\ v4.id \in Jobs
        /\ v4.draft \in Board!Owners /\ v4.draft < 3 + v8.types
    BY <1>1, BoardNow DEF DrawerOK, BoardDrawer, BoardJob
  <1> DEFINE stray == v7.stray \/ v7.unsaved # v4.draft
  <1>3. v7' = [typed |-> v7.typed, notes |-> v7.notes, statuses |-> v7.statuses, unsaved |-> None,
               stray |-> stray]
    BY BoardNow DEF Board!Sends, BoardOwed
  <1>4. stray \in BOOLEAN
    BY BoardNow DEF BoardOwed
  <1> HIDE DEF stray
  <1>5. /\ v7' \in BoardOwed /\ v7'.typed = v7.typed /\ v7'.notes = v7.notes
        /\ v7'.statuses = v7.statuses
    BY <1>3, <1>4, BoardNow DEF BoardOwed
  <1> DEFINE c == Board!Patch(kind, v4.job.id, None, v4.draft)
  <1>6. v5' = others \cup {c}
    BY DEF Board!Sends
  <1>7. ASSUME NEW id
        PROVE  /\ c \in BoardPatch /\ CallOK(c, v7', id, v8.types)
               /\ c.job = v4.job.id /\ c.note = v4.draft
    BY <1>2, PatchIsACall
  <1> HIDE DEF c
  <1>8. c \in BoardPatch /\ c.job = v4.job.id /\ c.note = v4.draft
    BY <1>7
  <1> QED BY <1>1, <1>2, <1>5, <1>6, <1>7, <1>8 DEF c

\* The field loses the focus.
LEMMA BoardBlur ==
  ASSUME BoardInv, Board!Blur
  PROVE  BoardInv'
  <1> DEFINE c == Board!Patch("save", v4.job.id, None, v4.draft)
             job == [v4.job EXCEPT !.note = v4.draft]
  <1>1. /\ Board!PendingFieldUpdates /\ Board!Sends("save", v5)
        /\ v4' = [v4 EXCEPT !.job.note = v4.draft]
        /\ v1' = v1 /\ v2' = v2 /\ v3' = v3 /\ v8' = v8
    BY DEF Board!Blur
  <1>2. /\ v5' = v5 \cup {c} /\ c \in BoardPatch
        /\ \A id : CallOK(c, v7', id, v8.types)
        /\ c.job = v4.job.id /\ c.note = v4.draft
        /\ v4.job # None /\ v4.job \in BoardJob /\ v4.job.id = v4.id /\ v4.id \in Jobs
        /\ v4.draft \in Board!Owners /\ v4.draft < 3 + v8.types
        /\ v7' \in BoardOwed /\ v7'.typed = v7.typed /\ v7'.notes = v7.notes
        /\ v7'.statuses = v7.statuses
    BY <1>1, DrawerSends
  <1> HIDE DEF c
  <1>3. job \in BoardJob /\ job.id = v4.job.id /\ job.note = v4.draft
    BY <1>2, BoardFacts DEF BoardJob
  <1>4. v4' = [id |-> v4.id, job |-> job, draft |-> v4.draft]
    BY <1>1, BoardNow DEF BoardDrawer
  <1> HIDE DEF job
  <1>5. v4' \in BoardDrawer /\ v4'.id = v4.id /\ v4'.job = job /\ v4'.draft = v4.draft
    BY <1>3, <1>4, BoardNow DEF BoardDrawer
  <1>6. DrawerOK(v4', v8'.types)
    BY <1>1, <1>2, <1>3, <1>5, BoardFacts DEF DrawerOK
  <1>7. RowsOK(v1', v7', v8'.types)
    BY <1>1, <1>2, BoardNow, RowsKeep
  <1>8. ASSUME NEW b \in v5' PROVE CallOK(b, v7', v4'.id, v8'.types)
    <2>1. CASE b \in v5
      <3>1. CallOK(b, v7, v4.id, v8.types)
        BY <2>1, BoardNow
      <3> QED BY <1>1, <1>2, <1>5, <3>1, BoardNow, CallKeeps
    <2>2. CASE b = c
      BY <1>1, <1>2, <2>2
    <2> QED BY <1>2, <2>1, <2>2
  <1>9. ASSUME NEW j \in Jobs PROVE TextKept(j, v7', v5', v4', v8'.failed)
    <2>1. CASE v4.job.id = j /\ v4.draft = v7.typed[j]
      BY <1>2, <2>1 DEF TextKept
    <2>2. CASE ~(v4.job.id = j /\ v4.draft = v7.typed[j])
      BY <1>1, <1>2, <2>2, BoardNow DEF TextKept
    <2> QED BY <2>1, <2>2
  <1> QED BY <1>1, <1>2, <1>6, <1>7, <1>8, <1>9, BoardNow, DrawerGoesOn

\* A status is chosen in the drawer.
LEMMA BoardSaveStatus ==
  ASSUME BoardInv, NEW to \in Board!Statuses, Board!SaveStatus(to)
  PROVE  BoardInv'
  <1> DEFINE c == Board!Patch("save", v4.job.id, to, None)
             job == [v4.job EXCEPT !.status = to]
  <1>1. /\ v4.job # None /\ v4' = [v4 EXCEPT !.job.status = to] /\ v5' = v5 \cup {c}
        /\ v8' = [v8 EXCEPT !.moves = @ + 1]
        /\ v1' = v1 /\ v2' = v2 /\ v3' = v3 /\ v7' = v7
    BY DEF Board!SaveStatus, Board!Spend
  <1>2. v8' \in BoardTally /\ v8'.types = v8.types /\ v8'.failed = v8.failed
    BY <1>1, BoardNow DEF BoardTally
  <1>3. v4.job \in BoardJob /\ v4.job.id = v4.id /\ v4.id \in Jobs
    BY <1>1, BoardNow DEF DrawerOK, BoardDrawer, BoardJob
  <1>4. \A id : CallOK(c, v7', id, v8.types)
    BY <1>3, PatchIsACall
  <1> HIDE DEF c
  <1>5. job \in BoardJob /\ job.id = v4.job.id /\ job.note = v4.job.note
    BY <1>3 DEF BoardJob
  <1>6. v4' = [id |-> v4.id, job |-> job, draft |-> v4.draft]
    BY <1>1, BoardNow DEF BoardDrawer
  <1> HIDE DEF job
  <1>7. v4' \in BoardDrawer /\ v4'.id = v4.id /\ v4'.job = job /\ v4'.draft = v4.draft
    BY <1>5, <1>6, BoardNow DEF BoardDrawer
  <1>8. job # None
    BY <1>5, BoardFacts
  <1>9. DrawerOK(v4', v8'.types)
    BY <1>1, <1>2, <1>3, <1>5, <1>7, <1>8, BoardNow, BoardFacts DEF DrawerOK
  <1>10. \A b \in v5' : CallOK(b, v7', v4'.id, v8'.types)
    BY <1>1, <1>2, <1>4, <1>7, BoardNow
  <1>11. ASSUME NEW j \in Jobs PROVE TextKept(j, v7', v5', v4', v8'.failed)
    BY <1>1, <1>2, <1>5, <1>7, <1>8, BoardNow DEF TextKept
  <1>12. RowsOK(v1', v7', v8'.types)
    BY <1>1, <1>2, BoardNow
  <1> QED BY <1>1, <1>2, <1>9, <1>10, <1>11, <1>12, DrawerGoesOn

\* It goes, and flushes what is typed.
LEMMA BoardCloses ==
  ASSUME BoardInv, Board!CloseDrawer
  PROVE  BoardInv'
  <1> DEFINE others == {b \in v5 : ~Board!OfDrawer(b)}
             c == Board!Patch("flush", v4.job.id, None, v4.draft)
  <1>1. /\ v4' = Board!Closed /\ v1' = v1 /\ v2' = v2 /\ v3' = v3 /\ v8' = v8
        /\ IF Board!PendingFieldUpdates THEN Board!Sends("flush", others)
           ELSE v5' = others /\ v7' = v7
    BY DEF Board!CloseDrawer
  <1>2. DrawerOK(v4', v8'.types)
    BY <1>1, BoardFacts DEF Board!Closed, DrawerOK, BoardDrawer
  <1>3. \A b \in others : CallOK(b, v7, v4.id, v8.types) /\ b \notin BoardGet
    BY BoardNow, CallIs
  <1>4. /\ \A b \in v5 : b \in BoardPatch => b \in others
        /\ \A b \in v5 : b.kind \in {"list", "move"} => b \in others
    BY DEF Board!OfDrawer, BoardPatch
  <1> HIDE DEF others
  <1>5. CASE ~Board!PendingFieldUpdates
    <2>1. v5' = others /\ v7' = v7
      BY <1>1, <1>5
    <2>2. ASSUME NEW b \in v5' PROVE CallOK(b, v7', v4'.id, v8'.types)
      BY <1>1, <1>3, <2>1, BoardNow, CallKeeps
    <2>3. ASSUME NEW j \in Jobs PROVE TextKept(j, v7', v5', v4', v8'.failed)
      <3>1. CASE v4.job # None /\ v4.job.id = j /\ v4.draft = v7.typed[j] /\ v4.draft # v4.job.note
        <4>1. v7.typed[j] = None
          BY <1>5, <3>1 DEF Board!PendingFieldUpdates
        <4> QED BY <2>1, <4>1 DEF TextKept
      <3>2. CASE ~(v4.job # None /\ v4.job.id = j /\ v4.draft = v7.typed[j] /\ v4.draft # v4.job.note)
        BY <1>1, <1>4, <2>1, <3>2, BoardNow DEF TextKept
      <3> QED BY <3>1, <3>2
    <2>4. RowsOK(v1', v7', v8'.types)
      BY <1>1, <2>1, BoardNow
    <2> QED BY <1>1, <1>2, <1>4, <2>1, <2>2, <2>3, <2>4, BoardNow, DrawerGoesOn
  <1>6. CASE Board!PendingFieldUpdates
    <2>1. /\ v5' = others \cup {c} /\ c \in BoardPatch
          /\ \A id : CallOK(c, v7', id, v8.types)
          /\ c.job = v4.job.id /\ c.note = v4.draft
          /\ v7' \in BoardOwed /\ v7'.typed = v7.typed /\ v7'.notes = v7.notes
          /\ v7'.statuses = v7.statuses
      BY <1>1, <1>6, DrawerSends
    <2> HIDE DEF c
    <2>2. RowsOK(v1', v7', v8'.types)
      BY <1>1, <2>1, BoardNow, RowsKeep
    <2>3. ASSUME NEW b \in v5' PROVE CallOK(b, v7', v4'.id, v8'.types)
      <3>1. CASE b \in others
        BY <1>1, <1>3, <2>1, <3>1, BoardNow, CallKeeps
      <3>2. CASE b = c
        BY <1>1, <2>1, <3>2
      <3> QED BY <2>1, <3>1, <3>2
    <2>4. ASSUME NEW j \in Jobs PROVE TextKept(j, v7', v5', v4', v8'.failed)
      <3>1. CASE v4.job.id = j /\ v4.draft = v7.typed[j]
        BY <2>1, <3>1 DEF TextKept
      <3>2. CASE ~(v4.job.id = j /\ v4.draft = v7.typed[j])
        BY <1>1, <1>4, <2>1, <3>2, BoardNow DEF TextKept
      <3> QED BY <3>1, <3>2
    <2> QED BY <1>1, <1>2, <1>4, <2>1, <2>2, <2>3, <2>4, BoardNow, DrawerGoesOn
  <1> QED BY <1>5, <1>6

LEMMA BoardStep == BoardInv /\ Board!BoardNext => BoardInv'
  <1> SUFFICES ASSUME BoardInv, Board!BoardNext PROVE BoardInv'
    OBVIOUS
  <1>1. CASE \E c \in v5 :
               \/ Board!ServeList(c) \/ Board!ServeJob(c) \/ Board!AnswerList(c)
               \/ Board!AnswerJob(c) \/ Board!AnswerPatch(c) \/ Board!Fails(c)
    BY <1>1, BoardServeList, BoardServeJob, BoardAnswerList, BoardAnswerJob, BoardAnswerPatch,
       BoardFails
  <1>2. CASE \E j \in Jobs : Board!AgentWrites(j) \/ Board!OpenDrawer(j)
    BY <1>2, BoardAgentWrites, BoardOpens
  <1>3. CASE \/ \E j \in Jobs, to \in Board!Statuses : Board!RequestMove(j, to)
             \/ Board!ConfirmMove \/ Board!UndoMove \/ Board!Dismiss
    BY <1>3, BoardMoves
  <1>4. CASE \E to \in Board!Statuses : Board!SaveStatus(to)
    BY <1>4, BoardSaveStatus
  <1>5. CASE \E n \in Board!Owners : Board!Type(n)
    BY <1>5, BoardTypes
  <1>6. CASE Board!NextDay \/ Board!Blur \/ Board!CloseDrawer
    BY <1>6, BoardNextDay, BoardBlur, BoardCloses
  <1> QED BY <1>1, <1>2, <1>3, <1>4, <1>5, <1>6 DEF Board!BoardNext

-----------------------------------------------------------------------------
(***************************************************************************)
(* SourceRegistry.                                                         *)
(***************************************************************************)

-----------------------------------------------------------------------------
\* What the step of another source leaves of this one.
LEMMA OthersStay ==
  ASSUME NEW id, NEW source, NEW all \in Seq(RegistryScrape), NEW later \in Seq(RegistryScrape),
         NEW count \in Nat, NEW after \in Nat,
         SourceOK(id, source, all, count), count <= after, Len(all) <= Len(later),
         \A k \in 1..Len(all) : /\ later[k].id = all[k].id /\ later[k].source = all[k].source
                                /\ all[k].id = id => later[k] = all[k],
         \A k \in 1..Len(later) : k > Len(all) => later[k].id # id
  PROVE  SourceOK(id, source, later, after)
  <1> DEFINE runs == source.runs
  <1>1. source \in RegistrySource /\ source.no \in Nat /\ runs \in Seq(RegistryRecord)
    BY DEF SourceOK, RegistrySource
  <1>2. RunsOK(id, runs, source.no, all) /\ (Alone(id, source.no, all) => RunsTell(id, runs, all))
        /\ (source.lastRun = 0 <=> Len(runs) = 0) /\ source.no < count
    BY DEF SourceOK
  <1> HIDE DEF runs
  <1>3. RunsOK(id, runs, source.no, later)
    BY <1>2 DEF RunsOK
  <1>4. ASSUME Alone(id, source.no, later) PROVE RunsTell(id, runs, later)
    <2>1. Alone(id, source.no, all)
      BY <1>4 DEF Alone
    <2>2. RunsTell(id, runs, all)
      BY <1>2, <2>1
    <2>3. \A n \in 1..Len(runs) : later[runs[n].no] = all[runs[n].no]
      BY <1>2 DEF RunsOK
    <2>4. ASSUME NEW k \in 1..Len(later), later[k].id = id
          PROVE  k \in 1..Len(all) /\ all[k].id = id /\ later[k] = all[k]
      BY <2>4
    <2> QED BY <2>2, <2>3, <2>4 DEF RunsTell
  <1> QED BY <1>1, <1>2, <1>3, <1>4 DEF SourceOK, runs

LEMMA RegistryStart == Registry!RegistryInit => RegistryInv
  BY DEF Registry!RegistryInit, RegistryInv

LEMMA RegistryStays ==
  ASSUME RegistryInv, UNCHANGED <<v1, v2, v3, v4, v5>>
  PROVE  RegistryInv'
  <1>1. /\ v1' \in Nat /\ v1' > 0 /\ v5' \in Nat /\ v4' \in Seq(RegistryScrape)
        /\ \A k \in 1..Len(v4') : v4'[k].source < v5'
    BY DEF RegistryInv
  <1>2. v2' \in [Registry!Ids -> RegistrySource \cup {None}]
    BY DEF RegistryInv
  <1>3. \A id \in Registry!Ids : v2'[id] # None => SourceOK(id, v2'[id], v4', v5')
    BY DEF RegistryInv
  <1> QED BY <1>1, <1>2, <1>3 DEF RegistryInv

\* One source changes, or comes, or goes.
OneSource(id, source) ==
  /\ v1' \in Nat /\ v1' > 0 /\ v5' \in Nat /\ v5 <= v5'
  /\ v4' \in Seq(RegistryScrape) /\ Len(v4) <= Len(v4')
  /\ \A k \in 1..Len(v4') : v4'[k].source < v5'
  /\ v2' = [v2 EXCEPT ![id] = source]
  /\ source # None => SourceOK(id, source, v4', v5')
  /\ \A k \in 1..Len(v4) : /\ v4'[k].id = v4[k].id /\ v4'[k].source = v4[k].source
                           /\ v4[k].id # id => v4'[k] = v4[k]
  /\ \A k \in 1..Len(v4') : k > Len(v4) => v4'[k].id = id

LEMMA OneSourceOnly ==
  ASSUME RegistryInv, NEW id \in Registry!Ids, NEW source, OneSource(id, source)
  PROVE  RegistryInv'
  <1> USE DEF OneSource
  <1>1. source \in RegistrySource \cup {None}
    BY DEF SourceOK
  <1>2. v2' \in [Registry!Ids -> RegistrySource \cup {None}]
    BY <1>1 DEF RegistryInv
  <1>3. ASSUME NEW i \in Registry!Ids, v2'[i] # None
        PROVE  SourceOK(i, v2'[i], v4', v5')
    <2>1. CASE i = id
      BY <1>3, <2>1 DEF RegistryInv
    <2>2. CASE i # id
      <3>1. v2'[i] = v2[i] /\ SourceOK(i, v2[i], v4, v5) /\ v4 \in Seq(RegistryScrape) /\ v5 \in Nat
        BY <1>3, <2>2 DEF RegistryInv
      <3>2. \A k \in 1..Len(v4) : /\ v4'[k].id = v4[k].id /\ v4'[k].source = v4[k].source
                                  /\ v4[k].id = i => v4'[k] = v4[k]
        BY <2>2
      <3>3. \A k \in 1..Len(v4') : k > Len(v4) => v4'[k].id # i
        BY <2>2
      <3> HIDE DEF SourceOK
      <3> QED BY <3>1, <3>2, <3>3, OthersStay
    <2> QED BY <2>1, <2>2
  <1> QED BY <1>2, <1>3 DEF RegistryInv

-----------------------------------------------------------------------------
\* capRuns keeps the newest, two at least.
LEMMA CapRunsKeeps ==
  ASSUME NEW S, NEW runs \in Seq(S)
  PROVE  LET kept == Registry!CapRuns(runs)
         IN  /\ kept \in Seq(S)
             /\ \E d \in Nat : /\ Len(runs) = Len(kept) + d
                               /\ \A n \in 1..Len(kept) : kept[n] = runs[n + d]
             /\ Len(runs) > 0 => Len(kept) > 0
             /\ Len(runs) > 1 => Len(kept) > 1
             /\ Len(kept) <= RunCap
  <1> DEFINE kept == Registry!CapRuns(runs)
  <1>1. RunCap \in Nat /\ RunCap >= 2
    BY RegistryAssumption
  <1>2. CASE Len(runs) > RunCap
    <2> DEFINE d == Len(runs) - RunCap
    <2>1. kept = SubSeq(runs, d + 1, Len(runs)) /\ d \in Nat /\ Len(runs) \in Nat
      BY <1>1, <1>2 DEF Registry!CapRuns
    <2>2. \A n \in d + 1 .. Len(runs) : runs[n] \in S
      BY <2>1
    <2>3. /\ kept \in Seq(S) /\ Len(kept) = RunCap
          /\ \A n \in 1..RunCap : kept[n] = runs[n + d]
      <3>1. d + 1 \in Int /\ Len(runs) \in Int /\ d + 1 <= Len(runs) /\ Len(runs) - (d + 1) + 1 = RunCap
        BY <1>1, <1>2
      <3> HIDE DEF d, kept
      <3>2. /\ kept \in Seq(S) /\ Len(kept) = RunCap
            /\ \A n \in 1..RunCap : kept[n] = runs[(d + 1) + n - 1]
        BY <2>1, <2>2, <3>1, SubSeqProperties
      <3>3. \A n \in 1..RunCap : (d + 1) + n - 1 = n + d
        BY <1>1, <2>1
      <3> QED BY <3>2, <3>3
    <2>4. Len(runs) = Len(kept) + d
      BY <1>1, <2>1, <2>3
    <2>5. d \in Nat /\ Len(kept) > 0 /\ Len(kept) > 1 /\ Len(kept) <= RunCap
      BY <1>1, <2>1, <2>3
    <2>6. \A n \in 1..Len(kept) : kept[n] = runs[n + d]
      BY <2>3
    <2>7. kept \in Seq(S)
      BY <2>3
    <2> HIDE DEF kept, d
    <2>8. \E e \in Nat : Len(runs) = Len(kept) + e /\ \A n \in 1..Len(kept) : kept[n] = runs[n + e]
      BY SMTT(30), <2>4, <2>5, <2>6
    <2> QED BY <2>5, <2>7, <2>8 DEF kept
  <1>3. CASE ~(Len(runs) > RunCap)
    <2>1. kept = runs
      BY <1>3 DEF Registry!CapRuns
    <2>2. 0 \in Nat /\ Len(runs) = Len(runs) + 0 /\ \A n \in 1..Len(runs) : runs[n] = runs[n + 0]
      OBVIOUS
    <2>3. Len(runs) <= RunCap
      BY <1>1, <1>3
    <2> QED BY <2>1, <2>2, <2>3
  <1> QED BY <1>2, <1>3

-----------------------------------------------------------------------------
\* The owner's edits, and midnight.
LEMMA RegistryEdits ==
  ASSUME RegistryInv,
         \/ \E name \in SourceNames, cadence \in Registry!Cadences : Registry!AddSource(name, cadence)
         \/ \E id \in Registry!Ids :
              Registry!DeleteSource(id) \/ \E fields \in Registry!Accepted : Registry!PatchSource(id, fields)
         \/ Registry!RunAllDue \/ Registry!Tick
  PROVE  RegistryInv'
  <1>1. /\ v1 \in Nat /\ v1 > 0 /\ v5 \in Nat /\ v4 \in Seq(RegistryScrape)
        /\ \A k \in 1..Len(v4) : v4[k].source < v5 /\ v4[k] \in RegistryScrape
        /\ v2 \in [Registry!Ids -> RegistrySource \cup {None}]
        /\ \A id \in Registry!Ids : v2[id] # None => SourceOK(id, v2[id], v4, v5)
    BY DEF RegistryInv
  <1> HIDE DEF RegistryInv
  <1>2. v4' = v4 => \A k \in 1..Len(v4') : k > Len(v4) => FALSE
    OBVIOUS
  <1>3. \A k \in 1..Len(v4) : v4[k].source \in Nat
    BY <1>1 DEF RegistryScrape
  <1>4. CASE \E name \in SourceNames, cadence \in Registry!Cadences : Registry!AddSource(name, cadence)
    <2>1. PICK name \in SourceNames, cadence \in Registry!Cadences, id \in Registry!Ids :
            /\ v2' = [v2 EXCEPT ![id] = Registry!NewSource(v5, cadence)]
            /\ v5' = v5 + 1 /\ v1' = v1 /\ v4' = v4
      BY <1>4 DEF Registry!AddSource, Registry!Edits
    <2> DEFINE source == Registry!NewSource(v5, cadence)
    <2>2. /\ source \in RegistrySource /\ source.no = v5 /\ source.lastRun = 0 /\ source.runs = <<>>
      BY <1>1 DEF Registry!NewSource, RegistrySource, Registry!Actives
    <2> HIDE DEF source
    <2>3. RunsOK(id, source.runs, source.no, v4)
      BY <2>2 DEF RunsOK
    <2>4. ASSUME Alone(id, source.no, v4) PROVE RunsTell(id, source.runs, v4)
      <3>1. \A k \in 1..Len(v4) : v4[k].id # id
        BY <1>1, <1>3, <2>2, <2>4 DEF Alone
      <3> QED BY <2>2, <3>1 DEF RunsTell
    <2>5. SourceOK(id, source, v4, v5 + 1)
      BY <1>1, <2>2, <2>3, <2>4 DEF SourceOK
    <2>6. \A k \in 1..Len(v4') : v4'[k].source < v5'
      BY <1>1, <1>3, <2>1
    <2>7. OneSource(id, source)
      BY <1>1, <1>2, <2>1, <2>5, <2>6 DEF OneSource, source
    <2> QED BY <2>7, OneSourceOnly
  <1>5. CASE \E id \in Registry!Ids : Registry!DeleteSource(id)
    <2>1. PICK id \in Registry!Ids : /\ v2' = [v2 EXCEPT ![id] = None]
                                     /\ v5' = v5 + 1 /\ v1' = v1 /\ v4' = v4
      BY <1>5 DEF Registry!DeleteSource, Registry!Edits
    <2>2. \A k \in 1..Len(v4') : v4'[k].source < v5'
      BY <1>1, <1>3, <2>1
    <2>3. OneSource(id, None)
      BY <1>1, <1>2, <2>1, <2>2 DEF OneSource
    <2> QED BY <2>3, OneSourceOnly
  <1>6. CASE \E id \in Registry!Ids, fields \in Registry!Accepted : Registry!PatchSource(id, fields)
    <2>1. PICK id \in Registry!Ids, fields \in Registry!Accepted : Registry!PatchSource(id, fields)
      BY <1>6
    <2> DEFINE now == v2[id]
               source == [now EXCEPT !.active = fields.active, !.cadence = fields.cadence]
    <2>2. /\ now # None /\ v2' = [v2 EXCEPT ![id] = source]
          /\ v5' = v5 + 1 /\ v1' = v1 /\ v4' = v4
      BY <1>1, <2>1 DEF Registry!PatchSource, Registry!Edits, Registry!Here
    <2>3. SourceOK(id, now, v4, v5)
      BY <1>1, <2>2
    <2>4. now \in RegistrySource
      BY <2>3 DEF SourceOK
    <2> HIDE DEF now
    <2>5. fields.active \in Registry!Actives /\ fields.cadence \in Registry!Cadences
      BY DEF Registry!Accepted
    <2>6. now.no \in Nat
      BY <2>4 DEF RegistrySource
    <2>8. /\ source \in RegistrySource /\ source.no = now.no /\ source.lastRun = now.lastRun
          /\ source.runs = now.runs /\ source.no \in Nat
      BY <2>4, <2>5, <2>6 DEF RegistrySource
    <2> HIDE DEF source
    <2>9. source.no < v5 + 1
      BY <1>1, <2>3, <2>8 DEF SourceOK
    <2>10. SourceOK(id, source, v4, v5 + 1)
      BY <2>3, <2>8, <2>9 DEF SourceOK
    <2>11. \A k \in 1..Len(v4') : v4'[k].source < v5'
      BY <1>1, <1>3, <2>2
    <2>12. OneSource(id, source)
      BY <1>1, <1>2, <2>2, <2>10, <2>11 DEF OneSource
    <2> QED BY <2>12, OneSourceOnly
  <1>7. CASE Registry!RunAllDue \/ Registry!Tick
    <2>1. v1' \in Nat /\ v1' > 0 /\ v2' = v2 /\ v4' = v4 /\ v5' = v5
      BY <1>1, <1>7 DEF Registry!RunAllDue, Registry!Tick
    <2> QED BY <1>1, <2>1 DEF RegistryInv
  <1> QED BY <1>4, <1>5, <1>6, <1>7

-----------------------------------------------------------------------------
\* What a launch makes of the records of a source, none of which runs.
LEMMA LaunchedSource ==
  ASSUME NEW id \in Registry!Ids, NEW source, NEW all \in Seq(RegistryScrape), NEW count \in Nat,
         NEW day \in Nat, day > 0,
         SourceOK(id, source, all, count), ~Registry!IsRunning(source),
         NEW scrape \in RegistryScrape, scrape.id = id, scrape.source = source.no,
         scrape.outcome = "running", scrape.leads = 0, scrape.reviewed = -1
  PROVE  SourceOK(id,
           [source EXCEPT !.runs = Registry!CapRuns(Append(@, Registry!Record(Len(all) + 1))),
                          !.lastRun = day],
           Append(all, scrape), count)
  <1> DEFINE runs == source.runs
             no == Len(all) + 1
             record == Registry!Record(no)
             long == Append(runs, record)
             kept == Registry!CapRuns(long)
             after == [source EXCEPT !.runs = kept, !.lastRun = day]
             later == Append(all, scrape)
  <1>1. /\ source \in RegistrySource /\ source.no < count /\ runs \in Seq(RegistryRecord)
        /\ RunsOK(id, runs, source.no, all)
        /\ Alone(id, source.no, all) => RunsTell(id, runs, all)
    BY DEF SourceOK, RegistrySource
  <1>2. Len(all) \in Nat /\ no \in Nat /\ Len(runs) \in Nat
    BY <1>1
  <1>3. /\ record \in RegistryRecord /\ record.no = no /\ record.outcome = "running"
        /\ record.leads = 0 /\ record.reviewed = -1
    BY <1>2 DEF Registry!Record, RegistryRecord, RegistryOutcomes
  <1> HIDE DEF record
  <1>4. /\ long \in Seq(RegistryRecord) /\ Len(long) = Len(runs) + 1
        /\ \A n \in 1..Len(runs) : long[n] = runs[n]
        /\ long[Len(runs) + 1] = record
    BY <1>1, <1>3, AppendProperties
  <1>5. /\ later \in Seq(RegistryScrape) /\ Len(later) = no
        /\ \A k \in 1..Len(all) : later[k] = all[k]
        /\ later[no] = scrape
    BY AppendProperties
  <1>6. \A n \in 1..Len(runs) : runs[n].outcome # "running"
    BY <1>1 DEF Registry!IsRunning
  <1> HIDE DEF runs, long, later
  <1>7. /\ kept \in Seq(RegistryRecord) /\ Len(kept) > 0 /\ (Len(runs) > 0 => Len(kept) > 1)
        /\ \E d \in Nat : /\ Len(runs) + 1 = Len(kept) + d
                          /\ \A n \in 1..Len(kept) : kept[n] = long[n + d]
    <2>1. long \in Seq(RegistryRecord) /\ Len(long) > 0 /\ (Len(runs) > 0 => Len(long) > 1)
      BY <1>2, <1>4
    <2>2. /\ kept \in Seq(RegistryRecord)
          /\ \E d \in Nat : /\ Len(long) = Len(kept) + d
                            /\ \A n \in 1..Len(kept) : kept[n] = long[n + d]
          /\ Len(long) > 0 => Len(kept) > 0
          /\ Len(long) > 1 => Len(kept) > 1
      BY <2>1, CapRunsKeeps
    <2> QED BY <1>4, <2>1, <2>2
  <1>8. PICK d \in Nat : /\ Len(runs) + 1 = Len(kept) + d
                         /\ \A n \in 1..Len(kept) : kept[n] = long[n + d]
    BY <1>7
  <1> HIDE DEF kept
  <1>11. /\ after \in RegistrySource /\ after.no = source.no /\ after.lastRun = day /\ after.runs = kept
    BY <1>1, <1>7 DEF RegistrySource
  <1> HIDE DEF after
  <1>12. Len(kept) \in Nat /\ kept[Len(kept)] = record
    <2>1. Len(kept) \in Nat
      BY <1>7
    <2>2. Len(kept) \in 1..Len(kept) /\ Len(kept) + d = Len(runs) + 1
      BY <1>7, <1>8, <2>1
    <2> QED BY <1>4, <1>8, <2>1, <2>2
  <1>13. ASSUME NEW n \in 1..Len(kept), n # Len(kept)
         PROVE  n + d \in 1..Len(runs) /\ kept[n] = runs[n + d]
    <2>1. n + d \in 1..Len(runs)
      BY <1>2, <1>8, <1>12, <1>13
    <2> QED BY <1>4, <1>8, <2>1
  <1>14. RunsOK(id, kept, source.no, later)
    <2> SUFFICES ASSUME NEW n \in 1..Len(kept)
                 PROVE  /\ kept[n].no \in 1..Len(later)
                        /\ later[kept[n].no].id = id /\ later[kept[n].no].source = source.no
                        /\ \A m \in 1..Len(kept) : m < n => kept[m].no < kept[n].no
      BY DEF RunsOK
    <2>1. CASE n = Len(kept)
      <3>1. kept[n].no = no
        BY <1>3, <1>12, <2>1
      <3>2. ASSUME NEW m \in 1..Len(kept), m < n PROVE kept[m].no < kept[n].no
        <4>1. m # Len(kept)
          BY <1>12, <2>1, <3>2
        <4>2. kept[m] = runs[m + d] /\ m + d \in 1..Len(runs)
          BY <1>13, <4>1
        <4>3. runs[m + d].no \in 1..Len(all)
          BY <1>1, <4>2 DEF RunsOK
        <4> QED BY <1>2, <3>1, <4>2, <4>3
      <3> QED BY <1>2, <1>5, <3>1, <3>2
    <2>2. CASE n # Len(kept)
      <3>1. kept[n] = runs[n + d] /\ n + d \in 1..Len(runs)
        BY <1>13, <2>2
      <3>2. /\ kept[n].no \in 1..Len(all)
            /\ all[kept[n].no].id = id /\ all[kept[n].no].source = source.no
        BY <1>1, <3>1 DEF RunsOK
      <3>3. later[kept[n].no] = all[kept[n].no] /\ kept[n].no \in 1..Len(later)
        BY <1>2, <1>5, <3>2
      <3>4. ASSUME NEW m \in 1..Len(kept), m < n PROVE kept[m].no < kept[n].no
        <4>1. m # Len(kept)
          BY <1>12, <3>4
        <4>2. kept[m] = runs[m + d] /\ m + d \in 1..Len(runs) /\ m + d < n + d
          BY <1>13, <3>4, <4>1
        <4> QED BY <1>1, <3>1, <4>2 DEF RunsOK
      <3> QED BY <3>2, <3>3, <3>4
    <2> QED BY <2>1, <2>2
  <1>15. ASSUME Alone(id, source.no, later) PROVE RunsTell(id, kept, later)
    <2>1. Alone(id, source.no, all)
      BY <1>2, <1>5, <1>15 DEF Alone
    <2>2. RunsTell(id, runs, all)
      BY <1>1, <2>1
    <2>3. ASSUME NEW n \in 1..Len(kept) PROVE Mirrors(kept[n], later[kept[n].no])
      <3>1. CASE n = Len(kept)
        BY <1>3, <1>5, <1>12, <3>1 DEF Mirrors
      <3>2. CASE n # Len(kept)
        <4>1. kept[n] = runs[n + d] /\ n + d \in 1..Len(runs)
          BY <1>13, <3>2
        <4>2. runs[n + d].no \in 1..Len(all)
          BY <1>1, <4>1 DEF RunsOK
        <4> QED BY <1>5, <2>2, <4>1, <4>2 DEF RunsTell
      <3> QED BY <3>1, <3>2
    <2>4. ASSUME NEW k \in 1..Len(later), later[k].id = id
          PROVE  /\ Len(kept) > 0 /\ k <= kept[Len(kept)].no
                 /\ later[k].outcome = "running" => k = kept[Len(kept)].no
                 /\ k # kept[Len(kept)].no => Len(kept) > 1 /\ k <= kept[Len(kept) - 1].no
      <3>1. kept[Len(kept)].no = no
        BY <1>3, <1>12
      <3>2. CASE k = no
        BY <1>2, <1>7, <3>1, <3>2
      <3>3. CASE k # no
        <4>1. k \in 1..Len(all) /\ all[k].id = id /\ later[k] = all[k]
          BY <1>2, <1>5, <2>4, <3>3
        <4>2. /\ Len(runs) > 0 /\ k <= runs[Len(runs)].no
              /\ all[k].outcome = "running" => k = runs[Len(runs)].no
          BY <2>2, <4>1 DEF RunsTell
        <4>3. Len(runs) \in 1..Len(runs)
          BY <1>2, <4>2
        <4>4. all[k].outcome # "running"
          BY <1>6, <2>2, <4>2, <4>3 DEF RunsTell, Mirrors
        <4>5. Len(kept) > 1
          BY <1>7, <4>2
        <4>6. Len(kept) - 1 \in 1..Len(kept) /\ Len(kept) - 1 # Len(kept) /\ Len(kept) - 1 + d = Len(runs)
          BY <1>2, <1>8, <1>12, <4>5
        <4>7. kept[Len(kept) - 1] = runs[Len(runs)]
          BY <1>13, <4>6
        <4> QED BY <1>2, <1>7, <3>1, <4>1, <4>2, <4>4, <4>5, <4>7
      <3> QED BY <3>2, <3>3
    <2> QED BY <2>3, <2>4 DEF RunsTell
  <1>16. after.lastRun = 0 <=> Len(after.runs) = 0
    BY <1>7, <1>11
  <1>17. SourceOK(id, after, later, count)
    BY <1>1, <1>11, <1>14, <1>15, <1>16 DEF SourceOK
  <1> QED BY <1>17 DEF after, later, kept, long, record, no, runs

-----------------------------------------------------------------------------
\* A run is launched, by the owner or the sweep.
LEMMA RegistryLaunches ==
  ASSUME RegistryInv, NEW id \in Registry!Here, ~Registry!IsRunning(v2[id]), Registry!Launched(id),
         v1' = v1, v5' = v5
  PROVE  RegistryInv'
  <1>1. /\ v1 \in Nat /\ v1 > 0 /\ v5 \in Nat /\ v4 \in Seq(RegistryScrape)
        /\ \A k \in 1..Len(v4) : v4[k].source < v5
        /\ v2 \in [Registry!Ids -> RegistrySource \cup {None}]
        /\ id \in Registry!Ids /\ v2[id] # None /\ SourceOK(id, v2[id], v4, v5)
    BY DEF RegistryInv, Registry!Here
  <1> DEFINE source == v2[id]
             no == Len(v4) + 1
             scrape == [id |-> id, source |-> source.no, outcome |-> "running", leads |-> 0, reviewed |-> -1]
             after == [source EXCEPT !.runs = Registry!CapRuns(Append(@, Registry!Record(Len(v4) + 1))),
                                     !.lastRun = v1]
  <1>2. source.no \in Nat /\ source.no < v5
    BY <1>1 DEF SourceOK, RegistrySource
  <1>3. v4' = Append(v4, scrape)
    BY DEF Registry!Launched
  <1>4. v2' = [v2 EXCEPT ![id] = after]
    BY <1>1 DEF Registry!Launched
  <1> HIDE DEF source
  <1>5. scrape \in RegistryScrape
    BY <1>1, <1>2 DEF RegistryScrape, RegistryOutcomes
  <1>6. /\ scrape.id = id /\ scrape.source = source.no
        /\ scrape.outcome = "running" /\ scrape.leads = 0 /\ scrape.reviewed = -1
    OBVIOUS
  <1> HIDE DEF scrape
  <1>7. SourceOK(id, after, v4', v5')
    <2>1. SourceOK(id, source, v4, v5) /\ ~Registry!IsRunning(source)
      BY <1>1 DEF source
    <2> HIDE DEF after
    <2>2. SourceOK(id, after, Append(v4, scrape), v5)
      BY <1>1, <1>5, <1>6, <2>1, LaunchedSource DEF after
    <2> QED BY <1>3, <2>2
  <1>8. /\ v4' \in Seq(RegistryScrape) /\ Len(v4') = Len(v4) + 1
        /\ \A k \in 1..Len(v4) : v4'[k] = v4[k]
        /\ v4'[Len(v4) + 1] = scrape
    BY <1>1, <1>3, <1>5, AppendProperties
  <1>9. \A k \in 1..Len(v4') : v4'[k].source < v5' /\ (k > Len(v4) => v4'[k].id = id)
    BY <1>1, <1>2, <1>6, <1>8
  <1> HIDE DEF after
  <1>10. OneSource(id, after)
    BY <1>1, <1>4, <1>7, <1>8, <1>9 DEF OneSource
  <1> QED BY <1>1, <1>10, OneSourceOnly

LEMMA RegistryRuns ==
  ASSUME RegistryInv, (\E id \in Registry!Ids : Registry!RunNow(id)) \/ Registry!Drain
  PROVE  RegistryInv'
  <1>1. CASE \E id \in Registry!Ids : Registry!RunNow(id)
    BY <1>1, RegistryLaunches DEF Registry!RunNow
  <1>2. CASE Registry!Drain /\ Head(v3) \in Registry!Here /\ ~Registry!IsRunning(v2[Head(v3)])
    BY <1>2, RegistryLaunches DEF Registry!Drain
  <1>3. CASE Registry!Drain /\ ~(Head(v3) \in Registry!Here /\ ~Registry!IsRunning(v2[Head(v3)]))
    <2>1. v1' = v1 /\ v2' = v2 /\ v4' = v4 /\ v5' = v5
      BY <1>3 DEF Registry!Drain
    <2> QED BY <2>1 DEF RegistryInv
  <1> QED BY <1>1, <1>2, <1>3

-----------------------------------------------------------------------------
\* Records whose outcome, leads or reviews change, and those of the scrape they are of.
LEMMA RecordsChange ==
  ASSUME NEW id, NEW source, NEW all \in Seq(RegistryScrape), NEW later \in Seq(RegistryScrape),
         NEW count \in Nat, SourceOK(id, source, all, count),
         NEW runs \in Seq(RegistryRecord), Len(runs) = Len(source.runs),
         \A n \in 1..Len(runs) : runs[n].no = source.runs[n].no,
         Len(later) = Len(all),
         \A k \in 1..Len(all) : later[k].id = all[k].id /\ later[k].source = all[k].source,
         Alone(id, source.no, all) /\ RunsTell(id, source.runs, all) =>
           /\ \A n \in 1..Len(runs) : Mirrors(runs[n], later[runs[n].no])
           /\ \A k \in 1..Len(all) :
                all[k].id = id /\ later[k].outcome = "running" => all[k].outcome = "running"
  PROVE  SourceOK(id, [source EXCEPT !.runs = runs], later, count)
  <1> DEFINE after == [source EXCEPT !.runs = runs]
             old == source.runs
  <1>1. /\ source \in RegistrySource /\ source.no < count /\ old \in Seq(RegistryRecord)
        /\ RunsOK(id, old, source.no, all) /\ (source.lastRun = 0 <=> Len(old) = 0)
        /\ Alone(id, source.no, all) => RunsTell(id, old, all)
    BY DEF SourceOK, RegistrySource
  <1> HIDE DEF old
  <1>4. /\ after \in RegistrySource /\ after.no = source.no /\ after.lastRun = source.lastRun
        /\ after.runs = runs
    BY <1>1 DEF RegistrySource
  <1> HIDE DEF after
  <1>5. Len(runs) = Len(old) /\ \A n \in 1..Len(runs) : runs[n].no = old[n].no
    BY DEF old
  <1>6. RunsOK(id, runs, source.no, later)
    BY <1>1, <1>5 DEF RunsOK
  <1>7. ASSUME Alone(id, source.no, later) PROVE RunsTell(id, runs, later)
    <2>1. Alone(id, source.no, all)
      BY <1>7 DEF Alone
    <2>2. RunsTell(id, old, all)
      BY <1>1, <2>1
    <2>3. /\ \A n \in 1..Len(runs) : Mirrors(runs[n], later[runs[n].no])
          /\ \A k \in 1..Len(all) :
               all[k].id = id /\ later[k].outcome = "running" => all[k].outcome = "running"
      BY <2>1, <2>2 DEF old
    <2>4. ASSUME NEW k \in 1..Len(later), later[k].id = id
          PROVE  /\ Len(runs) > 0 /\ k <= runs[Len(runs)].no
                 /\ later[k].outcome = "running" => k = runs[Len(runs)].no
                 /\ k # runs[Len(runs)].no => Len(runs) > 1 /\ k <= runs[Len(runs) - 1].no
      <3>1. k \in 1..Len(all) /\ all[k].id = id
        BY <2>4
      <3>2. /\ Len(old) > 0 /\ k <= old[Len(old)].no
            /\ all[k].outcome = "running" => k = old[Len(old)].no
            /\ k # old[Len(old)].no => Len(old) > 1 /\ k <= old[Len(old) - 1].no
        BY <2>2, <3>1 DEF RunsTell
      <3>3. Len(runs) \in Nat
        OBVIOUS
      <3>4. runs[Len(runs)].no = old[Len(old)].no
        BY <1>5, <3>2, <3>3
      <3>5. Len(runs) > 1 => runs[Len(runs) - 1].no = old[Len(old) - 1].no
        <4>1. Len(runs) > 1 => Len(runs) - 1 \in 1..Len(runs)
          BY <3>3
        <4> QED BY <1>5, <4>1
      <3> QED BY <1>5, <2>3, <3>1, <3>2, <3>4, <3>5
    <2> QED BY <2>3, <2>4 DEF RunsTell
  <1>8. after.lastRun = 0 <=> Len(after.runs) = 0
    BY <1>1, <1>4, <1>5
  <1>9. SourceOK(id, after, later, count)
    BY <1>1, <1>4, <1>6, <1>7, <1>8 DEF SourceOK
  <1> QED BY <1>9 DEF after

\* A run ends: its record is closed.
LEMMA RegistryCloses ==
  ASSUME RegistryInv, NEW no, Registry!Closes(no)
  PROVE  RegistryInv'
  <1>1. /\ v1 \in Nat /\ v1 > 0 /\ v5 \in Nat /\ v4 \in Seq(RegistryScrape)
        /\ \A k \in 1..Len(v4) : v4[k].source < v5
        /\ v2 \in [Registry!Ids -> RegistrySource \cup {None}]
    BY DEF RegistryInv
  <1>2. no \in 1..Len(v4) /\ v4[no].outcome = "running" /\ v4[no] \in RegistryScrape
    BY <1>1 DEF Registry!Closes, Registry!UnderWay
  <1> DEFINE id == v4[no].id
  <1>3. PICK outcome \in Endings, leads \in 0..1 :
          /\ v4' = [v4 EXCEPT ![no].outcome = outcome, ![no].leads = leads]
          /\ v2' = IF id \in Registry!Here
                   THEN [v2 EXCEPT ![id] = Registry!Closed(@, no, outcome, leads)] ELSE v2
          /\ v1' = v1 /\ v5' = v5
    BY DEF Registry!Closes
  <1> DEFINE was == v4[no]
             scrape == [was EXCEPT !.outcome = outcome, !.leads = leads]
  <1>4. outcome \in RegistryOutcomes /\ outcome # "running" /\ leads \in {0, 1}
    BY RegistryAssumption DEF RegistryOutcomes
  <1>5. v4' = [v4 EXCEPT ![no] = scrape]
    BY <1>2, <1>3
  <1> HIDE DEF was
  <1>6. was \in RegistryScrape
    BY <1>2 DEF was
  <1>9. /\ scrape \in RegistryScrape /\ scrape.id = was.id /\ scrape.source = was.source
        /\ scrape.outcome = outcome /\ scrape.leads = leads /\ scrape.reviewed = was.reviewed
    BY <1>4, <1>6 DEF RegistryScrape
  <1> HIDE DEF scrape
  <1>10. /\ v4' \in Seq(RegistryScrape) /\ Len(v4') = Len(v4) /\ v4'[no] = scrape
         /\ \A k \in 1..Len(v4) : k # no => v4'[k] = v4[k]
    BY <1>1, <1>2, <1>5, <1>9
  <1>11. \A k \in 1..Len(v4) : v4'[k].id = v4[k].id /\ v4'[k].source = v4[k].source
    BY <1>9, <1>10 DEF was
  <1>12. \A k \in 1..Len(v4') : v4'[k].source < v5' /\ ~(k > Len(v4))
    BY <1>1, <1>3, <1>10, <1>11
  <1>13. id \in Registry!Ids /\ id = was.id
    BY <1>2 DEF RegistryScrape, was
  <1>14. \A k \in 1..Len(v4) : v4[k].id # id => v4'[k] = v4[k]
    BY <1>10
  <1> DEFINE Rest == /\ v1' \in Nat /\ v1' > 0 /\ v5' \in Nat /\ v5 <= v5' /\ v5' = v5
                     /\ v4' \in Seq(RegistryScrape) /\ Len(v4) <= Len(v4')
                     /\ \A k \in 1..Len(v4') : k > Len(v4) => v4'[k].id = id
  <1>17. Rest
    BY <1>1, <1>3, <1>10, <1>12
  <1> HIDE DEF id
  <1>15. CASE v2[id] # None
    <2> DEFINE source == v2[id]
               old == source.runs
               at == Registry!RecordOf(source, no)
               closed(run) == [run EXCEPT !.outcome = outcome, !.leads = leads]
               runs == [n \in DOMAIN old |-> IF n \in at THEN closed(old[n]) ELSE old[n]]
               after == [source EXCEPT !.runs = runs]
    <2>1. SourceOK(id, source, v4, v5)
      BY <1>13, <1>15 DEF RegistryInv
    <2>2. /\ source \in RegistrySource /\ old \in Seq(RegistryRecord)
          /\ RunsOK(id, old, source.no, v4)
      BY <2>1 DEF SourceOK, RegistrySource
    <2>3. v2' = [v2 EXCEPT ![id] = after]
      BY <1>1, <1>3, <1>13, <1>15 DEF Registry!Here, Registry!Closed
    <2>4. ASSUME NEW run \in RegistryRecord
          PROVE  /\ closed(run) \in RegistryRecord /\ closed(run).no = run.no
                 /\ closed(run).outcome = outcome /\ closed(run).leads = leads
                 /\ closed(run).reviewed = run.reviewed
      BY <1>4, <2>4 DEF RegistryRecord
    <2> HIDE DEF source, closed, at
    <2>5. DOMAIN old = 1..Len(old) /\ Len(old) \in Nat /\ \A n \in 1..Len(old) : old[n] \in RegistryRecord
      BY <2>2
    <2> HIDE DEF old
    <2>6. /\ runs \in Seq(RegistryRecord) /\ Len(runs) = Len(old)
          /\ \A n \in 1..Len(runs) : runs[n] = IF n \in at THEN closed(old[n]) ELSE old[n]
      <3>1. \A n \in 1..Len(old) : runs[n] \in RegistryRecord
        BY <2>4, <2>5
      <3> QED BY <2>5, <3>1
    <2> HIDE DEF runs
    <2>7. \A n \in 1..Len(runs) : runs[n].no = old[n].no
      BY <2>4, <2>5, <2>6
    <2>8. ASSUME Alone(id, source.no, v4), RunsTell(id, old, v4)
          PROVE  /\ \A n \in 1..Len(runs) : Mirrors(runs[n], v4'[runs[n].no])
                 /\ \A k \in 1..Len(v4) :
                      v4[k].id = id /\ v4'[k].outcome = "running" => v4[k].outcome = "running"
      <3>1. Len(old) > 0 /\ no = old[Len(old)].no
        BY <1>2, <2>8 DEF RunsTell, id
      <3>2. at = {n \in 1..Len(old) : old[n].no = no}
        BY <2>5, <3>1 DEF at, Registry!RecordOf, old
      <3>3. ASSUME NEW n \in 1..Len(runs) PROVE Mirrors(runs[n], v4'[runs[n].no])
        <4>1. Mirrors(old[n], v4[old[n].no]) /\ old[n].no \in 1..Len(v4)
          BY <2>2, <2>6, <2>8 DEF RunsTell, RunsOK
        <4>2. CASE n \in at
          <5>1. old[n].no = no /\ old[n] \in RegistryRecord /\ runs[n] = closed(old[n])
            BY <2>5, <2>6, <3>2, <4>2
          <5>2. /\ runs[n].no = no /\ runs[n].outcome = outcome /\ runs[n].leads = leads
                /\ runs[n].reviewed = old[n].reviewed
            BY <2>4, <5>1
          <5> QED BY <1>9, <1>10, <4>1, <5>1, <5>2 DEF Mirrors, was
        <4>3. CASE n \notin at
          <5>1. runs[n] = old[n] /\ old[n].no # no
            BY <2>6, <3>2, <4>3
          <5> QED BY <1>10, <4>1, <5>1
        <4> QED BY <4>2, <4>3
      <3>4. \A k \in 1..Len(v4) : v4'[k].outcome = "running" => v4[k].outcome = "running"
        BY <1>2, <1>10
      <3> QED BY <3>3, <3>4
    <2>9. SourceOK(id, after, v4', v5)
      <3> HIDE DEF after
      <3>1. Len(runs) = Len(source.runs) /\ \A n \in 1..Len(runs) : runs[n].no = source.runs[n].no
        BY <2>6, <2>7 DEF old
      <3>2. Alone(id, source.no, v4) /\ RunsTell(id, source.runs, v4) =>
              /\ \A n \in 1..Len(runs) : Mirrors(runs[n], v4'[runs[n].no])
              /\ \A k \in 1..Len(v4) :
                   v4[k].id = id /\ v4'[k].outcome = "running" => v4[k].outcome = "running"
        BY <2>8 DEF old
      <3>3. SourceOK(id, [source EXCEPT !.runs = runs], v4', v5)
        BY <1>1, <1>10, <1>11, <2>1, <2>6, <3>1, <3>2, RecordsChange
      <3> QED BY <3>3 DEF after
    <2> HIDE DEF after
    <2>10. OneSource(id, after)
      BY <1>11, <1>12, <1>14, <1>17, <2>3, <2>9 DEF OneSource
    <2> QED BY <1>13, <2>10, OneSourceOnly
  <1>16. CASE v2[id] = None
    <2>1. v2' = [v2 EXCEPT ![id] = None]
      BY <1>1, <1>3, <1>13, <1>16 DEF Registry!Here, id
    <2>2. OneSource(id, None)
      BY <1>11, <1>12, <1>14, <1>17, <2>1 DEF OneSource
    <2> QED BY <1>13, <2>2, OneSourceOnly
  <1> QED BY <1>15, <1>16

\* The scout reports.
LEMMA RegistryReports ==
  ASSUME RegistryInv, NEW no, Registry!Report(no)
  PROVE  RegistryInv'
  <1> DEFINE id == v4[no].id
             source == v2[id]
             old == source.runs
             at == {n \in DOMAIN old : old[n].no = no}
  <1>1. /\ v1 \in Nat /\ v1 > 0 /\ v5 \in Nat /\ v4 \in Seq(RegistryScrape)
        /\ \A k \in 1..Len(v4) : v4[k].source < v5
        /\ v2 \in [Registry!Ids -> RegistrySource \cup {None}]
    BY DEF RegistryInv
  <1>2. no \in 1..Len(v4) /\ id \in Registry!Ids /\ v2[id] # None
    BY SMTT(30), <1>1 DEF Registry!Report, Registry!Here
  <1>3. PICK reviewed \in 0..1 :
          /\ v4' = [v4 EXCEPT ![no].reviewed = reviewed]
          /\ v2' = [v2 EXCEPT ![id].runs =
                [n \in DOMAIN @ |-> IF n \in at THEN [@[n] EXCEPT !.reviewed = reviewed] ELSE @[n]]]
          /\ v1' = v1 /\ v5' = v5
    BY DEF Registry!Report
  <1> DEFINE was == v4[no]
             scrape == [was EXCEPT !.reviewed = reviewed]
             told(run) == [run EXCEPT !.reviewed = reviewed]
             runs == [n \in DOMAIN old |-> IF n \in at THEN told(old[n]) ELSE old[n]]
             after == [source EXCEPT !.runs = runs]
  <1>4. reviewed \in {-1, 0, 1}
    BY SMTT(30)
  <1>5. v4' = [v4 EXCEPT ![no] = scrape]
    BY <1>2, <1>3
  <1>6. v2' = [v2 EXCEPT ![id] = after]
    BY <1>1, <1>2, <1>3
  <1> HIDE DEF was
  <1>7. was \in RegistryScrape
    BY <1>1, <1>2 DEF was
  <1>8. /\ scrape \in RegistryScrape /\ scrape.id = was.id /\ scrape.source = was.source
        /\ scrape.outcome = was.outcome /\ scrape.leads = was.leads /\ scrape.reviewed = reviewed
    BY <1>4, <1>7 DEF RegistryScrape
  <1> HIDE DEF scrape
  <1>9. /\ v4' \in Seq(RegistryScrape) /\ Len(v4') = Len(v4) /\ v4'[no] = scrape
        /\ \A k \in 1..Len(v4) : k # no => v4'[k] = v4[k]
    BY <1>1, <1>2, <1>5, <1>8
  <1>10. \A k \in 1..Len(v4) : v4'[k].id = v4[k].id /\ v4'[k].source = v4[k].source
    BY <1>8, <1>9 DEF was
  <1>11. \A k \in 1..Len(v4') : v4'[k].source < v5' /\ ~(k > Len(v4))
    BY <1>1, <1>3, <1>9, <1>10
  <1>12. id = was.id
    BY DEF was
  <1>13. \A k \in 1..Len(v4) : v4[k].id # id => v4'[k] = v4[k]
    BY <1>9
  <1>14. SourceOK(id, source, v4, v5)
    BY <1>2 DEF RegistryInv
  <1> HIDE DEF id, source
  <1>15. /\ source \in RegistrySource /\ old \in Seq(RegistryRecord) /\ RunsOK(id, old, source.no, v4)
    BY <1>14 DEF SourceOK, RegistrySource
  <1> HIDE DEF old
  <1>16. DOMAIN old = 1..Len(old) /\ Len(old) \in Nat /\ \A n \in 1..Len(old) : old[n] \in RegistryRecord
    BY <1>15
  <1>17. at = {n \in 1..Len(old) : old[n].no = no}
    BY <1>16
  <1> HIDE DEF at
  <1>18. ASSUME NEW run \in RegistryRecord
         PROVE  /\ told(run) \in RegistryRecord /\ told(run).no = run.no
                /\ told(run).outcome = run.outcome /\ told(run).leads = run.leads
                /\ told(run).reviewed = reviewed
    BY <1>4 DEF RegistryRecord
  <1> HIDE DEF told
  <1>19. /\ runs \in Seq(RegistryRecord) /\ Len(runs) = Len(old)
         /\ \A n \in 1..Len(runs) : runs[n] = IF n \in at THEN told(old[n]) ELSE old[n]
    <2>1. \A n \in 1..Len(old) : runs[n] \in RegistryRecord
      BY <1>16, <1>18
    <2> QED BY <1>16, <2>1
  <1> HIDE DEF runs
  <1>20. \A n \in 1..Len(runs) : runs[n].no = old[n].no
    BY <1>16, <1>18, <1>19
  <1>21. ASSUME RunsTell(id, old, v4)
         PROVE  /\ \A n \in 1..Len(runs) : Mirrors(runs[n], v4'[runs[n].no])
                /\ \A k \in 1..Len(v4) :
                     v4[k].id = id /\ v4'[k].outcome = "running" => v4[k].outcome = "running"
    <2>1. ASSUME NEW n \in 1..Len(runs) PROVE Mirrors(runs[n], v4'[runs[n].no])
      <3>1. Mirrors(old[n], v4[old[n].no]) /\ old[n].no \in 1..Len(v4)
        BY <1>15, <1>19, <1>21 DEF RunsTell, RunsOK
      <3>2. CASE n \in at
        <4>1. old[n].no = no /\ old[n] \in RegistryRecord /\ runs[n] = told(old[n])
          BY <1>16, <1>17, <1>19, <3>2
        <4>2. /\ runs[n].no = no /\ runs[n].outcome = old[n].outcome /\ runs[n].leads = old[n].leads
              /\ runs[n].reviewed = reviewed
          BY <1>18, <4>1
        <4> QED BY <1>8, <1>9, <3>1, <4>1, <4>2 DEF Mirrors, was
      <3>3. CASE n \notin at
        <4>1. runs[n] = old[n] /\ old[n].no # no
          BY <1>17, <1>19, <3>3
        <4> QED BY <1>9, <3>1, <4>1
      <3> QED BY <3>2, <3>3
    <2>2. \A k \in 1..Len(v4) : v4'[k].outcome = v4[k].outcome
      BY <1>8, <1>9 DEF was
    <2> QED BY <2>1, <2>2
  <1>22. SourceOK(id, after, v4', v5)
    <2> HIDE DEF after
    <2>1. Len(runs) = Len(source.runs) /\ \A n \in 1..Len(runs) : runs[n].no = source.runs[n].no
      BY <1>19, <1>20 DEF old
    <2>2. Alone(id, source.no, v4) /\ RunsTell(id, source.runs, v4) =>
            /\ \A n \in 1..Len(runs) : Mirrors(runs[n], v4'[runs[n].no])
            /\ \A k \in 1..Len(v4) :
                 v4[k].id = id /\ v4'[k].outcome = "running" => v4[k].outcome = "running"
      BY <1>21 DEF old
    <2>3. SourceOK(id, [source EXCEPT !.runs = runs], v4', v5)
      BY <1>1, <1>9, <1>10, <1>14, <1>19, <2>1, <2>2, RecordsChange
    <2> QED BY SMTT(30), <2>3 DEF after
  <1>23. /\ v1' \in Nat /\ v1' > 0 /\ v5' \in Nat /\ v5 <= v5' /\ v5' = v5 /\ Len(v4) <= Len(v4')
    BY <1>1, <1>3, <1>9
  <1> HIDE DEF after
  <1>24. OneSource(id, after)
    BY <1>6, <1>9, <1>10, <1>11, <1>13, <1>22, <1>23 DEF OneSource
  <1> QED BY <1>2, <1>24, OneSourceOnly

LEMMA RegistryStep == RegistryInv /\ Registry!RegistryNext => RegistryInv'
  <1> SUFFICES ASSUME RegistryInv, Registry!RegistryNext PROVE RegistryInv'
    OBVIOUS
  <1>1. CASE \E no \in 1..MaxAgents : Registry!Closes(no) \/ Registry!Report(no)
    BY <1>1, RegistryCloses, RegistryReports
  <1>2. CASE (\E id \in Registry!Ids : Registry!RunNow(id)) \/ Registry!Drain
    BY <1>2, RegistryRuns
  <1>3. CASE \/ \E name \in SourceNames, cadence \in Registry!Cadences : Registry!AddSource(name, cadence)
             \/ \E id \in Registry!Ids :
                  Registry!DeleteSource(id) \/ \E fields \in Registry!Accepted : Registry!PatchSource(id, fields)
             \/ Registry!RunAllDue \/ Registry!Tick
    BY <1>3, RegistryEdits
  <1> QED BY <1>1, <1>2, <1>3 DEF Registry!RegistryNext

-----------------------------------------------------------------------------
LEMMA MaxIs ==
  ASSUME NEW S, S \subseteq Int, NEW m \in S, \A k \in S : k <= m
  PROVE  Registry!Max(S) = m
  <1>1. \A k \in S : m >= k
    OBVIOUS
  <1>2. ASSUME NEW x \in S, \A k \in S : x >= k PROVE x = m
    <2>1. x >= m /\ m >= x /\ x \in Int /\ m \in Int
      BY <1>1, <1>2
    <2> QED BY <2>1
  <1> QED BY <1>1, <1>2 DEF Registry!Max

\* The scrapes of a source, and those that ended.
OwnScrapes(id, no, all) == {k \in 1..Len(all) : all[k].id = id /\ all[k].source = no}
EndedScrapes(id, no, all) == {k \in OwnScrapes(id, no, all) : all[k].outcome # "running"}

\* The newest scrape, and the newest that ended, are those of the newest records.
LEMMA NewestTell ==
  ASSUME NEW id \in Registry!Ids, NEW source, NEW all \in Seq(RegistryScrape), NEW count,
         SourceOK(id, source, all, count), Alone(id, source.no, all)
  PROVE  LET own == OwnScrapes(id, source.no, all)
             ended == EndedScrapes(id, source.no, all)
         IN  /\ own = {} <=> Len(source.runs) = 0
             /\ Registry!IsRunning(source) <=>
                  own # {} /\ all[Registry!Max(own)].outcome = "running"
             /\ ended = {} <=> Registry!TerminalAt(source) = {}
             /\ ended # {} => Mirrors(Registry!LastTerminal(source), all[Registry!Max(ended)])
                              /\ Registry!Max(ended) \in 1..Len(all)
  <1> USE DEF OwnScrapes, EndedScrapes
  <1> DEFINE own == OwnScrapes(id, source.no, all)
             ended == EndedScrapes(id, source.no, all)
             runs == source.runs
             last == Len(runs)
             terminal == Registry!TerminalAt(source)
  <1>1. /\ runs \in Seq(RegistryRecord) /\ RunsOK(id, runs, source.no, all) /\ RunsTell(id, runs, all)
    BY DEF SourceOK, RegistrySource
  <1>2. last \in Nat /\ DOMAIN runs = 1..last /\ Len(all) \in Nat
    BY <1>1
  <1>3. terminal = {n \in 1..last : runs[n].outcome # "running"}
    BY <1>2 DEF Registry!TerminalAt
  <1>4. Registry!IsRunning(source) <=> \E n \in 1..last : runs[n].outcome = "running"
    BY <1>2 DEF Registry!IsRunning
  <1> HIDE DEF runs, terminal
  <1>5. \A n \in 1..last : /\ runs[n].no \in own /\ Mirrors(runs[n], all[runs[n].no])
                           /\ \A m \in 1..last : m < n => runs[m].no < runs[n].no
    BY <1>1 DEF RunsOK, RunsTell
  <1>6. ASSUME NEW k \in own
        PROVE  /\ last > 0 /\ k <= runs[last].no
               /\ all[k].outcome = "running" => k = runs[last].no
               /\ k # runs[last].no => last > 1 /\ k <= runs[last - 1].no
    BY <1>1, <1>6 DEF RunsTell
  <1> HIDE DEF last
  <1>7. own = {} <=> last = 0
    <2>1. last # 0 => last \in 1..last
      BY <1>2
    <2> QED BY <1>2, <1>5, <1>6, <2>1
  <1>8. own \subseteq Int /\ ended \subseteq Int
    BY <1>2
  <1>9. own # {} => last \in 1..last /\ Registry!Max(own) = runs[last].no
    <2> SUFFICES ASSUME own # {} PROVE last \in 1..last /\ Registry!Max(own) = runs[last].no
      OBVIOUS
    <2>1. last \in 1..last
      BY <1>2, <1>7
    <2>2. runs[last].no \in own /\ \A k \in own : k <= runs[last].no
      BY <1>5, <1>6, <2>1
    <2> HIDE DEF own
    <2> QED BY <1>8, <2>1, <2>2, MaxIs
  <1>10. \A n \in 1..last : runs[n].outcome = "running" => n = last
    <2> SUFFICES ASSUME NEW n \in 1..last, runs[n].outcome = "running" PROVE n = last
      OBVIOUS
    <2>1. runs[n].no = runs[last].no
      BY <1>5, <1>6 DEF Mirrors
    <2>2. last \in 1..last /\ (n # last => n < last)
      BY <1>2
    <2>3. n < last => runs[n].no < runs[last].no
      BY <1>5, <2>2
    <2>4. runs[n].no \in Int
      BY <1>5
    <2> QED BY <2>1, <2>2, <2>3, <2>4
  <1>11. Registry!IsRunning(source) <=> own # {} /\ all[Registry!Max(own)].outcome = "running"
    <2>1. ASSUME Registry!IsRunning(source)
          PROVE  own # {} /\ all[Registry!Max(own)].outcome = "running"
      <3>1. last \in 1..last /\ runs[last].outcome = "running"
        BY <1>4, <1>10, <2>1
      <3>2. own # {}
        BY <1>5, <3>1
      <3> QED BY <1>5, <1>9, <3>1, <3>2 DEF Mirrors
    <2>2. ASSUME own # {}, all[Registry!Max(own)].outcome = "running"
          PROVE  Registry!IsRunning(source)
      BY <1>4, <1>5, <1>9, <2>2 DEF Mirrors
    <2> QED BY <2>1, <2>2
  <1>12. ASSUME NEW n \in terminal PROVE runs[n].no \in ended
    BY <1>3, <1>5 DEF Mirrors
  <1>13. ASSUME NEW top \in terminal, \A n \in terminal : n <= top, \A k \in ended : k <= runs[top].no
         PROVE  /\ Mirrors(Registry!LastTerminal(source), all[Registry!Max(ended)])
                /\ Registry!Max(ended) \in 1..Len(all)
    <2>1. terminal \subseteq Int
      BY <1>3
    <2>2. Registry!Max(terminal) = top
      BY <1>13, <2>1, MaxIs
    <2>3. runs[top].no \in ended
      BY <1>12
    <2>4. Registry!Max(ended) = runs[top].no
      <3> HIDE DEF ended
      <3> QED BY <1>8, <1>13, <2>3, MaxIs
    <2>5. Registry!LastTerminal(source) = runs[top]
      BY <2>2 DEF Registry!LastTerminal, runs, terminal
    <2> QED BY <1>3, <1>5, <2>3, <2>4, <2>5
  <1>14. ASSUME ended # {}
         PROVE  \E top \in terminal : /\ \A n \in terminal : n <= top
                                      /\ \A k \in ended : k <= runs[top].no
    <2>1. own # {}
      BY <1>14
    <2>2. last \in 1..last
      BY <1>9, <2>1
    <2>3. CASE runs[last].outcome # "running"
      <3>1. last \in terminal /\ \A n \in terminal : n <= last
        BY <1>2, <1>3, <2>2, <2>3
      <3>2. \A k \in ended : k <= runs[last].no
        BY <1>6
      <3> QED BY <3>1, <3>2
    <2>4. CASE runs[last].outcome = "running"
      <3>1. all[runs[last].no].outcome = "running"
        BY <1>5, <2>2, <2>4 DEF Mirrors
      <3>2. \A k \in ended : k # runs[last].no
        BY <3>1
      <3>3. \A k \in ended : last > 1 /\ k <= runs[last - 1].no
        BY <1>6, <3>2
      <3>4. last > 1
        BY <1>14, <3>3
      <3>5. last - 1 \in 1..last /\ last - 1 # last
        BY <1>2, <3>4
      <3>6. last - 1 \in terminal
        BY <1>3, <1>10, <3>5
      <3>7. \A n \in terminal : n <= last - 1
        <4>1. \A n \in terminal : n # last /\ n \in 1..last
          BY <1>3, <2>4
        <4> QED BY <1>2, <4>1
      <3> QED BY <3>3, <3>6, <3>7
    <2> QED BY <2>3, <2>4
  <1>15. ended = {} <=> terminal = {}
    BY <1>12, <1>14
  <1>16. ended # {} => /\ Mirrors(Registry!LastTerminal(source), all[Registry!Max(ended)])
                       /\ Registry!Max(ended) \in 1..Len(all)
    <2> HIDE DEF ended
    <2> QED BY <1>13, <1>14
  <1>17. own = {} <=> Len(source.runs) = 0
    BY <1>7 DEF last, runs
  <1> QED BY <1>11, <1>15, <1>16, <1>17 DEF terminal

LEMMA NotInherited ==
  ASSUME RegistryInv, NEW id, ~Registry!Inherited(id)
  PROVE  Alone(id, v2[id].no, v4)
  <1>1. DOMAIN v4 = 1..Len(v4)
    BY DEF RegistryInv
  <1> QED BY <1>1 DEF Alone, Registry!Inherited, Registry!Range

LEMMA RegistryHolds ==
  RegistryInv => Registry!PillTellsScrapes /\ Registry!NoScrapeUnseen
  <1> SUFFICES ASSUME RegistryInv PROVE Registry!PillTellsScrapes /\ Registry!NoScrapeUnseen
    OBVIOUS
  <1>1. v4 \in Seq(RegistryScrape) /\ DOMAIN v4 = 1..Len(v4) /\ Len(v4) \in Nat
    BY DEF RegistryInv
  <1>2. ASSUME NEW id \in Registry!Here, ~Registry!Inherited(id)
        PROVE  /\ id \in Registry!Ids /\ SourceOK(id, v2[id], v4, v5) /\ Alone(id, v2[id].no, v4)
    BY <1>2, NotInherited DEF RegistryInv, Registry!Here
  <1>3. ASSUME NEW n \in Registry!UnderWay, v4[n].id \in Registry!Here,
               v2[v4[n].id].no = v4[n].source, ~Registry!Inherited(v4[n].id)
        PROVE  \E r \in Registry!Range(v2[v4[n].id].runs) : r.no = n /\ r.outcome = "running"
    <2> DEFINE id == v4[n].id
               runs == v2[id].runs
    <2>1. SourceOK(id, v2[id], v4, v5) /\ Alone(id, v2[id].no, v4)
      BY <1>2, <1>3
    <2>2. n \in 1..Len(v4) /\ v4[n].outcome = "running"
      BY <1>1 DEF Registry!UnderWay
    <2>3. RunsTell(id, runs, v4) /\ runs \in Seq(RegistryRecord)
      BY <2>1 DEF SourceOK, RegistrySource
    <2> HIDE DEF runs
    <2>4. Len(runs) > 0 /\ n = runs[Len(runs)].no
      BY <2>2, <2>3 DEF RunsTell
    <2>5. Len(runs) \in 1..Len(runs) /\ Len(runs) \in DOMAIN runs
      BY <2>3, <2>4
    <2>6. runs[Len(runs)].outcome = "running"
      BY <2>2, <2>3, <2>4, <2>5 DEF RunsTell, Mirrors
    <2>7. \E r \in Registry!Range(runs) : r.no = n /\ r.outcome = "running"
      BY <2>4, <2>5, <2>6 DEF Registry!Range
    <2> QED BY <2>7 DEF runs
  <1>4. Registry!NoScrapeUnseen
    BY <1>3 DEF Registry!NoScrapeUnseen
  <1>5. ASSUME NEW id \in Registry!Here, ~Registry!Inherited(id)
        PROVE  LET source == v2[id]
                   own == Registry!OwnAt(id)
                   ended == Registry!EndedAt(id)
                   last == v4[Registry!Max(ended)]
               IN  /\ source.active # "no" =>
                        /\ Registry!DeriveStatus(source) = "running" <=>
                             own # {} /\ v4[Registry!Max(own)].outcome = "running"
                        /\ Registry!DeriveStatus(source) = "failed" =>
                             ended = {} \/ last.outcome = "failed"
                        /\ Registry!DeriveStatus(source) = "never-run" <=> own = {}
                   /\ ended # {} =>
                        Registry!LastRunSignal(source) =
                          (IF last.outcome # "succeeded" THEN "none"
                           ELSE IF last.leads = 1 THEN "leads"
                           ELSE IF last.reviewed = -1 THEN "unverified"
                           ELSE IF last.reviewed = 1 THEN "dedup" ELSE "quiet")
    <2> DEFINE source == v2[id]
               own == Registry!OwnAt(id)
               ended == Registry!EndedAt(id)
               last == v4[Registry!Max(ended)]
               newest == Registry!LastTerminal(source)
    <2>1. own = OwnScrapes(id, source.no, v4) /\ ended = EndedScrapes(id, source.no, v4)
      BY <1>1 DEF Registry!OwnAt, Registry!EndedAt, OwnScrapes, EndedScrapes
    <2>2. id \in Registry!Ids /\ SourceOK(id, source, v4, v5) /\ Alone(id, source.no, v4)
      BY <1>2, <1>5
    <2> HIDE DEF source, own, ended
    <2>3. /\ own = {} <=> Len(source.runs) = 0
          /\ Registry!IsRunning(source) <=> own # {} /\ v4[Registry!Max(own)].outcome = "running"
          /\ ended = {} <=> Registry!TerminalAt(source) = {}
          /\ ended # {} => Mirrors(newest, last) /\ Registry!Max(ended) \in 1..Len(v4)
      BY <1>1, <2>1, <2>2, NewestTell
    <2>4. source.lastRun = 0 <=> Len(source.runs) = 0
      BY <2>2 DEF SourceOK
    <2>5. own = {} => ended = {}
      BY <2>1 DEF EndedScrapes
    <2>6. ended # {} => last \in RegistryScrape
      BY <1>1, <2>3
    <2> HIDE DEF newest, last
    <2>7. ASSUME source.active # "no"
          PROVE  Registry!DeriveStatus(source) =
                   IF Registry!IsRunning(source) THEN "running"
                   ELSE IF ended # {} /\ newest.outcome = "failed" THEN "failed"
                   ELSE IF ended = {} /\ source.lastRun = 0 THEN "never-run"
                   ELSE IF Registry!Overdue(source, 2) THEN "stale"
                   ELSE IF Registry!Due(source) THEN "due" ELSE "healthy"
      BY <2>3, <2>7 DEF Registry!DeriveStatus, newest
    <2>8. ASSUME source.active # "no"
          PROVE  /\ Registry!DeriveStatus(source) = "running" <=> Registry!IsRunning(source)
                 /\ Registry!DeriveStatus(source) = "failed" =>
                      ended # {} /\ newest.outcome = "failed"
                 /\ Registry!DeriveStatus(source) = "never-run" <=>
                      ~Registry!IsRunning(source) /\ ended = {} /\ source.lastRun = 0
      <3> DEFINE s == Registry!DeriveStatus(source)
                 a == Registry!IsRunning(source)
                 b == ended # {} /\ newest.outcome = "failed"
                 c == ended = {} /\ source.lastRun = 0
                 d == Registry!Overdue(source, 2)
                 e == Registry!Due(source)
      <3>1. s = IF a THEN "running" ELSE IF b THEN "failed" ELSE IF c THEN "never-run"
                ELSE IF d THEN "stale" ELSE IF e THEN "due" ELSE "healthy"
        BY <2>7, <2>8
      <3>2. ~(b /\ c)
        OBVIOUS
      <3> HIDE DEF s, a, b, c, d, e
      <3>3. /\ s = "running" <=> a
            /\ s = "failed" => b
            /\ s = "never-run" <=> ~a /\ c
        BY <3>1, <3>2
      <3> QED BY <3>3 DEF s, a, b, c
    <2>9. source.active # "no" =>
            /\ Registry!DeriveStatus(source) = "running" <=>
                 own # {} /\ v4[Registry!Max(own)].outcome = "running"
            /\ Registry!DeriveStatus(source) = "failed" => ended = {} \/ last.outcome = "failed"
            /\ Registry!DeriveStatus(source) = "never-run" <=> own = {}
      BY <2>3, <2>4, <2>5, <2>8 DEF Mirrors
    <2>10. ASSUME ended # {}
           PROVE  Registry!LastRunSignal(source) =
                    (IF last.outcome # "succeeded" THEN "none"
                     ELSE IF last.leads = 1 THEN "leads"
                     ELSE IF last.reviewed = -1 THEN "unverified"
                     ELSE IF last.reviewed = 1 THEN "dedup" ELSE "quiet")
      <3>1. last.leads \in {0, 1} /\ last.reviewed \in {-1, 0, 1}
        BY <2>6, <2>10 DEF RegistryScrape
      <3>2. newest.outcome = last.outcome /\ newest.leads = last.leads /\ newest.reviewed = last.reviewed
        BY <2>3, <2>10 DEF Mirrors
      <3>3. Registry!LastRunSignal(source) =
              (IF newest.outcome # "succeeded" THEN "none"
               ELSE IF newest.leads > 0 THEN "leads"
               ELSE IF newest.reviewed = -1 THEN "unverified"
               ELSE IF newest.reviewed > 0 THEN "dedup" ELSE "quiet")
        BY <2>3, <2>10 DEF Registry!LastRunSignal, newest
      <3>4. /\ last.leads > 0 <=> last.leads = 1
            /\ last.reviewed > 0 <=> last.reviewed = 1
        BY <3>1
      <3> QED BY <3>2, <3>3, <3>4
    <2> QED BY <2>9, <2>10 DEF source, own, ended, last
  <1>6. Registry!PillTellsScrapes
    BY <1>5 DEF Registry!PillTellsScrapes
  <1> QED BY <1>4, <1>6

-----------------------------------------------------------------------------
(***************************************************************************)
(* The shape of the decisions and of the registry, which the invariants    *)
(* above do not need.                                                      *)
(***************************************************************************)

\* A step changes the view of one tab at most.
LEMMA OneTabOnly ==
  ASSUME DeskShape, NEW b \in Tabs, NEW view, v2' = [v2 EXCEPT ![b] = view], DeskView(view)
  PROVE  DeskShape'
  BY DEF DeskShape

LEMMA ResolveShaped ==
  ASSUME DeskShape, NEW b \in Tabs, NEW t \in Tasks, NEW e, e.task = t,
         v2' = [v2 EXCEPT ![b].hidden = @ \cup {t}, ![b].toast = t, ![b].pending[t] = e]
  PROVE  DeskShape'
  <1>1. v2' = [v2 EXCEPT ![b] = [v2[b] EXCEPT !.hidden = @ \cup {t}, !.toast = t, !.pending[t] = e]]
    OBVIOUS
  <1> DEFINE now == v2[b]
             view == [now EXCEPT !.hidden = @ \cup {t}, !.toast = t, !.pending[t] = e]
  <1>2. DeskView(now)
    BY DEF DeskShape
  <1> HIDE DEF now
  <1>3. DeskView(view)
    BY <1>2 DEF DeskView
  <1>4. v2' = [v2 EXCEPT ![b] = view]
    BY <1>1 DEF now
  <1> HIDE DEF view
  <1> QED BY <1>3, <1>4, OneTabOnly

LEMMA DeskShaped ==
  ASSUME DeskShape, [Desk!DeskNext]_<<v1, v2, v3, v4, v5, v6>>
  PROVE  DeskShape'
  <1>1. ASSUME v2' = v2 PROVE DeskShape'
    BY SMTT(30), <1>1 DEF DeskShape
  <1>2. ASSUME NEW b \in Tabs, NEW t \in Tasks, Desk!Resolve(b, t) PROVE DeskShape'
    <2>1. PICK e : /\ e.task = t
                   /\ v2' = [v2 EXCEPT ![b].hidden = @ \cup {t}, ![b].toast = t, ![b].pending[t] = e]
      BY <1>2 DEF Desk!Resolve, Desk!BuildResolveWrite
    <2> QED BY <2>1, ResolveShaped
  <1>3. ASSUME NEW b \in Tabs, Desk!UndoResolve(b) PROVE DeskShape'
    <2> DEFINE now == v2[b]
               t == now.toast
               view == [now EXCEPT !.pending[t] = None, !.hidden = @ \ {t}, !.toast = None]
    <2>1. v2' = [v2 EXCEPT ![b].pending[t] = None, ![b].hidden = @ \ {t}, ![b].toast = None]
      BY <1>3 DEF Desk!UndoResolve
    <2>2. DeskView(now) /\ b \in DOMAIN v2
      BY DEF DeskShape
    <2>3. v2' = [v2 EXCEPT ![b] = view]
      BY <2>1, <2>2
    <2> HIDE DEF t, now
    <2>4. DeskView(view)
      BY <2>2 DEF DeskView
    <2> HIDE DEF view
    <2> QED BY <2>3, <2>4, OneTabOnly
  <1>4. ASSUME NEW b \in Tabs, NEW t \in Tasks, Desk!Flush(b, t) PROVE DeskShape'
    <2> DEFINE now == v2[b]
               toast == IF now.toast = t THEN None ELSE now.toast
               view == [now EXCEPT !.pending[t] = None, !.toast = toast]
    <2>1. v2' = [v2 EXCEPT ![b].pending[t] = None, ![b].toast = IF @ = t THEN None ELSE @]
      BY <1>4 DEF Desk!Flush
    <2>2. DeskView(now) /\ b \in DOMAIN v2
      BY DEF DeskShape
    <2>3. v2' = [v2 EXCEPT ![b] = view]
      BY <2>1, <2>2 DEF DeskView
    <2> HIDE DEF now
    <2>4. toast \in Tasks \cup {None}
      BY <2>2 DEF DeskView
    <2> HIDE DEF toast
    <2>5. DeskView(view)
      BY <2>2, <2>4 DEF DeskView
    <2> HIDE DEF view
    <2> QED BY <2>3, <2>5, OneTabOnly
  <1>5. ASSUME NEW b \in Tabs, Desk!BeforeUnload(b) PROVE DeskShape'
    <2> DEFINE now == v2[b]
               view == [now EXCEPT !.open = FALSE]
    <2>1. v2' = v2 \/ v2' = [v2 EXCEPT ![b] = view]
      BY <1>5 DEF Desk!BeforeUnload
    <2>2. DeskView(now)
      BY DEF DeskShape
    <2> HIDE DEF now
    <2>3. DeskView(view)
      BY <2>2 DEF DeskView
    <2> HIDE DEF view
    <2> QED BY <1>1, <2>1, <2>3, OneTabOnly
  <1>6. ASSUME NEW m \in v3, Desk!PatchFails(m) \/ Desk!Arrives(m) PROVE DeskShape'
    <2> DEFINE b == m.tab
               now == v2[b]
               unhidden == [now EXCEPT !.hidden = @ \ {m.entry.task}]
               loaded == Desk!Loaded(now, m.tasks)
    <2>1. \/ v2' = v2 \/ v2' = [v2 EXCEPT ![b] = unhidden] \/ v2' = [v2 EXCEPT ![b] = loaded]
      BY <1>6 DEF Desk!PatchFails, Desk!Arrives
    <2>2. CASE b \notin Tabs
      BY <2>1, <2>2 DEF DeskShape
    <2>3. CASE b \in Tabs
      <3>1. DeskView(now)
        BY <2>3 DEF DeskShape
      <3> HIDE DEF now
      <3>2. DeskView(unhidden)
        BY <3>1 DEF DeskView
      <3>3. DeskView(loaded)
        BY <3>1 DEF DeskView, Desk!Loaded
      <3> HIDE DEF unhidden, loaded
      <3> QED BY <1>1, <2>1, <2>3, <3>2, <3>3, OneTabOnly
    <2> QED BY <2>2, <2>3
  <1>7. CASE \/ \E b \in Tabs, t \in Tasks : Desk!Defer(b, t)
             \/ \E m \in v3 : Desk!ServePatch(m) \/ Desk!ServeGet(m)
             \/ \E t \in Tasks : Desk!Relabel(t)
             \/ Desk!NextDay \/ UNCHANGED <<v1, v2, v3, v4, v5, v6>>
    <2>1. v2' = v2
      BY <1>7 DEF Desk!Defer, Desk!ServePatch, Desk!ServeGet, Desk!Relabel, Desk!NextDay
    <2> QED BY <1>1, <2>1
  <1> QED BY <1>2, <1>3, <1>4, <1>5, <1>6, <1>7 DEF Desk!DeskNext

LEMMA DeskShapedAtFirst ==
  ASSUME Desk!DeskInit
  PROVE  DeskShape
  BY DEF Desk!DeskInit, DeskShape, DeskView

LEMMA DeskTyped == DeskShape => Desk!DeskTypeOK
  BY DEF DeskShape, DeskView, Desk!DeskTypeOK

LEMMA TailStaysQueue ==
  ASSUME NEW queue, QueueOK(queue), queue # <<>>
  PROVE  QueueOK(Tail(queue))
  <1>1. /\ queue \in Seq(Registry!Ids) /\ Len(queue) \in Nat /\ Len(queue) > 0
        /\ \A k, l \in 1..Len(queue) : queue[k] = queue[l] => k = l
    BY DEF QueueOK, Registry!IsInjective
  <1>2. /\ Tail(queue) \in Seq(Registry!Ids) /\ Len(Tail(queue)) = Len(queue) - 1
        /\ \A k \in 1..Len(queue) - 1 : Tail(queue)[k] = queue[k + 1]
    BY <1>1, HeadTailProperties
  <1> DEFINE tail == Tail(queue)
  <1> HIDE DEF tail
  <1>3. ASSUME NEW k \in 1..Len(tail), NEW l \in 1..Len(tail), tail[k] = tail[l] PROVE k = l
    <2>1. k + 1 \in 1..Len(queue) /\ l + 1 \in 1..Len(queue)
      BY <1>1, <1>2 DEF tail
    <2>2. queue[k + 1] = queue[l + 1]
      BY <1>2, <1>3 DEF tail
    <2>3. k + 1 = l + 1
      BY <1>1, <2>1, <2>2
    <2> QED BY <2>3
  <1>4. tail \in Seq(Registry!Ids)
    BY <1>2 DEF tail
  <1>5. DOMAIN tail = 1..Len(tail)
    BY <1>4
  <1>6. QueueOK(tail)
    BY <1>3, <1>4, <1>5 DEF QueueOK, Registry!IsInjective
  <1> QED BY <1>6 DEF tail

LEMMA SweepStaysQueue ==
  ASSUME NEW queue, QueueOK(queue), NEW n \in Nat, NEW S, S \subseteq Registry!Ids,
         \A id \in S : id \notin Registry!Range(queue), NEW order \in Registry!Bijection(1..n, S)
  PROVE  QueueOK(queue \o order)
  <1>1. /\ order \in [1..n -> S] /\ \A k, l \in 1..n : order[k] = order[l] => k = l
    BY DEF Registry!Bijection, Registry!Injection, Registry!IsInjective
  <1>2. order \in Seq(Registry!Ids) /\ Len(order) = n
    BY <1>1
  <1>3. /\ queue \in Seq(Registry!Ids) /\ DOMAIN queue = 1..Len(queue) /\ Len(queue) \in Nat
        /\ \A k, l \in 1..Len(queue) : queue[k] = queue[l] => k = l
    BY DEF QueueOK, Registry!IsInjective
  <1> DEFINE longer == queue \o order
  <1>4. /\ longer \in Seq(Registry!Ids) /\ Len(longer) = Len(queue) + n
        /\ \A k \in 1..Len(longer) :
             longer[k] = IF k <= Len(queue) THEN queue[k] ELSE order[k - Len(queue)]
    <2>1. queue \in Seq(Registry!Ids) /\ order \in Seq(Registry!Ids)
      BY <1>2, <1>3
    <2>2. /\ longer \in Seq(Registry!Ids) /\ Len(longer) = Len(queue) + Len(order)
          /\ \A k \in 1..Len(queue) + Len(order) :
               longer[k] = IF k <= Len(queue) THEN queue[k] ELSE order[k - Len(queue)]
      BY <2>1, ConcatProperties
    <2> HIDE DEF longer
    <2> QED BY <1>2, <2>2
  <1> HIDE DEF longer
  <1>5. \A k \in 1..Len(queue), l \in 1..n : queue[k] # order[l]
    BY <1>1, <1>3 DEF Registry!Range
  <1>6. ASSUME NEW k \in 1..Len(longer), NEW l \in 1..Len(longer), longer[k] = longer[l] PROVE k = l
    <2>1. CASE k <= Len(queue) /\ l <= Len(queue)
      BY <1>3, <1>4, <1>6, <2>1
    <2>2. CASE k <= Len(queue) /\ ~(l <= Len(queue))
      <3>1. l - Len(queue) \in 1..n /\ k \in 1..Len(queue)
        BY <1>3, <1>4, <2>2
      <3> QED BY <1>4, <1>5, <1>6, <2>2, <3>1
    <2>3. CASE ~(k <= Len(queue)) /\ l <= Len(queue)
      <3>1. k - Len(queue) \in 1..n /\ l \in 1..Len(queue)
        BY <1>3, <1>4, <2>3
      <3> QED BY <1>4, <1>5, <1>6, <2>3, <3>1
    <2>4. CASE ~(k <= Len(queue)) /\ ~(l <= Len(queue))
      <3>1. k - Len(queue) \in 1..n /\ l - Len(queue) \in 1..n
        BY <1>3, <1>4, <2>4
      <3>2. order[k - Len(queue)] = order[l - Len(queue)]
        BY <1>4, <1>6, <2>4
      <3>3. k - Len(queue) = l - Len(queue)
        BY <1>1, <3>1, <3>2
      <3> QED BY <1>3, <3>3
    <2> QED BY <2>1, <2>2, <2>3, <2>4
  <1>7. DOMAIN longer = 1..Len(longer)
    BY <1>4
  <1>8. QueueOK(longer)
    BY <1>4, <1>6, <1>7 DEF QueueOK, Registry!IsInjective
  <1> QED BY <1>8 DEF longer

\* A step changes one source at most.
ShapedSource(source) == source # None => Len(source.runs) <= RunCap /\ source.lastRun <= v1

LEMMA OneShapeOnly ==
  ASSUME RegistryInv, RegistryShape, QueueOK(v3'), v1' = v1,
         NEW id \in Registry!Ids, NEW source, v2' = [v2 EXCEPT ![id] = source], ShapedSource(source)
  PROVE  RegistryShape'
  <1>1. DOMAIN v2 = Registry!Ids
    BY DEF RegistryInv
  <1>2. \A i \in Registry!Here' : i \in Registry!Here \cup {id}
    BY <1>1 DEF Registry!Here
  <1>3. IsFiniteSet(Registry!Here')
    <2>1. IsFiniteSet(Registry!Here)
      BY DEF RegistryShape
    <2>2. IsFiniteSet(Registry!Here \cup {id})
      BY <2>1, FS_AddElement
    <2> QED BY <1>2, <2>2, FS_Subset
  <1>4. ASSUME NEW i \in Registry!Here' PROVE Len(v2'[i].runs) <= RunCap /\ v2'[i].lastRun <= v1'
    <2>1. CASE i = id
      BY <1>1, <1>4, <2>1 DEF ShapedSource, Registry!Here
    <2>2. CASE i # id
      <3>1. v2'[i] = v2[i] /\ i \in Registry!Here
        BY <1>1, <1>4, <2>2 DEF Registry!Here
      <3> QED BY <3>1 DEF RegistryShape
    <2> QED BY <2>1, <2>2
  <1> QED BY <1>3, <1>4 DEF RegistryShape

\* The records of a source that is there, as a sequence.
LEMMA HereIs ==
  ASSUME RegistryInv, RegistryShape, NEW id \in Registry!Here
  PROVE  /\ id \in Registry!Ids /\ v2[id] # None /\ v2[id] \in RegistrySource
         /\ v2[id].runs \in Seq(RegistryRecord) /\ v2[id].lastRun \in Nat
         /\ Len(v2[id].runs) <= RunCap /\ v2[id].lastRun <= v1
  BY DEF RegistryInv, RegistryShape, Registry!Here, SourceOK, RegistrySource

LEMMA ShapesOfEdits ==
  ASSUME RegistryInv, RegistryShape,
         \/ \E name \in SourceNames, cadence \in Registry!Cadences : Registry!AddSource(name, cadence)
         \/ \E id \in Registry!Ids :
              Registry!DeleteSource(id) \/ \E fields \in Registry!Accepted : Registry!PatchSource(id, fields)
  PROVE  RegistryShape'
  <1>1. v1 \in Nat /\ QueueOK(v3) /\ DOMAIN v2 = Registry!Ids /\ RunCap \in Nat
    BY RegistryAssumption DEF RegistryInv, RegistryShape
  <1>2. CASE \E name \in SourceNames, cadence \in Registry!Cadences : Registry!AddSource(name, cadence)
    <2>1. PICK cadence \in Registry!Cadences, id \in Registry!Ids :
            /\ v2' = [v2 EXCEPT ![id] = Registry!NewSource(v5, cadence)] /\ v1' = v1 /\ v3' = v3
      BY <1>2 DEF Registry!AddSource
    <2>2. ShapedSource(Registry!NewSource(v5, cadence))
      BY <1>1 DEF ShapedSource, Registry!NewSource
    <2> QED BY <1>1, <2>1, <2>2, OneShapeOnly
  <1>3. CASE \E id \in Registry!Ids : Registry!DeleteSource(id)
    <2>1. PICK id \in Registry!Ids : v2' = [v2 EXCEPT ![id] = None] /\ v1' = v1 /\ v3' = v3
      BY <1>3 DEF Registry!DeleteSource
    <2>2. ShapedSource(None)
      BY DEF ShapedSource
    <2> QED BY <1>1, <2>1, <2>2, OneShapeOnly
  <1>4. CASE \E id \in Registry!Ids, fields \in Registry!Accepted : Registry!PatchSource(id, fields)
    <2>1. PICK id \in Registry!Ids, fields \in Registry!Accepted : Registry!PatchSource(id, fields)
      BY <1>4
    <2> DEFINE now == v2[id]
               source == [now EXCEPT !.active = fields.active, !.cadence = fields.cadence]
    <2>2. id \in Registry!Here /\ v2' = [v2 EXCEPT ![id] = source] /\ v1' = v1 /\ v3' = v3
      BY <1>1, <2>1 DEF Registry!PatchSource
    <2>3. now \in RegistrySource /\ Len(now.runs) <= RunCap /\ now.lastRun <= v1
      BY <2>2, HereIs
    <2> HIDE DEF now
    <2>4. ShapedSource(source)
      BY <2>3 DEF ShapedSource, RegistrySource
    <2> HIDE DEF source
    <2> QED BY <1>1, <2>2, <2>4, OneShapeOnly
  <1> QED BY <1>2, <1>3, <1>4

LEMMA ShapesOfSweep ==
  ASSUME RegistryInv, RegistryShape, Registry!RunAllDue \/ Registry!Tick
  PROVE  RegistryShape'
  <1>1. v1 \in Nat /\ QueueOK(v3) /\ DOMAIN v2 = Registry!Ids /\ IsFiniteSet(Registry!Here)
    BY DEF RegistryInv, RegistryShape
  <1>2. CASE Registry!RunAllDue
    <2> DEFINE eligible == {id \in Registry!Here : Registry!Eligible(id)}
    <2>1. PICK order \in Registry!Bijection(1..Registry!Cardinality(eligible), eligible) :
            v3' = v3 \o order /\ UNCHANGED <<v1, v2>>
      BY <1>2 DEF Registry!RunAllDue
    <2>2. eligible \subseteq Registry!Ids /\ \A id \in eligible : id \notin Registry!Range(v3)
      BY DEF Registry!Eligible, Registry!Here
    <2>3. IsFiniteSet(eligible)
      BY <1>1, FS_Subset
    <2> HIDE DEF eligible
    <2>4. Cardinality(eligible) \in Nat
      BY <2>3, FS_CardinalityType
    <2>5. Registry!Cardinality(eligible) \in Nat
      BY <2>4 DEF Cardinality, Registry!Cardinality
    <2>6. QueueOK(v3')
      BY <1>1, <2>1, <2>2, <2>5, SweepStaysQueue
    <2> QED BY <2>1, <2>6 DEF RegistryShape, Registry!Here
  <1>3. CASE Registry!Tick
    <2>1. UNCHANGED <<v2, v3>> /\ v1' = v1 + 1
      BY <1>3 DEF Registry!Tick
    <2>2. \A id \in Registry!Here : v2[id].lastRun \in Nat /\ v2[id].lastRun <= v1
      BY HereIs
    <2>3. \A id \in Registry!Here : v2[id].lastRun <= v1'
      BY <1>1, <2>1, <2>2
    <2> QED BY <2>1, <2>3 DEF RegistryShape, Registry!Here
  <1> QED BY <1>2, <1>3

LEMMA ShapesOfRuns ==
  ASSUME RegistryInv, RegistryShape, (\E id \in Registry!Ids : Registry!RunNow(id)) \/ Registry!Drain
  PROVE  RegistryShape'
  <1>1. v1 \in Nat /\ QueueOK(v3) /\ DOMAIN v2 = Registry!Ids
    BY DEF RegistryInv, RegistryShape
  <1>2. ASSUME NEW id \in Registry!Here, Registry!Launched(id), v1' = v1, QueueOK(v3')
        PROVE  RegistryShape'
    <2> DEFINE now == v2[id]
               record == Registry!Record(Len(v4) + 1)
               runs == Registry!CapRuns(Append(now.runs, record))
               source == [now EXCEPT !.runs = runs, !.lastRun = v1]
    <2>1. now \in RegistrySource /\ now.runs \in Seq(RegistryRecord) /\ id \in Registry!Ids
      BY HereIs
    <2>2. v2' = [v2 EXCEPT ![id] = source]
      BY <1>1, <1>2, <2>1 DEF Registry!Launched
    <2>3. Append(now.runs, record) \in Seq(RegistryRecord \cup {record})
      BY <2>1
    <2>4. Len(runs) <= RunCap
      BY <2>3, CapRunsKeeps
    <2> HIDE DEF runs, now
    <2>5. ShapedSource(source)
      BY <1>1, <2>1, <2>4 DEF ShapedSource, RegistrySource
    <2> HIDE DEF source
    <2> QED BY <1>2, <2>1, <2>2, <2>5, OneShapeOnly
  <1>3. CASE \E id \in Registry!Ids : Registry!RunNow(id)
    BY SMTT(30), <1>1, <1>2, <1>3 DEF Registry!RunNow
  <1>4. CASE Registry!Drain
    <2>1. v3 # <<>> /\ v3' = Tail(v3) /\ v1' = v1
          /\ ((Head(v3) \in Registry!Here /\ Registry!Launched(Head(v3))) \/ v2' = v2)
      BY <1>4 DEF Registry!Drain
    <2>2. QueueOK(v3')
      BY <1>1, <2>1, TailStaysQueue
    <2>3. CASE Head(v3) \in Registry!Here /\ Registry!Launched(Head(v3))
      BY <1>2, <2>1, <2>2, <2>3
    <2>4. CASE v2' = v2
      BY <2>1, <2>2, <2>4 DEF RegistryShape, Registry!Here
    <2> QED BY <2>1, <2>3, <2>4
  <1> QED BY <1>3, <1>4

LEMMA ShapesOfRecords ==
  ASSUME RegistryInv, RegistryShape, NEW no, Registry!Closes(no) \/ Registry!Report(no)
  PROVE  RegistryShape'
  <1> DEFINE id == v4[no].id
             now == v2[id]
  <1>1. v1 \in Nat /\ QueueOK(v3) /\ DOMAIN v2 = Registry!Ids
    BY SMTT(30) DEF RegistryInv, RegistryShape
  <1>2. v1' = v1 /\ v3' = v3
    BY DEF Registry!Closes, Registry!Report
  <1>3. ASSUME NEW runs, id \in Registry!Here, DOMAIN runs = DOMAIN now.runs,
               v2' = [v2 EXCEPT ![id] = [now EXCEPT !.runs = runs]],
               \E R : runs \in Seq(R)
        PROVE  RegistryShape'
    <2> DEFINE source == [now EXCEPT !.runs = runs]
    <2>1. /\ now \in RegistrySource /\ now.runs \in Seq(RegistryRecord) /\ id \in Registry!Ids
          /\ Len(now.runs) <= RunCap /\ now.lastRun <= v1
      BY <1>3, HereIs
    <2>2. Len(runs) = Len(now.runs)
      BY <1>3, <2>1
    <2>3. v2' = [v2 EXCEPT ![id] = source]
      BY <1>3
    <2> HIDE DEF now, id
    <2>4. ShapedSource(source)
      BY <2>1, <2>2 DEF ShapedSource, RegistrySource
    <2> HIDE DEF source
    <2> QED BY <1>1, <1>2, <2>1, <2>3, <2>4, OneShapeOnly
  <1>4. CASE v2' = v2
    BY <1>2, <1>4 DEF RegistryShape, Registry!Here
  <1>5. CASE Registry!Closes(no)
    <2>1. PICK outcome \in Endings, leads \in 0..1 :
            v2' = IF id \in Registry!Here
                  THEN [v2 EXCEPT ![id] = Registry!Closed(@, no, outcome, leads)] ELSE v2
      BY <1>5 DEF Registry!Closes
    <2> DEFINE closed(run) == [run EXCEPT !.outcome = outcome, !.leads = leads]
               runs == [n \in DOMAIN now.runs |->
                          IF n \in Registry!RecordOf(now, no) THEN closed(now.runs[n]) ELSE now.runs[n]]
    <2>2. CASE id \in Registry!Here
      <3>1. now \in RegistrySource /\ now.runs \in Seq(RegistryRecord) /\ id \in Registry!Ids
        BY <2>2, HereIs
      <3>2. v2' = [v2 EXCEPT ![id] = [now EXCEPT !.runs = runs]]
        BY <1>1, <2>1, <2>2, <3>1 DEF Registry!Closed, RegistrySource
      <3>3. DOMAIN runs = DOMAIN now.runs /\ \E R : runs \in Seq(R)
        <4> DEFINE R == {runs[n] : n \in DOMAIN now.runs}
        <4>1. DOMAIN now.runs = 1..Len(now.runs) /\ Len(now.runs) \in Nat
          BY SMTT(30), <3>1
        <4>2. runs \in [1..Len(now.runs) -> R] /\ DOMAIN runs = DOMAIN now.runs
          BY <4>1
        <4> HIDE DEF R, runs
        <4>3. runs \in Seq(R)
          BY <4>1, <4>2
        <4> QED BY <4>2, <4>3
      <3> HIDE DEF runs, now, id
      <3> QED BY <1>3, <2>2, <3>2, <3>3
    <2>3. CASE id \notin Registry!Here
      BY <1>4, <2>1, <2>3
    <2> QED BY <2>2, <2>3
  <1>6. CASE Registry!Report(no)
    <2> DEFINE at == {n \in DOMAIN now.runs : now.runs[n].no = no}
    <2>1. PICK reviewed \in 0..1 :
            /\ id \in Registry!Here
            /\ v2' = [v2 EXCEPT ![id].runs =
                 [n \in DOMAIN @ |-> IF n \in at THEN [@[n] EXCEPT !.reviewed = reviewed] ELSE @[n]]]
      BY <1>6 DEF Registry!Report
    <2> DEFINE runs == [n \in DOMAIN now.runs |->
                          IF n \in at THEN [now.runs[n] EXCEPT !.reviewed = reviewed] ELSE now.runs[n]]
    <2>2. now \in RegistrySource /\ now.runs \in Seq(RegistryRecord) /\ id \in Registry!Ids
      BY SMTT(30), <2>1, HereIs
    <2>3. v2' = [v2 EXCEPT ![id] = [now EXCEPT !.runs = runs]]
      BY <1>1, <2>1, <2>2
    <2>4. DOMAIN runs = DOMAIN now.runs /\ \E R : runs \in Seq(R)
      <3> DEFINE R == {runs[n] : n \in DOMAIN now.runs}
      <3>1. DOMAIN now.runs = 1..Len(now.runs) /\ Len(now.runs) \in Nat
        BY SMTT(30), <2>2
      <3>2. runs \in [1..Len(now.runs) -> R] /\ DOMAIN runs = DOMAIN now.runs
        BY <3>1
      <3> HIDE DEF R, runs
      <3>3. runs \in Seq(R)
        BY <3>1, <3>2
      <3> QED BY <3>2, <3>3
    <2> HIDE DEF runs, now, id
    <2> QED BY <1>3, <2>1, <2>3, <2>4
  <1> QED BY <1>5, <1>6

LEMMA RegistryShaped == RegistryInv /\ RegistryShape /\ Registry!RegistryNext => RegistryShape'
  <1> SUFFICES ASSUME RegistryInv, RegistryShape, Registry!RegistryNext PROVE RegistryShape'
    OBVIOUS
  <1>1. CASE \E no \in 1..MaxAgents : Registry!Closes(no) \/ Registry!Report(no)
    BY <1>1, ShapesOfRecords
  <1>2. CASE (\E id \in Registry!Ids : Registry!RunNow(id)) \/ Registry!Drain
    BY <1>2, ShapesOfRuns
  <1>3. CASE \/ \E name \in SourceNames, cadence \in Registry!Cadences : Registry!AddSource(name, cadence)
             \/ \E id \in Registry!Ids :
                  Registry!DeleteSource(id) \/ \E fields \in Registry!Accepted : Registry!PatchSource(id, fields)
    BY <1>3, ShapesOfEdits
  <1>4. CASE Registry!RunAllDue \/ Registry!Tick
    BY <1>4, ShapesOfSweep
  <1> QED BY <1>1, <1>2, <1>3, <1>4 DEF Registry!RegistryNext

LEMMA RegistryShapedAtFirst == Registry!RegistryInit => RegistryShape
  <1> SUFFICES ASSUME Registry!RegistryInit PROVE RegistryShape
    OBVIOUS
  <1>1. v3 = <<>> /\ \A id \in Registry!Ids : v2[id] = None
    BY DEF Registry!RegistryInit
  <1>2. Registry!Here = {}
    BY <1>1 DEF Registry!Here
  <1> QED BY <1>1, <1>2, FS_EmptySet DEF RegistryShape, QueueOK, Registry!IsInjective

LEMMA RegistryTyped == RegistryInv /\ RegistryShape => Registry!RegistryTypeOK
  <1> SUFFICES ASSUME RegistryInv, RegistryShape PROVE Registry!RegistryTypeOK
    OBVIOUS
  <1>1. QueueOK(v3)
    BY DEF RegistryShape
  <1>2. Registry!Range(v3) \subseteq Registry!Ids /\ Registry!IsInjective(v3)
    BY <1>1 DEF QueueOK, Registry!Range
  <1>3. ASSUME NEW id \in Registry!Here
        PROVE  /\ v2[id].active \in Registry!Actives /\ v2[id].cadence \in Registry!Cadences
               /\ Len(v2[id].runs) <= RunCap /\ v2[id].lastRun <= v1
    BY HereIs DEF RegistrySource
  <1> QED BY <1>2, <1>3 DEF Registry!RegistryTypeOK

-----------------------------------------------------------------------------
(***************************************************************************)
(* The screens together.                                                   *)
(***************************************************************************)
\* A step of the client is one of the machine that runs, or leaves it as it is.
LEMMA MachineStep ==
  ASSUME [ClientNext]_clientVars
  PROVE  /\ machine' = machine
         /\ machine = "desk" => Desk!DeskNext \/ UNCHANGED <<v1, v2, v3, v4, v5, v6>>
         /\ machine = "capture" =>
              Capture!CaptureNext \/ UNCHANGED <<v1, v2, v3, v4, v5, v6, v7>>
         /\ machine = "triage" => Triage!TriageNext \/ UNCHANGED <<v1, v2, v3, v4, v5, v6, v7>>
         /\ machine = "chat" => Chat!ChatNext \/ UNCHANGED <<v1, v2, v3, v4, v5, v6, v7, v8>>
         /\ machine = "beacon" => Beacon!BeaconNext \/ UNCHANGED <<v1, v2, v3, v4, v5, v6>>
         /\ machine = "workbook" => Workbook!FindsNext \/ UNCHANGED <<v1, v2, v3, v4, v5, v6, v7>>
         /\ machine = "dock" => Dock!DockNext \/ UNCHANGED <<v1, v2, v3, v4, v5, v6>>
         /\ machine = "board" => Board!BoardNext \/ UNCHANGED <<v1, v2, v3, v4, v5, v6, v7, v8>>
         /\ machine = "registry" => Registry!RegistryNext \/ UNCHANGED <<v1, v2, v3, v4, v5>>
  BY DEF ClientNext, clientVars

LEMMA KeptAtFirst ==
  ClientInit => /\ DeskKept /\ CaptureKept /\ TriageKept /\ ChatKept /\ BeaconKept
                /\ WorkbookKept /\ DockKept /\ BoardKept /\ RegistryKept
  <1> SUFFICES ASSUME ClientInit
               PROVE  /\ DeskKept /\ CaptureKept /\ TriageKept /\ ChatKept /\ BeaconKept
                      /\ WorkbookKept /\ DockKept /\ BoardKept /\ RegistryKept
    OBVIOUS
  <1>1. DeskKept /\ CaptureKept /\ TriageKept /\ ChatKept /\ BeaconKept
    BY DeskStart, CaptureStart, TriageStart, ChatStart, BeaconStart
       DEF ClientInit, DeskKept, CaptureKept, TriageKept, ChatKept, BeaconKept
  <1>2. WorkbookKept /\ DockKept /\ BoardKept /\ RegistryKept
    BY BookStart, DockStart, BoardStart, RegistryStart
       DEF ClientInit, WorkbookKept, DockKept, BoardKept, RegistryKept
  <1> QED BY <1>1, <1>2

LEMMA DeskKeeps ==
  ASSUME UnloadSurvived = FALSE, DeskKept, [ClientNext]_clientVars
  PROVE  DeskKept'
  BY MachineStep, DeskStep, DeskStays DEF DeskKept

LEMMA CaptureKeeps == CaptureKept /\ [ClientNext]_clientVars => CaptureKept'
  BY MachineStep, CaptureStep, CaptureStays DEF CaptureKept

LEMMA TriageKeeps == TriageKept /\ [ClientNext]_clientVars => TriageKept'
  BY MachineStep, TriageStep, TriageStays DEF TriageKept

LEMMA ChatKeeps == ChatKept /\ [ClientNext]_clientVars => ChatKept'
  BY MachineStep, ChatStep, ChatStays DEF ChatKept

LEMMA BeaconKeeps == BeaconKept /\ [ClientNext]_clientVars => BeaconKept'
  BY MachineStep, BeaconStep, BeaconStays DEF BeaconKept

LEMMA WorkbookKeeps == WorkbookKept /\ [ClientNext]_clientVars => WorkbookKept'
  BY MachineStep, BookStep, BookStays DEF WorkbookKept

LEMMA DockKeeps == DockKept /\ [ClientNext]_clientVars => DockKept'
  BY MachineStep, DockStep, DockStays DEF DockKept

LEMMA BoardKeeps == BoardKept /\ [ClientNext]_clientVars => BoardKept'
  BY MachineStep, BoardStep, BoardStays DEF BoardKept

LEMMA RegistryKeeps == RegistryKept /\ [ClientNext]_clientVars => RegistryKept'
  BY MachineStep, RegistryStep, RegistryStays DEF RegistryKept

LEMMA ShapesAtFirst == ClientInit => DeskShapeKept /\ RegistryShapeKept
  BY DeskShapedAtFirst, RegistryStart, RegistryShapedAtFirst
     DEF ClientInit, DeskShapeKept, RegistryShapeKept

LEMMA DeskShapeKeeps == DeskShapeKept /\ [ClientNext]_clientVars => DeskShapeKept'
  BY MachineStep, DeskShaped DEF DeskShapeKept

LEMMA RegistryShapeKeeps == RegistryShapeKept /\ [ClientNext]_clientVars => RegistryShapeKept'
  <1> SUFFICES ASSUME RegistryShapeKept, [ClientNext]_clientVars, machine' = "registry"
               PROVE  RegistryInv' /\ RegistryShape'
    BY DEF RegistryShapeKept
  <1>1. machine = "registry" /\ (Registry!RegistryNext \/ UNCHANGED <<v1, v2, v3, v4, v5>>)
    BY MachineStep
  <1>2. RegistryInv /\ RegistryShape
    BY <1>1 DEF RegistryShapeKept
  <1>3. CASE Registry!RegistryNext
    BY <1>2, <1>3, RegistryStep, RegistryShaped
  <1>4. CASE UNCHANGED <<v1, v2, v3, v4, v5>>
    <2>1. RegistryInv'
      BY <1>2, <1>4, RegistryStays
    <2>2. RegistryShape'
      BY <1>2, <1>4 DEF RegistryShape, Registry!Here
    <2> QED BY <2>1, <2>2
  <1> QED BY <1>1, <1>3, <1>4

\* What the nine screens keep, the calls they have under way and what the server keeps for
\* them have the types of useTasks.ts, ChatCapture.tsx, TriageInbox.tsx, JobChatDrawer.tsx,
\* RunDock.tsx, KanbanBoard.tsx, telemetry.ts and of the server behind them.
THEOREM ClientTypeOKAlways == ClientSpec => []ClientTypeOK
  <1> DEFINE Kept == /\ DeskShapeKept /\ CaptureKept /\ TriageKept /\ ChatKept /\ BeaconKept
                     /\ WorkbookKept /\ DockKept /\ BoardKept /\ RegistryShapeKept
  <1>1. Kept => ClientTypeOK
    BY DeskTyped, CaptureHolds, TriageHolds, ChatHolds, BeaconHolds, BookHolds, DockHolds,
       BoardHolds, RegistryTyped
       DEF DeskShapeKept, CaptureKept, TriageKept, ChatKept, BeaconKept, WorkbookKept, DockKept,
           BoardKept, RegistryShapeKept, ClientTypeOK
  <1>2. ClientInit => Kept
    BY KeptAtFirst, ShapesAtFirst
  <1>3. Kept /\ [ClientNext]_clientVars => Kept'
    BY DeskShapeKeeps, CaptureKeeps, TriageKeeps, ChatKeeps, BeaconKeeps, WorkbookKeeps,
       DockKeeps, BoardKeeps, RegistryShapeKeeps
  <1> HIDE DEF Kept
  <1> QED BY <1>1, <1>2, <1>3, PTL DEF ClientSpec

\* A report is filed once, through failures, retries and a panel that is closed and opened
\* again meanwhile, and a request names the ticket it came from (ChatCapture.tsx).
THEOREM ReportsAreTrueAlways == ClientSpec => []ReportsAreTrue
  <1>1. CaptureKept => ReportsAreTrue
    BY CaptureHolds DEF CaptureKept, ReportsAreTrue
  <1> QED BY <1>1, KeptAtFirst, CaptureKeeps, PTL DEF ClientSpec

\* What the owner does once happens once, on every screen where a retry, a reload, a second
\* click or an answer that is late could do it again: a decision is resolved (the drawer of
\* decisions), a find pursued (TriageInbox.tsx), a question stored with its answer
\* (JobChatDrawer.tsx), an event of the usage recorded at most once (telemetry.ts) - if no
\* page stays usable after it was told that it unloads, without which a decision may be
\* resolved twice.
THEOREM DoneOnceAlways ==
  ASSUME UnloadSurvived = FALSE
  PROVE  ClientSpec => []DoneOnce
  <1> DEFINE Kept == DeskKept /\ TriageKept /\ ChatKept /\ BeaconKept
  <1>1. Kept => DoneOnce
    BY DeskHolds, TriageHolds, ChatHolds, BeaconHolds
       DEF DeskKept, TriageKept, ChatKept, BeaconKept, DoneOnce
  <1>2. ClientInit => Kept
    BY KeptAtFirst
  <1>3. Kept /\ [ClientNext]_clientVars => Kept'
    BY DeskKeeps, TriageKeeps, ChatKeeps, BeaconKeeps
  <1> HIDE DEF Kept
  <1> QED BY <1>1, <1>2, <1>3, PTL DEF ClientSpec

\* What the owner gives is stored, or he is told that it is not: an image is uploaded with
\* its report or its loss is shown (ChatCapture.tsx), and the text typed in a field of a job
\* is saved when he leaves the field or closes the drawer (JobDetail.tsx).
THEOREM NothingGivenIsLostAlways == ClientSpec => []NothingGivenIsLost
  <1> DEFINE Kept == CaptureKept /\ BoardKept
  <1>1. Kept => NothingGivenIsLost
    BY CaptureHolds, BoardHolds DEF CaptureKept, BoardKept, NothingGivenIsLost
  <1>2. ClientInit => Kept
    BY KeptAtFirst
  <1>3. Kept /\ [ClientNext]_clientVars => Kept'
    BY CaptureKeeps, BoardKeeps
  <1> HIDE DEF Kept
  <1> QED BY <1>1, <1>2, <1>3, PTL DEF ClientSpec

\* Once nothing is under way a screen shows what is stored: the board its columns, the
\* inbox its verdicts, a panel how its run ended, the summary what was recorded, the cache
\* what the workbook holds, and the pill of a source what became of its scrapes.
THEOREM ScreenTellsStoredAlways == ClientSpec => []ScreenTellsStored
  <1> DEFINE Kept == BoardKept /\ TriageKept /\ DockKept /\ BeaconKept /\ WorkbookKept /\ RegistryKept
  <1>1. Kept => ScreenTellsStored
    BY BoardHolds, TriageHolds, DockHolds, BeaconHolds, BookHolds, RegistryHolds
       DEF BoardKept, TriageKept, DockKept, BeaconKept, WorkbookKept, RegistryKept, ScreenTellsStored
  <1>2. ClientInit => Kept
    BY KeptAtFirst
  <1>3. Kept /\ [ClientNext]_clientVars => Kept'
    BY BoardKeeps, TriageKeeps, DockKeeps, BeaconKeeps, WorkbookKeeps, RegistryKeeps
  <1> HIDE DEF Kept
  <1> QED BY <1>1, <1>2, <1>3, PTL DEF ClientSpec
=============================================================================

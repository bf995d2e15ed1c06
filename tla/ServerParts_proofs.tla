--------------------------- MODULE ServerParts_proofs ---------------------------
(***************************************************************************)
(* For every value of the constants: the invariant of each part that       *)
(* ServerParts puts side by side holds at first (...AtFirst) and outlives  *)
(* every step (...Stays), and what a run checks of the part follows from   *)
(* it.  MCServer_proofs draws the conclusions for the server's behaviours. *)
(* A section first says what its part's operators return, then what each   *)
(* handler does to the invariant, then puts the handlers together.         *)
(***************************************************************************)
EXTENDS ServerParts, FiniteSetTheorems, SequenceTheorems, TLAPS

-----------------------------------------------------------------------------
(***************************************************************************)
(* Numbers and sequences, for the sections that follow.                    *)
(***************************************************************************)
\* The numbers of a set, counted from the least: each has a place, and each place a number.
LEMMA PlacesOf ==
  ASSUME NEW L \in Nat, NEW S \in SUBSET (1 .. L)
  PROVE  LET Place(n) == Cardinality({m \in S : m <= n})
         IN  /\ Cardinality(S) \in Nat
             /\ \A n \in S : Place(n) \in 1 .. Cardinality(S)
             /\ \A n, m \in S : Place(n) = Place(m) => n = m
             /\ \A n, m \in S : n < m => Place(n) < Place(m)
             /\ \A k \in 1 .. Cardinality(S) : \E n \in S : Place(n) = k
  <1> DEFINE Below(n) == {m \in S : m <= n}
             Place(n) == Cardinality(Below(n))
             N == Cardinality(S)
             f == [n \in S |-> Place(n)]
  <1>1. IsFiniteSet(S) /\ N \in Nat
    <2>1. IsFiniteSet(1 .. L)
      BY FS_Interval
    <2> QED BY <2>1, FS_Subset, FS_CardinalityType
  <1>2. ASSUME NEW n \in S
        PROVE  IsFiniteSet(Below(n)) /\ Place(n) \in 1 .. N
    <2>1. IsFiniteSet(Below(n)) /\ Place(n) <= N
      BY <1>1, FS_Subset
    <2>2. n \in Below(n)
      <3>1. n <= n
        OBVIOUS
      <3> QED BY <3>1
    <2>3. Place(n) \in Nat /\ Place(n) # 0
      BY <2>1, <2>2, FS_CardinalityType, FS_EmptySet
    <2> QED BY <1>1, <2>1, <2>3
  <1>3. ASSUME NEW n \in S, NEW m \in S, n < m
        PROVE  Place(n) < Place(m)
    <2>1. ASSUME NEW x \in S, x <= n PROVE x <= m
      BY <1>3, <2>1
    <2>2. m \in Below(m) /\ m \notin Below(n)
      BY <1>3
    <2>3. Below(n) \in SUBSET Below(m)
      BY <2>1
    <2>4. Place(n) <= Place(m) /\ Place(n) # Place(m)
      BY <1>2, <2>2, <2>3, FS_Subset
    <2>5. Place(n) \in Nat /\ Place(m) \in Nat
      BY <1>2
    <2> HIDE DEF Place
    <2> QED BY <2>4, <2>5
  <1>4. \A n, m \in S : Place(n) = Place(m) => n = m
    <2> SUFFICES ASSUME NEW n \in S, NEW m \in S, n # m PROVE Place(n) # Place(m)
      OBVIOUS
    <2>1. n < m \/ m < n
      OBVIOUS
    <2>2. Place(n) \in Nat /\ Place(m) \in Nat
      BY <1>2
    <2>3. Place(n) < Place(m) \/ Place(m) < Place(n)
      BY <1>3, <2>1
    <2> HIDE DEF Place
    <2> QED BY <2>2, <2>3
  <1>5. f \in Injection(S, 1 .. N)
    BY <1>2, <1>4 DEF Injection, IsInjective
  <1>6. IsFiniteSet(1 .. N) /\ Cardinality(1 .. N) = N
    BY <1>1, FS_Interval
  <1>7. f \in Surjection(S, 1 .. N)
    BY <1>5, <1>6, FS_Injection
  <1>8. \A k \in 1 .. N : \E n \in S : f[n] = k
    BY <1>7 DEF Surjection
  <1> QED BY <1>1, <1>2, <1>3, <1>4, <1>8

\* Some numbers, none above a bound, have a greatest and a least.
LEMMA LastAndFirst ==
  ASSUME NEW L \in Nat, NEW S \in SUBSET (1 .. L), S # {}
  PROVE  /\ \E n \in S : \A k \in S : k <= n
         /\ \E n \in S : \A k \in S : n <= k
  <1> DEFINE Place(n) == Cardinality({m \in S : m <= n})
             N == Cardinality(S)
  <1>1. /\ N \in Nat
        /\ \A n \in S : Place(n) \in 1 .. N
        /\ \A n, m \in S : n < m => Place(n) < Place(m)
        /\ \A k \in 1 .. N : \E n \in S : Place(n) = k
    BY PlacesOf
  <1> HIDE DEF Place, N
  <1>2. N >= 1
    <2>1. PICK n \in S : Place(n) \in 1 .. N
      BY <1>1
    <2> QED BY <1>1, <2>1
  <1>3. PICK last \in S : Place(last) = N
    BY <1>1, <1>2
  <1>4. PICK first \in S : Place(first) = 1
    BY <1>1, <1>2
  <1>5. ASSUME NEW k \in S PROVE k <= last /\ first <= k
    <2>1. Place(k) <= Place(last) /\ Place(first) <= Place(k) /\ Place(k) \in Nat
      BY <1>1, <1>3, <1>4
    <2>2. ~(last < k) /\ ~(k < first)
      BY <1>1, <1>3, <1>4, <2>1
    <2> QED BY <2>2
  <1> QED BY <1>5

\* What a part of a sequence holds, and where it stands.
LEMMA PartOf ==
  ASSUME NEW S, NEW s \in Seq(S), NEW low \in Nat \ {0}, NEW high \in Int, high <= Len(s)
  PROVE  /\ SubSeq(s, low, high) \in Seq(S)
         /\ Len(SubSeq(s, low, high)) = IF low <= high THEN high - low + 1 ELSE 0
         /\ \A i \in 1 .. high - low + 1 : low + i - 1 \in DOMAIN s /\ SubSeq(s, low, high)[i] = s[low + i - 1]
  <1>1. Len(s) \in Nat /\ DOMAIN s = 1 .. Len(s) /\ low \in Int
    OBVIOUS
  <1>2. \A i \in low .. high : s[i] \in S
    BY <1>1
  <1>3. /\ SubSeq(s, low, high) \in Seq(S)
        /\ Len(SubSeq(s, low, high)) = IF low <= high THEN high - low + 1 ELSE 0
        /\ \A i \in 1 .. high - low + 1 : SubSeq(s, low, high)[i] = s[low + i - 1]
    BY <1>1, <1>2, SubSeqProperties
  <1> QED BY <1>1, <1>3

-----------------------------------------------------------------------------
(***************************************************************************)
(* TrackPacks: v3 is the signal, v5 the results, v6 the agents and v8 what *)
(* is true of the lookups.                                                 *)
(***************************************************************************)
\* A lookup counts once more, and what was within the counts still is.
LEMMA MoreCounts ==
  ASSUME NEW c \in Packs!Counts, NEW hit \in BOOLEAN
  PROVE  Packs!More(c, hit) \in Packs!Counts /\ Packs!Within(c, Packs!More(c, hit))
  BY DEF Packs!Counts, Packs!More, Packs!Within

\* A lookup counted in the signal, or lost to it, is one that was made.
LEMMA NoteKeepsReuse ==
  ASSUME Packs!ReuseInv, Absent \notin Packs!Counts, NEW r \in PackRows, NEW hit \in BOOLEAN,
         Packs!NoteTrackPackSignal(r, hit), UNCHANGED v5,
         \A a \in v6' : "row" \in DOMAIN a /\ a.row \in PackRows
  PROVE  Packs!ReuseInv'
  <1> DEFINE room == r \in Packs!Signalled \/ Packs!Cardinality(Packs!Signalled) < MaxSignals
             now == Packs!CountsNow(r)
             told == Packs!More(v8[r].counts, hit)
             entry == [v8[r] EXCEPT !.counts = told, !.lost = @ \/ ~room]
  <1>1. /\ Packs!NoCounts \in Packs!Counts /\ now \in Packs!Counts /\ v8[r].counts \in Packs!Counts
        /\ v8[r] \in [counts : Packs!Counts, lost : BOOLEAN, told : Packs!Counts \cup {Absent}]
    BY DEF Packs!ReuseInv, Packs!NoCounts, Packs!Counts, Packs!CountsNow
  <1>2. /\ told \in Packs!Counts /\ Packs!Within(v8[r].counts, told)
        /\ Packs!More(now, hit) \in Packs!Counts
        /\ Packs!Within(now, v8[r].counts) => Packs!Within(Packs!More(now, hit), told)
    BY <1>1 DEF Packs!Counts, Packs!More, Packs!Within
  <1>3. /\ v8' = [v8 EXCEPT ![r] = entry]
        /\ v3' = IF room THEN [v3 EXCEPT ![r] = Packs!More(now, hit)] ELSE v3
    BY DEF Packs!NoteTrackPackSignal, Packs!CountsNow, Packs!ReuseInv
  <1>4. /\ entry \in [counts : Packs!Counts, lost : BOOLEAN, told : Packs!Counts \cup {Absent}]
        /\ entry.counts = told /\ entry.told = v8[r].told /\ entry.lost = (v8[r].lost \/ ~room)
    BY <1>1, <1>2
  <1> HIDE DEF room, now, told, entry
  <1>5. /\ v3' \in [PackRows -> Packs!Counts \cup {Absent}]
        /\ v5' \in [PackRows -> Packs!Counts \cup {Absent}]
        /\ v8' \in [PackRows -> [counts : Packs!Counts, lost : BOOLEAN, told : Packs!Counts \cup {Absent}]]
    BY <1>2, <1>3, <1>4 DEF Packs!ReuseInv
  <1>6. ASSUME NEW q \in PackRows, q # r
        PROVE  v8'[q] = v8[q] /\ Packs!CountsNow(q)' = Packs!CountsNow(q) /\ v5'[q] = v5[q]
    BY <1>3, <1>6 DEF Packs!ReuseInv, Packs!CountsNow
  <1>7. /\ v8'[r] = entry /\ v5'[r] = v5[r]
        /\ Packs!CountsNow(r)' = IF room THEN Packs!More(now, hit) ELSE now
    BY <1>1, <1>2, <1>3 DEF Packs!ReuseInv, Packs!CountsNow, now
  <1>8. ASSUME NEW q \in PackRows
        PROVE  /\ Packs!Within(Packs!CountsNow(q)', v8'[q].counts)
               /\ v5'[q] # Absent => Packs!Within(v5'[q], v8'[q].counts)
               /\ v5'[q] = Absent => /\ v8'[q].told = Absent
                                     /\ v8'[q].lost \/ Packs!CountsNow(q)' = v8'[q].counts
               /\ v8'[q].told # Absent => v5'[q] = v8'[q].told
    <2>1. CASE q # r
      BY <1>6, <2>1 DEF Packs!ReuseInv
    <2>2. CASE q = r
      <3>1. Packs!Within(now, v8[r].counts)
        BY DEF now, Packs!ReuseInv
      <3>2. Packs!Within(Packs!CountsNow(r)', told)
        BY <1>1, <1>2, <1>7, <3>1 DEF Packs!Within, Packs!Counts
      <3>3. v5[r] # Absent => Packs!Within(v5[r], told)
        BY <1>1, <1>2 DEF Packs!Within, Packs!Counts, Packs!ReuseInv
      <3>4. v5[r] = Absent => v8[r].told = Absent /\ (v8[r].lost \/ now = v8[r].counts)
        BY DEF Packs!ReuseInv, now
      <3>5. v8[r].told # Absent => v5[r] = v8[r].told
        BY DEF Packs!ReuseInv
      <3>6. now = v8[r].counts => Packs!More(now, hit) = told
        BY SMTT(30) DEF told
      <3> QED BY <1>4, <1>7, <2>2, <3>2, <3>3, <3>4, <3>5, <3>6
    <2> QED BY <2>1, <2>2
  <1> QED BY <1>5, <1>8 DEF Packs!ReuseInv, Packs!CountsNow

\* The result takes the signal; from a refused result on, lookups are missing.
LEMMA ResultKeepsReuse ==
  ASSUME Packs!ReuseInv, Absent \notin Packs!Counts, Packs!PostResult
  PROVE  Packs!ReuseInv'
  <1> PICK a \in v6 :
        LET r == a.row
            accepted == a.number = v4[r] /\ v5[r] = Absent
        IN  /\ v5' = IF accepted THEN [v5 EXCEPT ![r] = IF v3[r] = Absent THEN Packs!NoCounts ELSE v3[r]]
                     ELSE v5
            /\ v3' = [v3 EXCEPT ![r] = Absent]
            /\ v8' = [v8 EXCEPT ![r].told = IF accepted /\ ~v8[r].lost THEN v8[r].counts ELSE @,
                                ![r].lost = @ \/ ~accepted]
            /\ v6' = v6 \ {a}
    BY DEF Packs!PostResult
  <1> DEFINE r == a.row
             accepted == a.number = v4[r] /\ v5[r] = Absent
             told == IF accepted /\ ~v8[r].lost THEN v8[r].counts ELSE v8[r].told
             entry == [v8[r] EXCEPT !.told = told, !.lost = @ \/ ~accepted]
             result == IF accepted THEN Packs!CountsNow(r) ELSE v5[r]
  <1>1. r \in PackRows /\ accepted \in BOOLEAN
    BY DEF Packs!ReuseInv
  <1>2. /\ Packs!NoCounts \in Packs!Counts /\ Packs!CountsNow(r) \in Packs!Counts
        /\ v8[r].counts \in Packs!Counts /\ v8[r].told \in Packs!Counts \cup {Absent}
        /\ v8[r] \in [counts : Packs!Counts, lost : BOOLEAN, told : Packs!Counts \cup {Absent}]
        /\ v5[r] \in Packs!Counts \cup {Absent}
        /\ \A c \in Packs!Counts : Packs!Within(Packs!NoCounts, c)
    BY <1>1 DEF Packs!ReuseInv, Packs!NoCounts, Packs!Counts, Packs!CountsNow, Packs!Within
  <1>3. told \in Packs!Counts \cup {Absent} /\ result \in Packs!Counts \cup {Absent}
    BY <1>2
  <1>4. /\ v3' = [v3 EXCEPT ![r] = Absent] /\ v5' = [v5 EXCEPT ![r] = result]
        /\ v8' = [v8 EXCEPT ![r] = entry]
    BY <1>1 DEF Packs!CountsNow, Packs!ReuseInv
  <1>5. /\ entry \in [counts : Packs!Counts, lost : BOOLEAN, told : Packs!Counts \cup {Absent}]
        /\ entry.counts = v8[r].counts /\ entry.told = told /\ entry.lost = (v8[r].lost \/ ~accepted)
    BY <1>2, <1>3
  <1>6. \A b \in v6' : "row" \in DOMAIN b /\ b.row \in PackRows
    BY SMTT(30) DEF Packs!ReuseInv
  <1> HIDE DEF r, entry
  <1>7. /\ v3' \in [PackRows -> Packs!Counts \cup {Absent}]
        /\ v5' \in [PackRows -> Packs!Counts \cup {Absent}]
        /\ v8' \in [PackRows -> [counts : Packs!Counts, lost : BOOLEAN, told : Packs!Counts \cup {Absent}]]
    BY <1>3, <1>4, <1>5 DEF Packs!ReuseInv
  <1>8. ASSUME NEW q \in PackRows, q # r
        PROVE  v8'[q] = v8[q] /\ Packs!CountsNow(q)' = Packs!CountsNow(q) /\ v5'[q] = v5[q]
    BY <1>4, <1>8 DEF Packs!ReuseInv, Packs!CountsNow
  <1>9. v8'[r] = entry /\ v5'[r] = result /\ Packs!CountsNow(r)' = Packs!NoCounts
    BY SMTT(30), <1>1, <1>4 DEF Packs!ReuseInv, Packs!CountsNow
  <1>10. ASSUME NEW q \in PackRows
         PROVE  /\ Packs!Within(Packs!CountsNow(q)', v8'[q].counts)
                /\ v5'[q] # Absent => Packs!Within(v5'[q], v8'[q].counts)
                /\ v5'[q] = Absent => /\ v8'[q].told = Absent
                                      /\ v8'[q].lost \/ Packs!CountsNow(q)' = v8'[q].counts
                /\ v8'[q].told # Absent => v5'[q] = v8'[q].told
    <2>1. CASE q # r
      BY <1>8, <2>1 DEF Packs!ReuseInv
    <2>2. CASE q = r /\ accepted
      <3>1. /\ Packs!Within(Packs!CountsNow(r), v8[r].counts) /\ v8[r].told = Absent
            /\ v8[r].lost \/ Packs!CountsNow(r) = v8[r].counts
        BY <1>1, <2>2 DEF Packs!ReuseInv
      <3>2. result = Packs!CountsNow(r) /\ result # Absent
        BY <1>2, <2>2
      <3>3. told # Absent => ~v8[r].lost /\ told = v8[r].counts
        BY SMTT(30), <2>2, <3>1
      <3> QED BY <1>2, <1>5, <1>9, <2>2, <3>1, <3>2, <3>3
    <2>3. CASE q = r /\ ~accepted
      <3>1. result = v5[r] /\ told = v8[r].told /\ entry.lost
        BY <1>5, <2>3
      <3>2. /\ v5[r] # Absent => Packs!Within(v5[r], v8[r].counts)
            /\ v5[r] = Absent => v8[r].told = Absent
            /\ v8[r].told # Absent => v5[r] = v8[r].told
        BY <1>1 DEF Packs!ReuseInv
      <3> QED BY <1>2, <1>5, <1>9, <2>3, <3>1, <3>2
    <2> QED BY <2>1, <2>2, <2>3
  <1> QED BY <1>6, <1>7, <1>10 DEF Packs!ReuseInv, Packs!CountsNow

\* A restart empties the signal, and every row that had one has lost lookups.
LEMMA RestartKeepsReuse ==
  ASSUME Packs!ReuseInv, Absent \notin Packs!Counts, Packs!ServerRestarts
  PROVE  Packs!ReuseInv'
  <1>1. /\ v3' = [r \in PackRows |-> Absent]
        /\ v8' = [r \in PackRows |-> [v8[r] EXCEPT !.lost = @ \/ r \in Packs!Signalled]]
        /\ UNCHANGED <<v5, v6>>
    BY DEF Packs!ServerRestarts
  <1>2. ASSUME NEW r \in PackRows
        PROVE  /\ v8'[r] \in [counts : Packs!Counts, lost : BOOLEAN, told : Packs!Counts \cup {Absent}]
               /\ v8'[r].counts = v8[r].counts /\ v8'[r].told = v8[r].told
               /\ v8'[r].lost = (v8[r].lost \/ v3[r] # Absent)
               /\ Packs!CountsNow(r)' = Packs!NoCounts
    BY ZenonT(60), <1>1 DEF Packs!ReuseInv, Packs!Signalled, Packs!CountsNow
  <1>3. /\ v3' \in [PackRows -> Packs!Counts \cup {Absent}]
        /\ v8' \in [PackRows -> [counts : Packs!Counts, lost : BOOLEAN, told : Packs!Counts \cup {Absent}]]
    BY <1>1, <1>2
  <1>4. ASSUME NEW r \in PackRows
        PROVE  /\ Packs!Within(Packs!NoCounts, v8[r].counts)
               /\ v3[r] = Absent => Packs!CountsNow(r) = Packs!NoCounts
    BY DEF Packs!ReuseInv, Packs!NoCounts, Packs!Counts, Packs!CountsNow, Packs!Within
  <1>5. ASSUME NEW r \in PackRows
        PROVE  /\ Packs!Within(Packs!CountsNow(r)', v8'[r].counts)
               /\ v5'[r] # Absent => Packs!Within(v5'[r], v8'[r].counts)
               /\ v5'[r] = Absent => /\ v8'[r].told = Absent
                                     /\ v8'[r].lost \/ Packs!CountsNow(r)' = v8'[r].counts
               /\ v8'[r].told # Absent => v5'[r] = v8'[r].told
    <2>1. /\ v5[r] # Absent => Packs!Within(v5[r], v8[r].counts)
          /\ v5[r] = Absent => v8[r].told = Absent /\ (v8[r].lost \/ Packs!CountsNow(r) = v8[r].counts)
          /\ v8[r].told # Absent => v5[r] = v8[r].told
      BY DEF Packs!ReuseInv
    <2> QED BY <1>1, <1>2, <1>4, <2>1
  <1>6. /\ v5' \in [PackRows -> Packs!Counts \cup {Absent}]
        /\ \A a \in v6' : "row" \in DOMAIN a /\ a.row \in PackRows
    BY <1>1 DEF Packs!ReuseInv
  <1> QED BY <1>3, <1>5, <1>6 DEF Packs!ReuseInv, Packs!CountsNow

\* Whatever agents, late agents, restarts and the cap do.
LEMMA ReuseStays ==
  ASSUME Packs!ReuseInv, Absent \notin Packs!Counts, [Packs!Next]_(Packs!packVars)
  PROVE  Packs!ReuseInv'
  <1>1. CASE Packs!GetTrackPack
    <2>1. PICK a \in v6 :
            /\ Packs!NoteTrackPackSignal(a.row, Packs!Filed(a.track) # {})
            /\ v6' = (v6 \ {a}) \cup
                 {[a EXCEPT !.pc = IF Packs!Filed(a.track) # {} THEN "done" ELSE "miss",
                            !.used = IF Packs!Filed(a.track) # {}
                                     THEN (CHOOSE p \in Packs!Filed(a.track) : TRUE).from ELSE @,
                            !.current = Packs!Doc]}
            /\ UNCHANGED v5
      BY <1>1 DEF Packs!GetTrackPack
    <2>2. \A c \in v6' : "row" \in DOMAIN c /\ c.row \in PackRows
      BY <2>1 DEF Packs!ReuseInv
    <2>3. a.row \in PackRows
      BY <2>1 DEF Packs!ReuseInv
    <2> QED BY <2>1, <2>2, <2>3, NoteKeepsReuse
  <1>2. CASE Packs!PutTrackPack
    <2>1. PICK a \in v6 :
            /\ Packs!NoteTrackPackSignal(a.row, FALSE) /\ v6' = (v6 \ {a}) \cup {[a EXCEPT !.pc = "done"]}
            /\ UNCHANGED v5
      BY <1>2 DEF Packs!PutTrackPack
    <2>2. \A c \in v6' : "row" \in DOMAIN c /\ c.row \in PackRows
      BY <2>1 DEF Packs!ReuseInv
    <2>3. a.row \in PackRows
      BY <2>1 DEF Packs!ReuseInv
    <2> QED BY <2>1, <2>2, <2>3, NoteKeepsReuse
  <1>3. ASSUME UNCHANGED <<v3, v5, v8>>, \A c \in v6' : "row" \in DOMAIN c /\ c.row \in PackRows
        PROVE  Packs!ReuseInv'
    BY <1>3 DEF Packs!ReuseInv, Packs!CountsNow
  <1>4. CASE Packs!GetFacts
    <2>1. \A c \in v6' : "row" \in DOMAIN c /\ c.row \in PackRows
      BY <1>4 DEF Packs!GetFacts, Packs!ReuseInv
    <2> QED BY <1>3, <1>4, <2>1 DEF Packs!GetFacts
  <1>5. CASE Packs!ClaimedAgain
    <2>1. \A c \in v6' : "row" \in DOMAIN c /\ c.row \in PackRows
      BY <1>5 DEF Packs!ClaimedAgain, Packs!ReuseInv, Packs!Agent
    <2> QED BY <1>3, <1>5, <2>1 DEF Packs!ClaimedAgain
  <1>6. CASE Packs!PutFacts \/ UNCHANGED Packs!packVars
    BY <1>3, <1>6 DEF Packs!PutFacts, Packs!packVars, Packs!ReuseInv
  <1> QED BY SMTT(30), <1>1, <1>2, <1>4, <1>5, <1>6, ResultKeepsReuse, RestartKeepsReuse DEF Packs!Next

\* At first no row has looked anything up.
LEMMA ReuseAtFirst == Packs!Init => Packs!ReuseInv
  <1> SUFFICES ASSUME Packs!Init PROVE Packs!ReuseInv
    OBVIOUS
  <1>1. Packs!NoCounts \in Packs!Counts /\ Packs!Within(Packs!NoCounts, Packs!NoCounts)
    BY DEF Packs!NoCounts, Packs!Counts, Packs!Within
  <1>2. /\ v3 = [r \in PackRows |-> Absent] /\ v5 = [r \in PackRows |-> Absent]
        /\ v8 = [r \in PackRows |-> [counts |-> Packs!NoCounts, lost |-> FALSE, told |-> Absent]]
        /\ \A a \in v6 : "row" \in DOMAIN a /\ a.row \in PackRows
    BY DEF Packs!Init, Packs!Agent
  <1> QED BY <1>1, <1>2 DEF Packs!ReuseInv, Packs!CountsNow

-----------------------------------------------------------------------------
(***************************************************************************)
(* SourceDesk: v1 is the source, v2 the proposals, v4 the console, v5 the  *)
(* form and v6 the calls under way.                                        *)
(***************************************************************************)
\* The link of the source is to an approved proposal, whose text it has.
DeskLinked == v1.from # None => v1.text = v1.from /\ v2[v1.from] = "approved"

\* A call that the server serves, whether its answer arrives or is lost.
LEMMA EffectKeepsDesk ==
  ASSUME Desk!DeskInv, NEW c \in v6, Desk!Allowed(c), Desk!Effect(c)
  PROVE  /\ v1' \in Desk!SourceRecords /\ DeskLinked'
         /\ v2' \in [Proposals -> {"none", "pending", "approved", "rejected"}]
  <1> USE DEF DeskLinked
  <1>1. /\ v1 \in Desk!SourceRecords /\ v2 \in [Proposals -> {"none", "pending", "approved", "rejected"}]
        /\ DeskLinked /\ c \in Desk!Calls /\ c.text \in Desk!Texts /\ c.active \in BOOLEAN
        /\ v1.from \in Proposals \cup {None}
    BY DEF Desk!DeskInv, Desk!Calls, Desk!SourceRecords
  <1>2. CASE c.kind = "patch"
    <2>1. v1' = [v1 EXCEPT !.text = c.text, !.active = c.active,
                           !.from = IF c.text # v1.text THEN None ELSE @,
                           !.stamped = @ \/ c.text # v1.text] /\ v2' = v2
      BY <1>2 DEF Desk!Effect, Desk!Patch
    <2>2. v1' \in Desk!SourceRecords
      BY <1>1, <2>1 DEF Desk!SourceRecords
    <2>3. v1'.text = c.text /\ v1'.from = IF c.text # v1.text THEN None ELSE v1.from
      BY <1>1, <2>1 DEF Desk!SourceRecords
    <2> QED BY <1>1, <2>1, <2>2, <2>3
  <1>3. CASE c.kind = "toggle" \/ c.kind = "delete"
    <2>1. \/ v1' = [v1 EXCEPT !.active = c.active] /\ v2' = v2
          \/ v1' = [v1 EXCEPT !.here = FALSE] /\ v2' = v2
      BY <1>3 DEF Desk!Effect
    <2>2. v1' \in Desk!SourceRecords /\ v1'.text = v1.text /\ v1'.from = v1.from
      BY <1>1, <2>1 DEF Desk!SourceRecords
    <2> QED BY <1>1, <2>1, <2>2
  <1>4. CASE c.kind = "create"
    <2>1. v1' = Desk!NewSource /\ v2' = Desk!NoProposals
      BY <1>4 DEF Desk!Effect
    <2> QED BY <2>1 DEF Desk!NewSource, Desk!NoProposals, Desk!SourceRecords, Desk!Texts
  <1>5. CASE c.kind \in {"approved", "rejected"}
    <2>1. c.p \in Proposals /\ v2[c.p] = "pending"
      BY <1>5 DEF Desk!DeskInv, Desk!Allowed, Desk!MayResolve
    <2>2. /\ v2' = [v2 EXCEPT ![c.p] = c.kind]
          /\ v1' = IF c.kind = "approved"
                   THEN [v1 EXCEPT !.text = c.p, !.from = c.p, !.stamped = TRUE] ELSE v1
      BY <1>5 DEF Desk!Effect, Desk!Resolve
    <2>3. v1' \in Desk!SourceRecords
      BY <1>1, <2>1, <2>2 DEF Desk!SourceRecords, Desk!Texts
    <2>4. c.kind = "approved" => v1'.text = c.p /\ v1'.from = c.p
      BY <1>1, <2>1, <2>2 DEF Desk!SourceRecords
    <2> QED BY <1>1, <1>5, <2>1, <2>2, <2>3, <2>4
  <1>6. CASE c.kind \notin {"patch", "toggle", "delete", "create", "approved", "rejected"}
    <2>1. UNCHANGED <<v1, v2>>
      BY <1>6 DEF Desk!Effect
    <2> QED BY <1>1, <2>1
  <1> QED BY <1>2, <1>3, <1>4, <1>5, <1>6

\* Every step of the server, of a scout and of the tab.
LEMMA DeskStays ==
  ASSUME Desk!DeskInv, [Desk!SrcNext]_(Desk!srcVars)
  PROVE  Desk!DeskInv'
  <1> USE DEF DeskLinked
  <1>1. /\ v1 \in Desk!SourceRecords /\ v4.source \in Desk!SourceRecords /\ DeskLinked
        /\ v2 \in [Proposals -> {"none", "pending", "approved", "rejected"}]
        /\ v5 \in [open: BOOLEAN, busy: BOOLEAN, text: Desk!Texts, active: BOOLEAN]
        /\ v6 \subseteq Desk!Calls
        /\ \A c \in v6 : c.kind \in {"approved", "rejected"} => c.p \in Proposals
    BY DEF Desk!DeskInv
  <1>2. Desk!LoadCall \in Desk!Calls /\ Desk!LoadCall.kind = "load"
    BY DEF Desk!LoadCall, Desk!Plain, Desk!Call, Desk!Calls, Desk!CallKinds, Desk!Texts
  <1>3. ASSUME NEW c \in v6, Desk!Served(c) \/ Desk!Failed(c) \/ Desk!Loaded(c)
        PROVE  Desk!DeskInv'
    <2>1. /\ v1' \in Desk!SourceRecords /\ DeskLinked'
          /\ v2' \in [Proposals -> {"none", "pending", "approved", "rejected"}]
      BY <1>1, <1>3, EffectKeepsDesk DEF Desk!Served, Desk!Failed, Desk!Loaded
    <2>2. v4'.source \in Desk!SourceRecords
      BY <1>1, <1>3 DEF Desk!Served, Desk!Failed, Desk!Loaded
    <2>3. v5' \in [open: BOOLEAN, busy: BOOLEAN, text: Desk!Texts, active: BOOLEAN]
      BY <1>1, <1>3 DEF Desk!Served, Desk!Failed, Desk!Loaded
    <2>4. v6' \subseteq v6 \cup {Desk!LoadCall}
      BY <1>3 DEF Desk!Served, Desk!Failed, Desk!Loaded
    <2> QED BY <1>1, <1>2, <2>1, <2>2, <2>3, <2>4 DEF Desk!DeskInv
  <1>4. ASSUME NEW s \in Scouts, NEW p \in Proposals, Desk!FileProposal(s, p)
        PROVE  Desk!DeskInv'
    <2>1. /\ v2[p] = "none" /\ v2' = [v2 EXCEPT ![p] = "pending"]
          /\ v6' = v6 \cup {Desk!LoadCall} /\ UNCHANGED <<v1, v4, v5>>
      BY <1>4 DEF Desk!FileProposal
    <2>2. DeskLinked'
      BY <1>1, <2>1 DEF Desk!SourceRecords
    <2> QED BY <1>1, <1>2, <2>1, <2>2 DEF Desk!DeskInv
  <1>5. ASSUME NEW s \in Scouts, Desk!ScoutExits(s)
        PROVE  Desk!DeskInv'
    BY <1>1, <1>5 DEF Desk!ScoutExits, Desk!DeskInv
  <1>6. CASE Desk!ServerRestarts
    BY <1>1, <1>6 DEF Desk!ServerRestarts, Desk!DeskInv
  <1>7. ASSUME NEW c \in Desk!Calls, c.kind \in {"approved", "rejected"} => c.p \in Proposals,
               v6' = v6 \cup {c}, UNCHANGED <<v1, v2, v4>>,
               v5' \in [open: BOOLEAN, busy: BOOLEAN, text: Desk!Texts, active: BOOLEAN]
        PROVE  Desk!DeskInv'
    BY <1>1, <1>7 DEF Desk!DeskInv
  <1>8. ASSUME NEW p \in Proposals, NEW verdict \in {"approved", "rejected"}, Desk!Judge(p, verdict)
        PROVE  Desk!DeskInv'
    <2>1. Desk!Call(verdict, p, Desk!Empty, TRUE) \in Desk!Calls
          /\ Desk!Call(verdict, p, Desk!Empty, TRUE).p = p
      BY DEF Desk!Call, Desk!Calls, Desk!CallKinds, Desk!Texts
    <2> QED BY <1>1, <1>7, <1>8, <2>1 DEF Desk!Judge, Desk!Sends
  <1>9. CASE Desk!Propose \/ Desk!RemoveSource \/ Desk!AddSource
    <2>1. ASSUME NEW k \in {"propose", "delete", "create"}
          PROVE  Desk!Plain(k) \in Desk!Calls /\ Desk!Plain(k).kind = k
      BY DEF Desk!Plain, Desk!Call, Desk!Calls, Desk!CallKinds, Desk!Texts
    <2>2. \E k \in {"propose", "delete", "create"} :
            Desk!Sends(Desk!Plain(k)) /\ UNCHANGED <<v1, v2, v4, v5>>
      BY <1>9 DEF Desk!Propose, Desk!RemoveSource, Desk!AddSource
    <2> QED BY <1>1, <1>7, <2>1, <2>2 DEF Desk!Sends
  <1>10. CASE Desk!Toggle
    <2> DEFINE call == Desk!Call("toggle", None, Desk!Empty, ~v4.source.active)
    <2>1. call \in Desk!Calls /\ call.kind = "toggle"
      BY DEF Desk!Call, Desk!Calls, Desk!CallKinds, Desk!Texts
    <2>2. v6' = v6 \cup {call} /\ UNCHANGED <<v1, v2, v4, v5>>
      BY <1>10 DEF Desk!Toggle, Desk!Sends
    <2> HIDE DEF call
    <2> QED BY <1>1, <1>7, <2>1, <2>2
  <1>11. CASE Desk!Submit
    <2> DEFINE call == Desk!Call("patch", None, v5.text, v5.active)
    <2>1. call \in Desk!Calls /\ call.kind = "patch"
      BY <1>1 DEF Desk!Call, Desk!Calls, Desk!CallKinds
    <2>2. v6' = v6 \cup {call} /\ UNCHANGED <<v1, v2, v4>> /\ v5' = [v5 EXCEPT !.busy = TRUE]
      BY <1>11 DEF Desk!Submit, Desk!Sends
    <2>3. v5' \in [open: BOOLEAN, busy: BOOLEAN, text: Desk!Texts, active: BOOLEAN]
      BY <1>1, <2>2
    <2> HIDE DEF call
    <2> QED BY <1>7, <2>1, <2>2, <2>3
  <1>12. CASE Desk!OpenForm \/ Desk!TypeInstructions \/ Desk!CancelForm
    <2>1. \/ v5' = [open |-> TRUE, busy |-> FALSE, text |-> v4.source.text, active |-> v4.source.active]
          \/ v5' = [v5 EXCEPT !.text = Desk!ByHand]
          \/ v5' = [v5 EXCEPT !.open = FALSE]
      BY <1>12 DEF Desk!OpenForm, Desk!TypeInstructions, Desk!CancelForm
    <2>2. v4.source.text \in Desk!Texts /\ v4.source.active \in BOOLEAN /\ Desk!ByHand \in Desk!Texts
      BY <1>1 DEF Desk!SourceRecords, Desk!Texts
    <2>3. v5' \in [open: BOOLEAN, busy: BOOLEAN, text: Desk!Texts, active: BOOLEAN]
      <3>1. [v5 EXCEPT !.text = Desk!ByHand] \in [open: BOOLEAN, busy: BOOLEAN, text: Desk!Texts, active: BOOLEAN]
        BY <1>1, <2>2
      <3>2. [v5 EXCEPT !.open = FALSE] \in [open: BOOLEAN, busy: BOOLEAN, text: Desk!Texts, active: BOOLEAN]
        BY <1>1
      <3>3. [open |-> TRUE, busy |-> FALSE, text |-> v4.source.text, active |-> v4.source.active]
              \in [open: BOOLEAN, busy: BOOLEAN, text: Desk!Texts, active: BOOLEAN]
        BY <2>2
      <3> QED BY <2>1, <3>1, <3>2, <3>3
    <2> QED BY <1>1, <1>12, <2>3
            DEF Desk!OpenForm, Desk!TypeInstructions, Desk!CancelForm, Desk!DeskInv
  <1>13. CASE UNCHANGED Desk!srcVars
    BY <1>1, <1>13 DEF Desk!srcVars, Desk!DeskInv
  <1> QED BY <1>3, <1>4, <1>5, <1>6, <1>8, <1>9, <1>10, <1>11, <1>12, <1>13 DEF Desk!SrcNext

\* A new source has no link.
LEMMA DeskAtFirst == Desk!SrcInit => Desk!DeskInv
  BY DEF Desk!SrcInit, Desk!DeskInv, Desk!NewSource, Desk!NoProposals, Desk!SourceRecords, Desk!Texts

\* A resolved proposal changes only with its source.
LEMMA ResolvedStays ==
  ASSUME Desk!DeskInv, [Desk!SrcNext]_(Desk!srcVars)
  PROVE  Desk!StaysResolved
  <1> SUFFICES ASSUME NEW p \in Proposals, v2[p] \in {"approved", "rejected"}, v1.here, v2'[p] # v2[p]
               PROVE  ~v1'.here
    BY DEF Desk!StaysResolved
  <1>1. v2 \in [Proposals -> {"none", "pending", "approved", "rejected"}]
    BY DEF Desk!DeskInv
  <1>2. ASSUME NEW c \in v6, Desk!Allowed(c), Desk!Effect(c)
        PROVE  v2'[p] = v2[p]
    <2>1. CASE c.kind \in {"approved", "rejected"}
      <3>1. v2[c.p] = "pending" /\ v2' = [v2 EXCEPT ![c.p] = c.kind]
        BY <1>2, <2>1 DEF Desk!Allowed, Desk!MayResolve, Desk!Effect, Desk!Resolve
      <3> QED BY <1>1, <3>1
    <2>2. CASE c.kind \notin {"approved", "rejected"}
      <3>1. c.kind # "create"
        BY <1>2 DEF Desk!Allowed
      <3> QED BY <1>2, <2>2, <3>1 DEF Desk!Effect
    <2> QED BY <2>1, <2>2
  <1>3. ASSUME NEW c \in v6, Desk!Served(c) \/ Desk!Failed(c) \/ Desk!Loaded(c)
        PROVE  FALSE
    BY <1>2, <1>3 DEF Desk!Served, Desk!Failed, Desk!Loaded
  <1>4. ASSUME NEW s \in Scouts, NEW q \in Proposals, Desk!FileProposal(s, q)
        PROVE  FALSE
    BY <1>1, <1>4 DEF Desk!FileProposal
  <1>5. v2' = v2
    BY <1>3, <1>4 DEF Desk!SrcNext, Desk!srcVars, Desk!ScoutExits, Desk!ServerRestarts, Desk!Propose,
       Desk!Judge, Desk!RemoveSource, Desk!AddSource, Desk!Toggle, Desk!Submit, Desk!OpenForm,
       Desk!TypeInstructions, Desk!CancelForm
  <1> QED BY <1>5

-----------------------------------------------------------------------------
(***************************************************************************)
(* DemoMode: v2 is whether the process is up, v3 the database, v4 the runs *)
(* and v7 what visitors and replays worked on.                             *)
(***************************************************************************)
\* The rows of the demo's jobs.
DemoRows == {Absent} \cup [status : {"queued", "drafted", "submitted"}, files : BOOLEAN]

\* What one part of the seed writes, over nothing or over an empty database.
LEMMA SeedIsPristine ==
  ASSUME NEW from \in [jobs : [Demo!SeedJobs -> DemoRows], rest : BOOLEAN], NEW n,
         \A j \in Demo!SeedJobs : from.jobs[j] = Absent
  PROVE  /\ Demo!SeededUpTo(from, n).jobs \in [Demo!SeedJobs -> DemoRows]
         /\ Demo!SeededUpTo(from, n) \in [jobs : [Demo!SeedJobs -> DemoRows], rest : BOOLEAN]
         /\ \A j \in Demo!SeedJobs : Demo!SeededUpTo(from, n).jobs[j] \in {Absent, Demo!Seeded(j)}
  <1>1. \A j \in Demo!SeedJobs : Demo!Seeded(j) \in DemoRows
    BY DEF Demo!Seeded, DemoRows
  <1> QED BY <1>1 DEF Demo!SeededUpTo

\* The empty database.
LEMMA EmptyDemo ==
  /\ Demo!Empty \in [jobs : [Demo!SeedJobs -> DemoRows], rest : BOOLEAN]
  /\ \A j \in Demo!SeedJobs : Demo!Empty.jobs[j] = Absent
  BY DEF Demo!Empty, DemoRows

\* A job that changes is one a visitor touched, or one a replay was at work on.
LEMMA RowKeepsDemo ==
  ASSUME Demo!DemoInv, NEW j \in Demo!SeedJobs, NEW row \in DemoRows,
         v3' = [v3 EXCEPT !.jobs[j] = row],
         v7' \in [touched : SUBSET Demo!SeedJobs, older : SUBSET Demo!SeedJobs],
         v7.touched \subseteq v7'.touched, v7'.older = v7.older,
         j \in v7'.touched \cup v7'.older
  PROVE  /\ v3' \in [jobs : [Demo!SeedJobs -> DemoRows], rest : BOOLEAN]
         /\ Demo!UntouchedIsSeeded'
  <1>1. v3 \in [jobs : [Demo!SeedJobs -> DemoRows], rest : BOOLEAN]
    BY DEF Demo!DemoInv, DemoRows
  <1>2. /\ v3' \in [jobs : [Demo!SeedJobs -> DemoRows], rest : BOOLEAN]
        /\ v3'.jobs = [v3.jobs EXCEPT ![j] = row]
    BY <1>1
  <1>3. \A k \in Demo!SeedJobs : k # j => v3'.jobs[k] = v3.jobs[k]
    BY <1>1, <1>2
  <1> QED BY <1>2, <1>3 DEF Demo!DemoInv, Demo!UntouchedIsSeeded

\* Boots, resets, kills, visitors and replays.
LEMMA DemoStays ==
  ASSUME Demo!DemoInv, [Demo!DemoNext]_(Demo!demoVars)
  PROVE  Demo!DemoInv'
  <1> DEFINE Known == \A r \in DemoRuns : v4[r] # None /\ v4[r].status = "running" =>
                                           v4[r].job \in v7.touched \cup v7.older
  <1>1. /\ v3 \in [jobs : [Demo!SeedJobs -> DemoRows], rest : BOOLEAN]
        /\ v4 \in [DemoRuns -> {None} \cup Demo!Replayed]
        /\ v7 \in [touched : SUBSET Demo!SeedJobs, older : SUBSET Demo!SeedJobs]
        /\ Demo!UntouchedIsSeeded /\ (v2 => Known)
    BY DEF Demo!DemoInv, DemoRows
  <1>2. ASSUME v3' \in [jobs : [Demo!SeedJobs -> DemoRows], rest : BOOLEAN],
               v4' \in [DemoRuns -> {None} \cup Demo!Replayed],
               v7' \in [touched : SUBSET Demo!SeedJobs, older : SUBSET Demo!SeedJobs],
               Demo!UntouchedIsSeeded', v2' => Known'
        PROVE  Demo!DemoInv'
    BY <1>2 DEF Demo!DemoInv, DemoRows
  <1>3. CASE Demo!Boot
    <2>1. v4' = [r \in DemoRuns |-> None] /\ v7' = v7
      BY <1>3 DEF Demo!Boot, Demo!FreshProcess, Demo!NoRuns
    <2>2. /\ v3' \in [jobs : [Demo!SeedJobs -> DemoRows], rest : BOOLEAN]
          /\ Demo!UntouchedIsSeeded'
      <3>1. CASE v3' = v3
        BY <1>1, <2>1, <3>1 DEF Demo!UntouchedIsSeeded
      <3>2. CASE v3' # v3
        <4>1. /\ v3' = Demo!SeededUpTo(v3, Len(DemoJobs) + 1)
              /\ \A j \in Demo!SeedJobs : v3.jobs[j] = Absent
          BY SMTT(30), <1>3, <3>2 DEF Demo!Boot
        <4> QED BY <1>1, <4>1, SeedIsPristine DEF Demo!UntouchedIsSeeded
      <3> QED BY <3>1, <3>2
    <2> QED BY <1>1, <1>2, <2>1, <2>2
  <1>4. CASE Demo!Reset
    <2>1. /\ v3' = Demo!FullSeed /\ v4' = v4
          /\ v7' = [v7 EXCEPT !.touched = {}, !.older = {j \in Demo!SeedJobs : Demo!Live(j)}]
      BY <1>4 DEF Demo!Reset
    <2>2. /\ v3' \in [jobs : [Demo!SeedJobs -> DemoRows], rest : BOOLEAN]
          /\ Demo!UntouchedIsSeeded'
      BY <2>1, EmptyDemo, SeedIsPristine DEF Demo!FullSeed, Demo!UntouchedIsSeeded
    <2>3. v7' \in [touched : SUBSET Demo!SeedJobs, older : SUBSET Demo!SeedJobs]
          /\ v7'.older = {j \in Demo!SeedJobs : Demo!Live(j)}
      BY <1>1, <2>1
    <2>4. Known'
      BY <1>1, <2>1, <2>3 DEF Demo!Live, Demo!Replayed
    <2> HIDE DEF Known
    <2> QED BY <1>1, <1>2, <2>1, <2>2, <2>3, <2>4
  <1>5. CASE Demo!Killed
    <2>1. v4' = v4 /\ ~v2'
      BY <1>5 DEF Demo!Killed
    <2>2. CASE v3' = v3 /\ v7' = v7
      BY <1>1, <1>2, <2>1, <2>2 DEF Demo!UntouchedIsSeeded
    <2>3. CASE ~(v3' = v3 /\ v7' = v7)
      <3>1. PICK n \in 0..Len(DemoJobs) :
              /\ v3' = Demo!SeededUpTo(Demo!Empty, n)
              /\ v7' = [v7 EXCEPT !.touched = {}, !.older = {}]
        BY <1>5, <2>3 DEF Demo!Killed
      <3>2. v7' \in [touched : SUBSET Demo!SeedJobs, older : SUBSET Demo!SeedJobs]
        BY <1>1, <3>1
      <3>3. /\ v3' \in [jobs : [Demo!SeedJobs -> DemoRows], rest : BOOLEAN]
            /\ Demo!UntouchedIsSeeded'
        BY <3>1, EmptyDemo, SeedIsPristine DEF Demo!UntouchedIsSeeded
      <3> QED BY <1>1, <1>2, <2>1, <3>2, <3>3
    <2> QED BY <2>2, <2>3
  <1>6. ASSUME NEW j \in Demo!SeedJobs, Demo!Edit(j)
        PROVE  Demo!DemoInv'
    <2> DEFINE row == [v3.jobs[j] EXCEPT !.status = "submitted"]
    <2>1. /\ v3.jobs[j] \in DemoRows /\ v3.jobs[j] # Absent
          /\ v3' = [v3 EXCEPT !.jobs[j] = row] /\ v4' = v4 /\ v2' = v2
          /\ v7' = [v7 EXCEPT !.touched = @ \cup {j}]
      BY <1>1, <1>6 DEF Demo!Edit
    <2>2. row \in DemoRows
      BY <2>1 DEF DemoRows
    <2>3. /\ v7' \in [touched : SUBSET Demo!SeedJobs, older : SUBSET Demo!SeedJobs]
          /\ v7.touched \subseteq v7'.touched /\ v7'.older = v7.older /\ j \in v7'.touched
      BY <1>1, <2>1
    <2> HIDE DEF row
    <2>4. /\ v3' \in [jobs : [Demo!SeedJobs -> DemoRows], rest : BOOLEAN]
          /\ Demo!UntouchedIsSeeded'
      BY <2>1, <2>2, <2>3, RowKeepsDemo
    <2>5. v2' => Known'
      BY <1>1, <2>1, <2>3
    <2> HIDE DEF Known
    <2> QED BY <1>1, <1>2, <2>1, <2>3, <2>4, <2>5
  <1>7. ASSUME NEW r \in DemoRuns, NEW j \in Demo!SeedJobs, Demo!Launch(r, j)
        PROVE  Demo!DemoInv'
    <2> DEFINE replay == [job |-> j, status |-> "running", left |-> Lines, stopped |-> FALSE]
    <2>1. /\ v4' = [v4 EXCEPT ![r] = replay] /\ v3' = v3 /\ v2' = v2 /\ v2
          /\ v7' = [v7 EXCEPT !.touched = @ \cup {j}]
      BY <1>7 DEF Demo!Launch, Demo!MayWrite, Demo!Serving
    <2>2. replay \in Demo!Replayed
      BY PartsAssumption DEF Demo!Replayed
    <2>3. /\ v7' \in [touched : SUBSET Demo!SeedJobs, older : SUBSET Demo!SeedJobs]
          /\ v7.touched \subseteq v7'.touched /\ v7'.older = v7.older /\ j \in v7'.touched
      BY <1>1, <2>1
    <2>4. replay.job = j
      OBVIOUS
    <2> HIDE DEF replay
    <2>5. v4' \in [DemoRuns -> {None} \cup Demo!Replayed] /\ Known'
      BY <1>1, <2>1, <2>2, <2>3, <2>4
    <2>6. Demo!UntouchedIsSeeded'
      BY <1>1, <2>1, <2>3 DEF Demo!UntouchedIsSeeded
    <2> HIDE DEF Known
    <2> QED BY <1>1, <1>2, <2>1, <2>3, <2>5, <2>6
  <1>8. ASSUME NEW r \in DemoRuns, Demo!Stop(r) \/ Demo!Step(r) \/ Demo!Finish(r)
        PROVE  Demo!DemoInv'
    <2>1. /\ v2' = v2 /\ v2 /\ v7' = v7 /\ v4[r] # None /\ v4[r].status = "running"
          /\ v4[r] \in Demo!Replayed /\ v4[r].job \in Demo!SeedJobs
          /\ v4[r].job \in v7.touched \cup v7.older
      BY <1>1, <1>8 DEF Demo!Stop, Demo!Step, Demo!Finish, Demo!Replays, Demo!MayWrite, Demo!Serving,
         Demo!Replayed
    <2>2. PICK next \in Demo!Replayed : v4' = [v4 EXCEPT ![r] = next] /\ next.job = v4[r].job
      <3> DEFINE stopped == [v4[r] EXCEPT !.stopped = TRUE]
                 stepped == [v4[r] EXCEPT !.left = @ - 1]
                 done == [v4[r] EXCEPT !.status = "done"]
      <3>1. /\ stopped \in Demo!Replayed /\ stopped.job = v4[r].job
            /\ done \in Demo!Replayed /\ done.job = v4[r].job
        BY <2>1 DEF Demo!Replayed
      <3>2. v4[r].left > 0 => stepped \in Demo!Replayed /\ stepped.job = v4[r].job
        BY <2>1 DEF Demo!Replayed
      <3>3. \/ v4' = [v4 EXCEPT ![r] = stopped]
            \/ v4[r].left > 0 /\ v4' = [v4 EXCEPT ![r] = stepped]
            \/ v4' = [v4 EXCEPT ![r] = done]
        BY <1>1, <1>8 DEF Demo!Stop, Demo!Step, Demo!Finish
      <3> HIDE DEF stopped, stepped, done
      <3> QED BY <3>1, <3>2, <3>3
    <2>3. v4' \in [DemoRuns -> {None} \cup Demo!Replayed] /\ Known'
      BY <1>1, <2>1, <2>2
    <2>4. /\ v3' \in [jobs : [Demo!SeedJobs -> DemoRows], rest : BOOLEAN]
          /\ Demo!UntouchedIsSeeded'
      <3>1. CASE v3' = v3
        BY <1>1, <2>1, <3>1 DEF Demo!UntouchedIsSeeded
      <3>2. CASE v3' # v3
        <4> DEFINE j == v4[r].job
        <4>1. v3.jobs[j] # Absent /\ v3' = [v3 EXCEPT !.jobs[j] = Demo!Drafts(v3.jobs[j])]
          BY <1>8, <3>2 DEF Demo!Stop, Demo!Step, Demo!Finish
        <4>2. v3.jobs[j] \in DemoRows /\ Demo!Drafts(v3.jobs[j]) \in DemoRows
          BY <1>1, <2>1, <4>1 DEF Demo!Drafts, DemoRows
        <4> HIDE DEF j
        <4> QED BY <1>1, <2>1, <4>1, <4>2, RowKeepsDemo DEF j
      <3> QED BY <3>1, <3>2
    <2> HIDE DEF Known
    <2> QED BY <1>1, <1>2, <2>1, <2>3, <2>4
  <1>9. CASE Demo!NextWindow \/ (\E f \in DemoFinds : Demo!Decide(f)) \/ UNCHANGED Demo!demoVars
    <2>1. UNCHANGED <<v2, v3, v4, v7>>
      BY <1>9 DEF Demo!NextWindow, Demo!Decide, Demo!demoVars
    <2>2. Demo!UntouchedIsSeeded' /\ (v2' => Known')
      BY <1>1, <2>1 DEF Demo!UntouchedIsSeeded
    <2> HIDE DEF Known
    <2> QED BY <1>1, <1>2, <2>1, <2>2
  <1> QED BY <1>3, <1>4, <1>5, <1>6, <1>7, <1>8, <1>9 DEF Demo!DemoNext

\* At first there is no job and no run.
LEMMA DemoAtFirst == Demo!DemoInit => Demo!DemoInv
  <1> SUFFICES ASSUME Demo!DemoInit PROVE Demo!DemoInv
    OBVIOUS
  <1>1. ~v2 /\ v3 = Demo!Empty /\ v4 = [r \in DemoRuns |-> None] /\ v7 = [touched |-> {}, older |-> {}]
    BY DEF Demo!DemoInit, Demo!NoRuns
  <1>2. Demo!UntouchedIsSeeded
    BY <1>1, EmptyDemo DEF Demo!UntouchedIsSeeded
  <1>3. v3 \in [jobs : [Demo!SeedJobs -> DemoRows], rest : BOOLEAN]
    BY <1>1, EmptyDemo
  <1> QED BY <1>1, <1>2, <1>3 DEF Demo!DemoInv, DemoRows

-----------------------------------------------------------------------------
(***************************************************************************)
(* ActivityFeed: v1 is the server's memory, v2 the log, v3 the clock, v4   *)
(* the boards, v5 the notifications, v6 the reconcile by hand, and v7 when *)
(* the bell was last read.                                                 *)
(***************************************************************************)
\* The last line of a run is its last one.
LEMMA NewestIs ==
  ASSUME NEW S, NEW l \in Seq(S), NEW r, NEW i \in DOMAIN l, l[i].run = r
  PROVE  /\ Feed!NewestOf(l, r) \in DOMAIN l /\ l[Feed!NewestOf(l, r)].run = r
         /\ \A j \in DOMAIN l : l[j].run = r => j <= Feed!NewestOf(l, r)
  <1> DEFINE T == {j \in 1 .. Len(l) : l[j].run = r}
  <1>1. Len(l) \in Nat /\ DOMAIN l = 1 .. Len(l) /\ T \in SUBSET (1 .. Len(l)) /\ i \in T
    OBVIOUS
  <1>2. PICK n \in T : \A k \in T : k <= n
    <2> HIDE DEF T
    <2> QED BY <1>1, LastAndFirst
  <1>3. n \in DOMAIN l /\ l[n].run = r /\ \A j \in DOMAIN l : l[j].run = r => j <= n
    BY <1>1, <1>2
  <1> QED BY <1>3 DEF Feed!NewestOf

\* The newest line is the only one that no other line of its run follows.
LEMMA NewestIsOne ==
  ASSUME NEW S, NEW l \in Seq(S), NEW i \in DOMAIN l,
         \A j \in DOMAIN l : l[j].run = l[i].run => j <= i
  PROVE  Feed!NewestOf(l, l[i].run) = i
  <1>1. LET n == Feed!NewestOf(l, l[i].run)
        IN  n \in DOMAIN l /\ l[n].run = l[i].run /\ i <= n
    BY NewestIs
  <1>2. DOMAIN l = 1 .. Len(l) /\ Len(l) \in Nat
    OBVIOUS
  <1> QED BY <1>1, <1>2

\* New lines, of distinct runs: what they say is told, and of other runs what was told before.
LEMMA NewLinesTold ==
  ASSUME NEW old \in Seq(Feed!LogLines), NEW new \in Seq(Feed!LogLines),
         \A i, j \in DOMAIN new : new[i].run = new[j].run => i = j
  PROVE  /\ (old \o new) \in Seq(Feed!LogLines)
         /\ Feed!Logged(old \o new) = Feed!Logged(old) \cup {new[i].run : i \in DOMAIN new}
         /\ \A i \in DOMAIN new : Feed!Told(old \o new, new[i].run) = new[i].status
         /\ \A r : r \notin {new[i].run : i \in DOMAIN new} => Feed!Told(old \o new, r) = Feed!Told(old, r)
  <1> DEFINE l == old \o new
  <1>1. /\ l \in Seq(Feed!LogLines) /\ Len(l) = Len(old) + Len(new)
        /\ Len(old) \in Nat /\ Len(new) \in Nat /\ Len(l) \in Nat
        /\ DOMAIN old = 1 .. Len(old) /\ DOMAIN new = 1 .. Len(new) /\ DOMAIN l = 1 .. Len(l)
    OBVIOUS
  <1>2. \A i \in DOMAIN old : i \in DOMAIN l /\ l[i] = old[i]
    BY <1>1
  <1>3. \A i \in DOMAIN new : Len(old) + i \in DOMAIN l /\ l[Len(old) + i] = new[i]
    BY <1>1
  <1>4. \A i \in DOMAIN l : i \in DOMAIN old \/ (i - Len(old) \in DOMAIN new /\ l[i] = new[i - Len(old)])
    BY <1>1
  <1>5. Feed!Logged(l) = Feed!Logged(old) \cup {new[i].run : i \in DOMAIN new}
    <2>1. \A r \in Feed!Logged(l) : r \in Feed!Logged(old) \cup {new[i].run : i \in DOMAIN new}
      BY <1>2, <1>4 DEF Feed!Logged
    <2>2. \A r \in Feed!Logged(old) : r \in Feed!Logged(l)
      BY <1>2 DEF Feed!Logged
    <2>3. ASSUME NEW i \in DOMAIN new PROVE new[i].run \in Feed!Logged(l)
      <3>1. Len(old) + i \in DOMAIN l /\ l[Len(old) + i].run = new[i].run
        BY <1>3
      <3> QED BY <3>1 DEF Feed!Logged
    <2> QED BY <2>1, <2>2, <2>3
  <1>6. ASSUME NEW i \in DOMAIN new
        PROVE  Feed!Told(l, new[i].run) = new[i].status
    <2> DEFINE n == Len(old) + i
    <2>1. n \in DOMAIN l /\ l[n] = new[i]
      BY <1>3
    <2>2. ASSUME NEW j \in DOMAIN l, l[j].run = l[n].run PROVE j <= n
      BY <1>1, <1>4, <2>1, <2>2
    <2>3. Feed!NewestOf(l, l[n].run) = n
      <3> HIDE DEF n
      <3> QED BY <1>1, <2>1, <2>2, NewestIsOne
    <2>4. new[i].run \in Feed!Logged(l)
      BY <1>5
    <2> QED BY <2>1, <2>3, <2>4 DEF Feed!Told, Feed!Tell
  <1>7. ASSUME NEW r, r \notin {new[i].run : i \in DOMAIN new}
        PROVE  Feed!Told(l, r) = Feed!Told(old, r)
    <2>1. CASE r \notin Feed!Logged(old)
      BY <1>5, <1>7, <2>1 DEF Feed!Told
    <2>2. CASE r \in Feed!Logged(old)
      <3> DEFINE n == Feed!NewestOf(old, r)
      <3>1. /\ n \in DOMAIN old /\ old[n].run = r
            /\ \A j \in DOMAIN old : old[j].run = r => j <= n
        BY <2>2, NewestIs DEF Feed!Logged
      <3> HIDE DEF n
      <3>2. n \in DOMAIN l /\ l[n] = old[n]
        BY <1>2, <3>1
      <3>3. ASSUME NEW j \in DOMAIN l, l[j].run = l[n].run PROVE j <= n
        BY <1>2, <1>4, <1>7, <3>1, <3>2, <3>3
      <3>4. Feed!NewestOf(l, l[n].run) = n
        BY <1>1, <3>2, <3>3, NewestIsOne
      <3> QED BY <1>5, <2>2, <3>1, <3>2, <3>4 DEF Feed!Told, Feed!Tell, n
    <2> QED BY <2>1, <2>2
  <1> QED BY <1>1, <1>5, <1>6, <1>7

\* The lines that a step adds to the log: of now, of distinct runs, and none that starts a
\* run that has a line.
Adds(new) ==
  /\ new \in Seq(Feed!LogLines) /\ v2' = v2 \o new
  /\ \A i, j \in DOMAIN new : new[i].run = new[j].run => i = j
  /\ \A i \in DOMAIN new :
       /\ new[i].at = v3
       /\ new[i].status = "running" => new[i].run \notin Feed!Logged(v2)

\* What the memory then holds: a run that waits or runs is one that did not end before.
Fits(new) ==
  /\ v1' \in Feed!Memories /\ Feed!QueueIsQueued(v1')
  /\ \A r \in FeedRuns :
       /\ v1'.status[r] \in {"none", "queued"} =>
            v1.status[r] \in {"none", "queued"} /\ \A i \in DOMAIN new : new[i].run # r
       /\ v1'.status[r] = "running" =>
            /\ v1.status[r] \in {"none", "queued", "running"}
            /\ \A i \in DOMAIN new : new[i].run = r => new[i].status \in {"running", "stopped"}

\* New lines keep the log in order: they are of now, and none starts a run that has a line.
LEMMA NewLinesInOrder ==
  ASSUME Feed!FeedInv, NEW new, Adds(new), v3' = v3
  PROVE  /\ v2' \in Seq(Feed!LogLines) /\ Feed!LogInOrder'
         /\ \A r : Feed!HasOutcome(r)' =>
              \/ Feed!HasOutcome(r)
              \/ \E i \in DOMAIN new : new[i].run = r /\ new[i].status \in {"done", "failed"}
  <1>1. /\ v2 \in Seq(Feed!LogLines) /\ v3 \in Nat /\ Feed!LogInOrder
        /\ new \in Seq(Feed!LogLines) /\ v2' = v2 \o new
        /\ \A i, j \in DOMAIN new : new[i].run = new[j].run => i = j
        /\ \A i \in DOMAIN new : new[i].at = v3
        /\ \A i \in DOMAIN new : new[i].status = "running" => new[i].run \notin Feed!Logged(v2)
    BY DEF Feed!FeedInv, Adds
  <1>2. /\ v2' \in Seq(Feed!LogLines) /\ Len(v2') = Len(v2) + Len(new)
        /\ Len(v2) \in Nat /\ Len(new) \in Nat
        /\ DOMAIN v2 = 1 .. Len(v2) /\ DOMAIN new = 1 .. Len(new) /\ DOMAIN v2' = 1 .. Len(v2) + Len(new)
    BY <1>1
  <1>3. \A i \in DOMAIN v2' : \/ i \in DOMAIN v2 /\ v2'[i] = v2[i]
                              \/ /\ i > Len(v2) /\ i - Len(v2) \in DOMAIN new
                                 /\ v2'[i] = new[i - Len(v2)]
    BY <1>1, <1>2
  <1>4. ASSUME NEW i \in DOMAIN v2
        PROVE  v2[i] \in Feed!LogLines /\ v2[i].at \in Nat /\ v2[i].run \in Feed!Logged(v2)
    <2>1. v2[i] \in Feed!LogLines
      BY <1>1
    <2> QED BY <2>1 DEF Feed!LogLines, Feed!Logged
  <1>5. \A i \in DOMAIN v2' : v2'[i].at <= v3'
    BY <1>1, <1>3 DEF Feed!LogInOrder
  <1>6. ASSUME NEW i \in DOMAIN v2', NEW j \in DOMAIN v2', i < j
        PROVE  /\ v2'[i].at <= v2'[j].at
               /\ v2'[i].run = v2'[j].run /\ v2'[j].status = "running" => v2'[i].status = "running"
    <2>1. CASE j \in DOMAIN v2 /\ v2'[j] = v2[j]
      <3>1. i \in DOMAIN v2 /\ v2'[i] = v2[i]
        BY <1>2, <1>3, <1>6, <2>1
      <3> QED BY <1>1, <1>6, <2>1, <3>1 DEF Feed!LogInOrder
    <2>2. CASE /\ j > Len(v2) /\ j - Len(v2) \in DOMAIN new /\ v2'[j] = new[j - Len(v2)]
               /\ i \in DOMAIN v2 /\ v2'[i] = v2[i]
      BY <1>1, <1>4, <2>2 DEF Feed!LogInOrder
    <2>3. CASE /\ j > Len(v2) /\ j - Len(v2) \in DOMAIN new /\ v2'[j] = new[j - Len(v2)]
               /\ i > Len(v2) /\ i - Len(v2) \in DOMAIN new /\ v2'[i] = new[i - Len(v2)]
      <3>1. i - Len(v2) # j - Len(v2)
        BY <1>2, <1>6, <2>3
      <3> QED BY <1>1, <2>3, <3>1
    <2> QED BY <1>3, <2>1, <2>2, <2>3
  <1>7. ASSUME NEW r, Feed!HasOutcome(r)'
        PROVE  \/ Feed!HasOutcome(r)
               \/ \E i \in DOMAIN new : new[i].run = r /\ new[i].status \in {"done", "failed"}
    BY <1>3, <1>7 DEF Feed!HasOutcome
  <1> QED BY <1>2, <1>5, <1>6, <1>7 DEF Feed!LogInOrder

\* A run that was not launched has no line, and one that runs has no outcome.
LEMMA RunFits ==
  ASSUME Feed!LinesFitRuns, NEW r \in FeedRuns
  PROVE  /\ v1.status[r] \in {"none", "queued"} => r \notin Feed!Logged(v2)
         /\ v1.status[r] \in {"none", "queued", "running"} => ~Feed!HasOutcome(r)
  <1>1. r \notin Feed!Logged(v2) => ~Feed!HasOutcome(r)
    BY DEF Feed!HasOutcome, Feed!Logged
  <1>2. v1.status[r] \in {"none", "queued"} => r \notin Feed!Logged(v2)
    BY DEF Feed!LinesFitRuns
  <1>3. v1.status[r] = "running" => ~Feed!HasOutcome(r)
    BY DEF Feed!LinesFitRuns
  <1> QED BY <1>1, <1>2, <1>3

\* A step of the server: what it launches had no line, and what it ends ran.
LEMMA ServerStep ==
  ASSUME Feed!FeedInv, NEW new, Adds(new), Fits(new), UNCHANGED <<v3, v4, v5, v7>>,
         v6' \subseteq Feed!Logged(v2),
         Feed!NothingDangles'
  PROVE  Feed!FeedInv'
  <1>1. new \in Seq(Feed!LogLines) /\ v1' \in Feed!Memories /\ Feed!QueueIsQueued(v1')
        /\ \A i, j \in DOMAIN new : new[i].run = new[j].run => i = j
    BY DEF Adds, Fits
  <1>2. /\ v2' \in Seq(Feed!LogLines) /\ Feed!LogInOrder'
        /\ \A r : Feed!HasOutcome(r)' =>
             \/ Feed!HasOutcome(r)
             \/ \E i \in DOMAIN new : new[i].run = r /\ new[i].status \in {"done", "failed"}
    BY NewLinesInOrder
  <1>3. v2 \in Seq(Feed!LogLines) /\ Feed!LinesFitRuns /\ v6 \subseteq Feed!Logged(v2) /\ v3 \in Nat
        /\ v4 \in [Tickets -> {Feed!Missing, "open", "done"}] /\ Feed!BellRemembers
    BY DEF Feed!FeedInv
  <1>4. Feed!Logged(v2') = Feed!Logged(v2) \cup {new[i].run : i \in DOMAIN new}
    BY <1>1, <1>3, NewLinesTold DEF Adds
  <1>5. ASSUME NEW r \in FeedRuns
        PROVE  /\ v1'.status[r] \in {"none", "queued"} => r \notin Feed!Logged(v2')
               /\ v1'.status[r] = "running" => ~Feed!HasOutcome(r)'
    <2>1. /\ v1.status[r] \in {"none", "queued"} => r \notin Feed!Logged(v2)
          /\ v1.status[r] \in {"none", "queued", "running"} => ~Feed!HasOutcome(r)
      BY <1>3, RunFits
    <2>2. ASSUME v1'.status[r] \in {"none", "queued"} PROVE r \notin Feed!Logged(v2')
      <3>1. v1.status[r] \in {"none", "queued"} /\ \A i \in DOMAIN new : new[i].run # r
        BY <2>2 DEF Fits
      <3> QED BY <1>4, <2>1, <3>1
    <2>3. ASSUME v1'.status[r] = "running", Feed!HasOutcome(r)' PROVE FALSE
      <3>1. PICK i \in DOMAIN new : new[i].run = r /\ new[i].status \in {"done", "failed"}
        BY <1>2, <2>1, <2>3 DEF Fits
      <3> QED BY <2>3, <3>1 DEF Fits
    <2> QED BY <2>2, <2>3
  <1>6. Feed!LinesFitRuns'
    BY <1>5 DEF Feed!LinesFitRuns
  <1>7. v6' \subseteq Feed!Logged(v2') /\ v3' \in Nat
    BY <1>3, <1>4
  <1>8. v4' \in [Tickets -> {Feed!Missing, "open", "done"}] /\ Feed!BellRemembers'
    BY <1>3 DEF Feed!BellRemembers
  <1> QED BY <1>1, <1>2, <1>6, <1>7, <1>8 DEF Feed!FeedInv

\* Nothing is left open by a step that forgets no run, and starts none that is forgotten.
LEMMA NothingNewDangles ==
  ASSUME Feed!FeedInv, NEW new, Adds(new),
         v1'.up = v1.up, v1'.reconciled = v1.reconciled,
         \A r \in FeedRuns : v1'.status[r] = "gone" =>
           v1.status[r] = "gone" /\ \A i \in DOMAIN new : new[i].run = r => new[i].status # "running"
  PROVE  Feed!NothingDangles'
  <1>1. v2 \in Seq(Feed!LogLines) /\ Feed!NothingDangles
    BY DEF Feed!FeedInv
  <1>2. /\ \A i \in DOMAIN new : Feed!Told(v2', new[i].run) = new[i].status
        /\ \A r : r \notin {new[i].run : i \in DOMAIN new} => Feed!Told(v2', r) = Feed!Told(v2, r)
    BY <1>1, NewLinesTold DEF Adds
  <1>3. ASSUME NEW r \in FeedRuns, Feed!Told(v2', r) = "running", v1'.status[r] = "gone"
        PROVE  Feed!Told(v2, r) = "running" /\ v1.status[r] = "gone"
    <2>1. CASE \E i \in DOMAIN new : new[i].run = r
      BY <1>2, <1>3, <2>1
    <2>2. CASE r \notin {new[i].run : i \in DOMAIN new}
      BY <1>2, <1>3, <2>2
    <2> QED BY <2>1, <2>2
  <1> QED BY <1>1, <1>3 DEF Feed!NothingDangles

\* An outcome that was told stays when no run that has one gets a line.
LEMMA OutcomesStand ==
  ASSUME Feed!FeedInv, NEW new, Adds(new), \A i \in DOMAIN new : ~Feed!HasOutcome(new[i].run)
  PROVE  Feed!OutcomeStands
  <1>1. v2 \in Seq(Feed!LogLines)
    BY DEF Feed!FeedInv
  <1>2. \A r : r \notin {new[i].run : i \in DOMAIN new} => Feed!Told(v2', r) = Feed!Told(v2, r)
    BY <1>1, NewLinesTold DEF Adds
  <1>3. ASSUME NEW r \in FeedRuns, Feed!Told(v2, r) \in {"done", "failed"}
        PROVE  Feed!Told(v2', r) = Feed!Told(v2, r)
    <2>1. r \in Feed!Logged(v2)
      BY <1>3 DEF Feed!Told, Feed!Missing
    <2>2. Feed!NewestOf(v2, r) \in DOMAIN v2 /\ v2[Feed!NewestOf(v2, r)].run = r
      BY <1>1, <2>1, NewestIs DEF Feed!Logged
    <2>3. Feed!HasOutcome(r)
      BY <1>3, <2>1, <2>2 DEF Feed!HasOutcome, Feed!Told, Feed!Tell
    <2>4. r \notin {new[i].run : i \in DOMAIN new}
      BY <2>3
    <2> QED BY <1>2, <2>4
  <1> QED BY <1>3 DEF Feed!OutcomeStands

\* The instance counts as this module does.
LEMMA SameCount == \A S : Feed!Cardinality(S) = Cardinality(S)
  BY DEF Feed!Cardinality, Cardinality

\* The queue without the runs that get a slot.
Waiting(mem) == SubSeq(mem.queue, Len(Feed!Launched(mem)) + 1, Len(mem.queue))

\* The runs that get a slot are the first of the queue, and the others stay in it.
LEMMA LaunchedFirst ==
  ASSUME NEW mem \in Feed!Memories
  PROVE  /\ Feed!Launched(mem) \in Seq(FeedRuns) /\ Waiting(mem) \in Seq(FeedRuns)
         /\ \A i \in DOMAIN Feed!Launched(mem) :
              i \in DOMAIN mem.queue /\ Feed!Launched(mem)[i] = mem.queue[i]
         /\ \A i \in DOMAIN Waiting(mem) :
              /\ i + Len(Feed!Launched(mem)) \in DOMAIN mem.queue
              /\ Waiting(mem)[i] = mem.queue[i + Len(Feed!Launched(mem))]
  <1> DEFINE q == mem.queue
             free == MaxRunning - Feed!RunningCount(mem)
             k == IF free < Len(q) THEN free ELSE Len(q)
             size == Len(Feed!Launched(mem))
             low == size + 1
             high == Len(q)
  <1>1. q \in Seq(FeedRuns) /\ Len(q) \in Nat /\ DOMAIN q = 1 .. Len(q)
    <2>1. q \in Seq(FeedRuns)
      BY DEF Feed!Memories
    <2> HIDE DEF q
    <2> QED BY <2>1
  <1>2. free \in Int
    <2> DEFINE R == {r \in FeedRuns : mem.status[r] = "running"}
    <2>1. IsFiniteSet(R)
      BY FS_Subset, PartsAssumption
    <2>2. Cardinality(R) \in Nat
      BY <2>1, FS_CardinalityType
    <2> QED BY <2>2, SameCount, PartsAssumption DEF Feed!RunningCount
  <1>3. Feed!Launched(mem) = SubSeq(q, 1, k) /\ Waiting(mem) = SubSeq(q, low, high)
    BY DEF Feed!Launched, Waiting
  <1>4. k \in Int /\ k <= Len(q) /\ high \in Int
    BY <1>1, <1>2
  <1> HIDE DEF q, k
  <1>5. /\ SubSeq(q, 1, k) \in Seq(FeedRuns) /\ Len(SubSeq(q, 1, k)) = IF 1 <= k THEN k - 1 + 1 ELSE 0
        /\ \A i \in 1 .. k - 1 + 1 : 1 + i - 1 \in DOMAIN q /\ SubSeq(q, 1, k)[i] = q[1 + i - 1]
    BY <1>1, <1>4, PartOf
  <1>6. /\ size \in Nat /\ size <= Len(q) /\ DOMAIN Feed!Launched(mem) = 1 .. size
        /\ \A i \in 1 .. size : i \in DOMAIN q /\ Feed!Launched(mem)[i] = q[i]
    BY <1>1, <1>3, <1>4, <1>5
  <1> HIDE DEF size
  <1>7. low \in Nat \ {0} /\ high \in Int /\ high <= Len(q)
    BY <1>1, <1>6
  <1> HIDE DEF low, high
  <1>8. /\ SubSeq(q, low, high) \in Seq(FeedRuns)
        /\ Len(SubSeq(q, low, high)) = IF low <= high THEN high - low + 1 ELSE 0
        /\ \A i \in 1 .. high - low + 1 :
             low + i - 1 \in DOMAIN q /\ SubSeq(q, low, high)[i] = q[low + i - 1]
    BY <1>1, <1>7, PartOf
  <1>9. ASSUME NEW i \in DOMAIN Waiting(mem)
        PROVE  i + size \in DOMAIN q /\ Waiting(mem)[i] = q[i + size]
    <2>1. low = size + 1 /\ high = Len(q) /\ size \in Nat /\ Len(q) \in Nat /\ size <= Len(q)
      BY <1>1, <1>6 DEF low, high
    <2>2. /\ low \in Nat /\ high \in Nat /\ high - low + 1 = high - size /\ high - size \in Nat
          /\ (IF low <= high THEN high - low + 1 ELSE 0) = high - size
      BY <2>1
    <2>3. Waiting(mem) \in Seq(FeedRuns) /\ Len(Waiting(mem)) = high - size
      <3>1. Waiting(mem) = SubSeq(q, low, high)
        BY <1>3
      <3> QED BY <1>8, <2>2, <3>1
    <2>4. i \in 1 .. high - size
      BY <2>2, <2>3
    <2>5. i \in 1 .. high - low + 1 /\ low + i - 1 = i + size
      BY <1>6, <2>1, <2>2, <2>4
    <2> QED BY <1>3, <1>8, <2>5
  <1> QED BY <1>3, <1>5, <1>6, <1>8, <1>9 DEF q, size

\* Lines that end runs, and then the lines of the runs that the drain launches.
LEMMA DrainAdds ==
  ASSUME Feed!FeedInv, NEW mem \in Feed!Memories, Feed!QueueIsQueued(mem), NEW lines, Feed!Drained(mem, lines),
         mem.up = v1.up, mem.reconciled = v1.reconciled,
         \/ lines = <<>>
         \/ \E r \in FeedRuns, status \in Feed!Terminal :
              lines = <<Feed!Line(r, status)>> /\ mem.status[r] = status /\ v1.status[r] = "running",
         \A r \in FeedRuns : mem.status[r] \in {"none", "queued"} => v1.status[r] \in {"none", "queued"},
         \A r \in FeedRuns : mem.status[r] \in {"running", "gone"} => v1.status[r] = mem.status[r]
  PROVE  Feed!FeedInv' /\ Feed!OutcomeStands
  <1> DEFINE gone == Feed!Launched(mem)
             fresh == Len(gone)
             left == Waiting(mem)
             starts == [i \in DOMAIN gone |-> Feed!Line(gone[i], "running")]
             running == {gone[i] : i \in DOMAIN gone}
             all == lines \o starts
  <1>1. /\ v1' = [mem EXCEPT !.queue = left,
                           !.status = [r \in FeedRuns |-> IF r \in running THEN "running" ELSE mem.status[r]]]
        /\ v2' = v2 \o all \/ v2' = v2
        /\ UNCHANGED <<v3, v4, v5, v6, v7>>
    BY DEF Feed!Drained, Feed!Logs, Feed!Memories, Waiting
  <1>2. /\ gone \in Seq(FeedRuns) /\ left \in Seq(FeedRuns) /\ fresh \in Nat /\ DOMAIN gone = 1 .. fresh
        /\ \A i \in 1 .. fresh : i \in DOMAIN mem.queue /\ gone[i] = mem.queue[i]
        /\ \A i \in DOMAIN left : i + fresh \in DOMAIN mem.queue /\ left[i] = mem.queue[i + fresh]
    BY LaunchedFirst
  <1>3. /\ lines \in Seq(Feed!LogLines) /\ Len(lines) \in {0, 1} /\ DOMAIN lines = 1 .. Len(lines)
        /\ \A i \in DOMAIN lines :
             /\ lines[i].at = v3 /\ lines[i].run \in FeedRuns /\ lines[i].status \in Feed!Terminal
             /\ mem.status[lines[i].run] \in Feed!Terminal /\ v1.status[lines[i].run] = "running"
    <2>1. CASE lines = <<>>
      BY <2>1
    <2>2. ASSUME NEW r \in FeedRuns, NEW status \in Feed!Terminal, lines = <<Feed!Line(r, status)>>,
                 mem.status[r] = status, v1.status[r] = "running"
          PROVE  <1>3
      <3>1. /\ Feed!Line(r, status) \in Feed!LogLines /\ Feed!Line(r, status).at = v3
            /\ Feed!Line(r, status).run = r /\ Feed!Line(r, status).status = status
        BY DEF Feed!Line, Feed!LogLines, Feed!FeedInv
      <3> QED BY <2>2, <3>1
    <2> QED BY <2>1, <2>2
  <1> HIDE DEF gone, fresh, left
  <1>4. /\ starts \in Seq(Feed!LogLines) /\ Len(starts) = fresh /\ DOMAIN starts = 1 .. fresh
        /\ \A i \in 1 .. fresh : /\ starts[i].run = gone[i] /\ starts[i].status = "running"
                             /\ starts[i].at = v3
    <2>1. \A i \in 1 .. fresh : gone[i] \in FeedRuns
      BY <1>2
    <2>2. \A i \in 1 .. fresh : Feed!Line(gone[i], "running") \in Feed!LogLines
      BY <2>1 DEF Feed!Line, Feed!LogLines, Feed!FeedInv
    <2>3. starts = [i \in 1 .. fresh |-> Feed!Line(gone[i], "running")]
      BY <1>2
    <2> HIDE DEF starts
    <2>4. \A i \in 1 .. fresh : starts[i] = Feed!Line(gone[i], "running")
      BY <2>3
    <2>5. starts \in Seq(Feed!LogLines) /\ Len(starts) = fresh /\ DOMAIN starts = 1 .. fresh
      BY <1>2, <2>2, <2>3
    <2> QED BY <2>4, <2>5 DEF Feed!Line
  <1> HIDE DEF starts
  <1>5. /\ all \in Seq(Feed!LogLines) /\ DOMAIN all = 1 .. Len(lines) + fresh
        /\ \A i \in DOMAIN all :
             \/ i \in DOMAIN lines /\ all[i] = lines[i]
             \/ i > Len(lines) /\ i - Len(lines) \in 1 .. fresh /\ all[i] = starts[i - Len(lines)]
    <2>1. all \in Seq(Feed!LogLines) /\ Len(all) = Len(lines) + fresh
      BY <1>3, <1>4
    <2>2. \A i \in 1 .. Len(lines) + fresh : all[i] = IF i <= Len(lines) THEN lines[i] ELSE starts[i - Len(lines)]
      BY <1>3, <1>4
    <2>3. Len(lines) \in Nat /\ Len(all) \in Nat /\ DOMAIN all = 1 .. Len(all)
      BY <1>3, <2>1
    <2> HIDE DEF all
    <2> QED BY SMTT(30), <1>2, <1>3, <2>1, <2>2, <2>3
  <1> HIDE DEF all
  <1>6. /\ \A i, j \in DOMAIN mem.queue : mem.queue[i] = mem.queue[j] => i = j
        /\ \A i \in DOMAIN mem.queue : mem.status[mem.queue[i]] = "queued"
    BY DEF Feed!QueueIsQueued
  <1>7. /\ \A i, j \in 1 .. fresh : gone[i] = gone[j] => i = j
        /\ \A i \in 1 .. fresh : /\ gone[i] \in FeedRuns /\ mem.status[gone[i]] = "queued"
                             /\ v1.status[gone[i]] \in {"none", "queued"}
    BY <1>2, <1>6
  <1>8. \A r \in running : /\ mem.status[r] = "queued" /\ v1.status[r] \in {"none", "queued"}
                           /\ r \in FeedRuns
    BY <1>2, <1>7
  <1>9. \A i \in DOMAIN all :
          \/ i \in DOMAIN lines /\ all[i].status \in Feed!Terminal /\ all[i].run = lines[i].run
             /\ mem.status[all[i].run] \in Feed!Terminal /\ v1.status[all[i].run] = "running"
          \/ all[i].status = "running" /\ all[i].run \in running
             /\ i > Len(lines) /\ i - Len(lines) \in 1 .. fresh /\ all[i].run = gone[i - Len(lines)]
    <2> TAKE i \in DOMAIN all
    <2>1. CASE i \in DOMAIN lines /\ all[i] = lines[i]
      BY <1>3, <2>1
    <2>2. CASE i > Len(lines) /\ i - Len(lines) \in 1 .. fresh /\ all[i] = starts[i - Len(lines)]
      BY <1>2, <1>4, <2>2
    <2> QED BY <1>5, <2>1, <2>2
  <1>10. ASSUME NEW i \in DOMAIN all, NEW j \in DOMAIN all, all[i].run = all[j].run
         PROVE  i = j
    <2>1. (all[i].run \in running <=> i \notin DOMAIN lines) /\ (all[j].run \in running <=> j \notin DOMAIN lines)
      BY <1>3, <1>8, <1>9 DEF Feed!Terminal
    <2>2. CASE i \in DOMAIN lines /\ j \in DOMAIN lines
      BY <1>3, <2>2
    <2>3. CASE i \notin DOMAIN lines /\ j \notin DOMAIN lines
      <3>1. i - Len(lines) = j - Len(lines)
        BY <1>7, <1>9, <1>10, <2>3
      <3> QED BY <1>3, <1>5, <3>1
    <2> QED BY <1>10, <2>1, <2>2, <2>3
  <1>11. Feed!LinesFitRuns
    BY DEF Feed!FeedInv
  <1>12. ASSUME NEW i \in DOMAIN all
         PROVE  /\ all[i].at = v3 /\ ~Feed!HasOutcome(all[i].run)
                /\ all[i].status = "running" => all[i].run \notin Feed!Logged(v2)
    <2>1. all[i].at = v3
      BY <1>3, <1>4, <1>5
    <2>2. all[i].run \in FeedRuns /\ v1.status[all[i].run] \in {"none", "queued", "running"}
      BY <1>3, <1>8, <1>9
    <2>3. all[i].status = "running" => v1.status[all[i].run] \in {"none", "queued"}
      BY <1>8, <1>9 DEF Feed!Terminal
    <2> QED BY <1>11, <2>1, <2>2, <2>3, RunFits
  <1>13. /\ v1' \in Feed!Memories /\ v1'.up = v1.up /\ v1'.reconciled = v1.reconciled
         /\ v1'.queue = left
         /\ \A r \in FeedRuns : v1'.status[r] = IF r \in running THEN "running" ELSE mem.status[r]
    <2>1. mem.status \in [FeedRuns -> {"none", "queued", "running", "gone"} \cup Feed!Terminal]
      BY DEF Feed!Memories
    <2> DEFINE status == [r \in FeedRuns |-> IF r \in running THEN "running" ELSE mem.status[r]]
    <2>2. status \in [FeedRuns -> {"none", "queued", "running", "gone"} \cup Feed!Terminal]
      BY <2>1
    <2>3. \A r \in FeedRuns : status[r] = IF r \in running THEN "running" ELSE mem.status[r]
      OBVIOUS
    <2> HIDE DEF status, running
    <2>4. v1' = [mem EXCEPT !.queue = left, !.status = status]
      BY <1>1 DEF status, running
    <2>5. v1' \in Feed!Memories /\ v1'.up = mem.up /\ v1'.reconciled = mem.reconciled
          /\ v1'.queue = left /\ v1'.status = status
      BY <1>2, <2>2, <2>4 DEF Feed!Memories
    <2> QED BY <2>3, <2>5
  <1>14. Feed!QueueIsQueued(v1')
    <2>1. ASSUME NEW i \in DOMAIN left, NEW j \in DOMAIN left, left[i] = left[j]
          PROVE  i = j
      <3>1. i + fresh = j + fresh
        BY <1>2, <1>6, <2>1
      <3>2. i \in Int /\ j \in Int
        BY <1>2
      <3> QED BY <1>2, <3>1, <3>2
    <2>2. ASSUME NEW i \in DOMAIN left PROVE v1'.status[left[i]] = "queued"
      <3>1. left[i] \in FeedRuns /\ i \in Int /\ i >= 1
        BY <1>2
      <3>2. mem.status[left[i]] = "queued"
        BY <1>2, <1>6
      <3>3. left[i] \notin running
        <4>1. ASSUME NEW j \in 1 .. fresh, gone[j] = left[i] PROVE FALSE
          <5>1. j = i + fresh
            BY <1>2, <1>6, <4>1
          <5> QED BY <1>2, <3>1, <5>1
        <4> QED BY <1>2, <4>1
      <3> QED BY <1>13, <3>1, <3>2, <3>3
    <2> QED BY <1>13, <2>1, <2>2 DEF Feed!QueueIsQueued
  <1> HIDE DEF running
  <1>15. ASSUME NEW r \in FeedRuns
         PROVE  /\ v1'.status[r] \in {"none", "queued"} =>
                     v1.status[r] \in {"none", "queued"} /\ \A i \in DOMAIN all : all[i].run # r
                /\ v1'.status[r] = "running" =>
                     /\ v1.status[r] \in {"none", "queued", "running"}
                     /\ \A i \in DOMAIN all : all[i].run = r => all[i].status = "running"
                /\ v1'.status[r] = "gone" =>
                     v1.status[r] = "gone" /\ \A i \in DOMAIN all : all[i].run # r
    BY <1>8, <1>9, <1>13 DEF Feed!Terminal
  <1>16. ASSUME v2' = v2 \o all PROVE Feed!FeedInv' /\ Feed!OutcomeStands
    <2>1. Adds(all)
      BY <1>5, <1>10, <1>12, <1>16 DEF Adds
    <2>2. Fits(all)
      BY <1>13, <1>14, <1>15 DEF Fits
    <2>3. Feed!NothingDangles'
      BY <1>13, <1>15, <2>1, NothingNewDangles
    <2>4. v6' \subseteq Feed!Logged(v2)
      BY <1>1 DEF Feed!FeedInv
    <2> QED BY <1>1, <1>12, <2>1, <2>2, <2>3, <2>4, ServerStep, OutcomesStand
  <1>17. ASSUME v2' = v2 PROVE Feed!FeedInv' /\ Feed!OutcomeStands
    <2>1. Adds(<<>>)
      BY <1>17 DEF Adds, Feed!FeedInv
    <2>2. Fits(<<>>)
      BY <1>13, <1>14, <1>15 DEF Fits
    <2>3. Feed!NothingDangles'
      BY <1>13, <1>15, <2>1, NothingNewDangles
    <2>4. v6' \subseteq Feed!Logged(v2)
      BY <1>1 DEF Feed!FeedInv
    <2> QED BY <1>1, <2>1, <2>2, <2>3, <2>4, ServerStep, OutcomesStand
  <1> QED BY <1>1, <1>16, <1>17

\* A run that is started by itself.
LEMMA StartRunKeepsFeed ==
  ASSUME Feed!FeedInv, NEW r \in FeedRuns, Feed!StartRun(r)
  PROVE  Feed!FeedInv' /\ Feed!OutcomeStands
  <1> DEFINE start == <<Feed!Line(r, "running")>>
  <1>1. /\ v1.status[r] = "none" /\ v1' = [v1 EXCEPT !.status[r] = "running"]
        /\ v2' = v2 \o start \/ v2' = v2
        /\ UNCHANGED <<v3, v4, v5, v6, v7>>
    BY DEF Feed!StartRun, Feed!Logs
  <1>2. /\ Feed!Line(r, "running") \in Feed!LogLines /\ Feed!Line(r, "running").at = v3
        /\ Feed!Line(r, "running").run = r /\ Feed!Line(r, "running").status = "running"
    BY DEF Feed!Line, Feed!LogLines, Feed!FeedInv
  <1>3. /\ start \in Seq(Feed!LogLines) /\ DOMAIN start = {1} /\ start[1] = Feed!Line(r, "running")
    BY <1>2
  <1>4. /\ v1 \in Feed!Memories /\ Feed!QueueIsQueued(v1) /\ Feed!LinesFitRuns
        /\ v2 \in Seq(Feed!LogLines) /\ v6 \subseteq Feed!Logged(v2)
    BY DEF Feed!FeedInv
  <1>5. r \notin Feed!Logged(v2) /\ ~Feed!HasOutcome(r)
    BY <1>1, <1>4, RunFits
  <1>6. /\ v1' \in Feed!Memories /\ v1'.up = v1.up /\ v1'.reconciled = v1.reconciled
        /\ v1'.queue = v1.queue
        /\ \A q \in FeedRuns : v1'.status[q] = IF q = r THEN "running" ELSE v1.status[q]
    BY <1>1, <1>4 DEF Feed!Memories
  <1>7. Feed!QueueIsQueued(v1')
    <2>1. \A i \in DOMAIN v1.queue : v1.queue[i] \in FeedRuns
      BY <1>4 DEF Feed!Memories
    <2> QED BY <1>1, <1>4, <1>6, <2>1 DEF Feed!QueueIsQueued
  <1> HIDE DEF start
  <1>8. ASSUME NEW new \in {start, <<>>}, v2' = v2 \o new
        PROVE  Feed!FeedInv' /\ Feed!OutcomeStands
    <2>1. /\ new \in Seq(Feed!LogLines) /\ DOMAIN new \subseteq {1}
          /\ \A i \in DOMAIN new : new[i] = Feed!Line(r, "running")
      <3>1. CASE new = start
        BY <1>3, <3>1
      <3>2. CASE new = <<>>
        BY <3>2
      <3> QED BY <1>8, <3>1, <3>2
    <2>2. Adds(new)
      BY <1>2, <1>5, <1>8, <2>1 DEF Adds
    <2>3. Fits(new)
      BY <1>1, <1>2, <1>6, <1>7, <2>1 DEF Fits
    <2>4. Feed!NothingDangles'
      BY <1>2, <1>6, <2>1, <2>2, NothingNewDangles
    <2>5. \A i \in DOMAIN new : ~Feed!HasOutcome(new[i].run)
      BY <1>2, <1>5, <2>1
    <2> QED BY <1>1, <1>4, <2>2, <2>3, <2>4, <2>5, ServerStep, OutcomesStand
  <1>9. v2 = v2 \o <<>>
    BY <1>4
  <1> QED BY <1>1, <1>8, <1>9

\* A batch, whose first runs are launched at once.
LEMMA StartBatchKeepsFeed ==
  ASSUME Feed!FeedInv, Feed!StartBatch
  PROVE  Feed!FeedInv' /\ Feed!OutcomeStands
  <1> DEFINE count == Feed!Cardinality(BatchRuns)
             status == [r \in FeedRuns |-> IF r \in BatchRuns THEN "queued" ELSE v1.status[r]]
  <1>1. PICK order \in [1 .. count -> BatchRuns] :
          /\ {order[i] : i \in DOMAIN order} = BatchRuns
          /\ Feed!Drained([v1 EXCEPT !.queue = order, !.status = status], <<>>)
    BY DEF Feed!StartBatch
  <1>2. v1 \in Feed!Memories /\ \A r \in BatchRuns : v1.status[r] = "none"
    BY DEF Feed!StartBatch, Feed!FeedInv
  <1>3. IsFiniteSet(BatchRuns) /\ count = Cardinality(BatchRuns) /\ count \in Nat
    BY FS_Subset, FS_CardinalityType, SameCount, PartsAssumption
  <1> HIDE DEF count
  <1>4. \A i, j \in 1 .. count : order[i] = order[j] => i = j
    <2>1. order \in Surjection(1 .. count, BatchRuns)
      BY <1>1 DEF Surjection
    <2>2. IsFiniteSet(1 .. count) /\ Cardinality(1 .. count) = Cardinality(BatchRuns)
      BY <1>3, FS_Interval
    <2>3. order \in Injection(1 .. count, BatchRuns)
      BY <2>1, <2>2, FS_SurjSameCardinalityImpliesInj
    <2> QED BY <2>3 DEF Injection, IsInjective
  <1> DEFINE mem == [v1 EXCEPT !.queue = order, !.status = status]
  <1>5. /\ \A r \in FeedRuns : status[r] = IF r \in BatchRuns THEN "queued" ELSE v1.status[r]
        /\ status \in [FeedRuns -> {"none", "queued", "running", "gone"} \cup Feed!Terminal]
    BY <1>2 DEF Feed!Memories
  <1>6. order \in Seq(FeedRuns) /\ DOMAIN order = 1 .. count
    BY <1>1, <1>3, PartsAssumption
  <1> HIDE DEF status
  <1>7. /\ mem \in Feed!Memories /\ mem.up = v1.up /\ mem.reconciled = v1.reconciled
        /\ mem.queue = order /\ mem.status = status
    BY <1>2, <1>5, <1>6 DEF Feed!Memories
  <1>8. Feed!QueueIsQueued(mem)
    <2>1. \A i \in DOMAIN order : status[order[i]] = "queued"
      BY <1>1, <1>5, PartsAssumption
    <2> QED BY <1>4, <1>6, <1>7, <2>1 DEF Feed!QueueIsQueued
  <1>9. Feed!Drained(mem, <<>>)
    BY <1>1
  <1> HIDE DEF mem
  <1>10. /\ \A r \in FeedRuns : mem.status[r] \in {"none", "queued"} => v1.status[r] \in {"none", "queued"}
         /\ \A r \in FeedRuns : mem.status[r] \in {"running", "gone"} => v1.status[r] = mem.status[r]
    BY <1>2, <1>5, <1>7
  <1> QED BY <1>7, <1>8, <1>9, <1>10, DrainAdds

\* A run that closes, and the run that gets its slot.
LEMMA CloseRunKeepsFeed ==
  ASSUME Feed!FeedInv, NEW r \in FeedRuns, Feed!CloseRun(r)
  PROVE  Feed!FeedInv' /\ Feed!OutcomeStands
  <1>1. PICK status \in Feed!Terminal :
          Feed!Drained([v1 EXCEPT !.status[r] = status], <<Feed!Line(r, status)>>)
    BY DEF Feed!CloseRun
  <1>2. v1.status[r] = "running" /\ v1 \in Feed!Memories /\ Feed!QueueIsQueued(v1)
    BY DEF Feed!CloseRun, Feed!FeedInv
  <1> DEFINE mem == [v1 EXCEPT !.status[r] = status]
  <1>3. /\ mem \in Feed!Memories /\ mem.up = v1.up /\ mem.reconciled = v1.reconciled
        /\ mem.queue = v1.queue
        /\ \A q \in FeedRuns : mem.status[q] = IF q = r THEN status ELSE v1.status[q]
    BY <1>2 DEF Feed!Memories
  <1>4. Feed!Drained(mem, <<Feed!Line(r, status)>>)
    BY <1>1
  <1> HIDE DEF mem
  <1>5. Feed!QueueIsQueued(mem)
    <2>1. \A i \in DOMAIN v1.queue : v1.queue[i] \in FeedRuns
      BY <1>2 DEF Feed!Memories
    <2> QED BY <1>2, <1>3, <2>1 DEF Feed!QueueIsQueued
  <1>6. /\ \A q \in FeedRuns : mem.status[q] \in {"none", "queued"} => v1.status[q] \in {"none", "queued"}
        /\ \A q \in FeedRuns : mem.status[q] \in {"running", "gone"} => v1.status[q] = mem.status[q]
    BY <1>3 DEF Feed!Terminal
  <1>7. \E q \in FeedRuns, s \in Feed!Terminal :
          <<Feed!Line(r, status)>> = <<Feed!Line(q, s)>> /\ mem.status[q] = s /\ v1.status[q] = "running"
    BY <1>2, <1>3
  <1> QED BY <1>3, <1>4, <1>5, <1>6, <1>7, DrainAdds

\* A step that adds no line and leaves the runs alone.
LEMMA NoLineAdded ==
  ASSUME Feed!FeedInv, v2' = v2
  PROVE  Adds(<<>>) /\ Feed!OutcomeStands
  BY DEF Adds, Feed!FeedInv, Feed!OutcomeStands

\* The process ends.
LEMMA StopKeepsFeed ==
  ASSUME Feed!FeedInv, Feed!ServerStops
  PROVE  Feed!FeedInv' /\ Feed!OutcomeStands
  <1> DEFINE status == [r \in FeedRuns |-> IF v1.status[r] = "none" THEN "none" ELSE "gone"]
  <1>1. /\ v1 \in Feed!Memories /\ v6 \subseteq Feed!Logged(v2)
        /\ v1' = [v1 EXCEPT !.up = FALSE, !.queue = <<>>, !.status = status]
        /\ UNCHANGED <<v2, v3, v4, v5, v6, v7>>
    BY DEF Feed!FeedInv, Feed!ServerStops
  <1>2. /\ \A r \in FeedRuns : status[r] = IF v1.status[r] = "none" THEN "none" ELSE "gone"
        /\ status \in [FeedRuns -> {"none", "queued", "running", "gone"} \cup Feed!Terminal]
    OBVIOUS
  <1> HIDE DEF status
  <1>3. v1' \in Feed!Memories /\ ~v1'.up /\ v1'.queue = <<>> /\ v1'.status = status
    <2>1. <<>> \in Seq(FeedRuns) /\ FALSE \in BOOLEAN
      OBVIOUS
    <2> QED BY <1>1, <1>2, <2>1 DEF Feed!Memories
  <1>4. Feed!QueueIsQueued(v1')
    BY <1>3 DEF Feed!QueueIsQueued
  <1>5. Fits(<<>>)
    BY <1>2, <1>3, <1>4 DEF Fits
  <1>6. Feed!NothingDangles'
    BY <1>3 DEF Feed!NothingDangles
  <1> QED BY <1>1, <1>5, <1>6, NoLineAdded, ServerStep

\* The lines of a reconcile are of now, and each stops another orphan; if it is whole, all of
\* them.
LEMMA ClosesOrphans ==
  ASSUME Feed!FeedInv, NEW orphans \in SUBSET FeedRuns, NEW lines \in Feed!Closes(orphans)
  PROVE  /\ lines \in Seq(Feed!LogLines)
         /\ \A i \in DOMAIN lines : /\ lines[i].run \in orphans /\ lines[i].status = "stopped"
                                    /\ lines[i].at = v3
         /\ \A i, j \in DOMAIN lines : lines[i].run = lines[j].run => i = j
         /\ Len(lines) = Feed!Cardinality(orphans) => orphans = {lines[i].run : i \in DOMAIN lines}
  <1>1. IsFiniteSet(orphans) /\ Feed!Cardinality(orphans) = Cardinality(orphans)
        /\ Cardinality(orphans) \in Nat
    BY FS_Subset, FS_CardinalityType, SameCount, PartsAssumption
  <1> DEFINE Orders(count) == {o \in [1 .. count -> orphans] : \A i, j \in 1 .. count : o[i] = o[j] => i = j}
             Stopped(count) ==
               {[i \in 1 .. count |-> Feed!Line(order[i], "stopped")] : order \in Orders(count)}
  <1>2. PICK count \in 0 .. Cardinality(orphans) : lines \in Stopped(count)
    <2>1. lines \in UNION {Stopped(count) : count \in 0 .. Cardinality(orphans)}
      BY <1>1 DEF Feed!Closes
    <2> HIDE DEF Stopped
    <2> QED BY <2>1
  <1>3. PICK order \in [1 .. count -> orphans] :
          /\ \A i, j \in 1 .. count : order[i] = order[j] => i = j
          /\ lines = [i \in 1 .. count |-> Feed!Line(order[i], "stopped")]
    BY <1>2
  <1> HIDE DEF Orders, Stopped
  <1>4. count \in Nat /\ \A i \in 1 .. count : order[i] \in orphans
    BY <1>1, <1>3
  <1>5. \A i \in 1 .. count :
          LET line == Feed!Line(order[i], "stopped")
          IN  /\ line \in Feed!LogLines /\ line.run = order[i] /\ line.status = "stopped" /\ line.at = v3
    <2>1. v3 \in Nat /\ \A i \in 1 .. count : order[i] \in FeedRuns
      BY <1>4 DEF Feed!FeedInv
    <2> QED BY <2>1 DEF Feed!Line, Feed!LogLines, Feed!Terminal
  <1>6. /\ lines \in Seq(Feed!LogLines) /\ DOMAIN lines = 1 .. count /\ Len(lines) = count
        /\ \A i \in 1 .. count : lines[i] = Feed!Line(order[i], "stopped")
    BY <1>3, <1>4, <1>5
  <1>7. \A i \in 1 .. count : lines[i].run = order[i] /\ lines[i].status = "stopped" /\ lines[i].at = v3
    BY <1>5, <1>6
  <1>8. ASSUME count = Cardinality(orphans)
        PROVE  orphans = {lines[i].run : i \in DOMAIN lines}
    <2>1. order \in Injection(1 .. count, orphans)
      BY <1>3 DEF Injection, IsInjective
    <2>2. Cardinality(1 .. count) = count
      BY <1>4, FS_Interval
    <2>3. order \in Surjection(1 .. count, orphans)
      BY <1>1, <1>8, <2>1, <2>2, FS_Injection
    <2>4. \A r \in orphans : \E i \in 1 .. count : order[i] = r
      BY <2>3 DEF Surjection
    <2>5. \A r \in orphans : \E i \in DOMAIN lines : lines[i].run = r
      BY <1>6, <1>7, <2>4
    <2>6. \A i \in DOMAIN lines : lines[i].run \in orphans
      BY <1>4, <1>6, <1>7
    <2> QED BY <2>5, <2>6
  <1> QED BY <1>1, <1>3, <1>4, <1>6, <1>7, <1>8

\* A run that is told to be running, and nothing else, is an orphan of the boot.
LEMMA RunningIsOrphan ==
  ASSUME Feed!FeedInv, NEW r \in FeedRuns, Feed!Told(v2, r) = "running"
  PROVE  r \in Feed!FindOrphanedRuns(v2, 0)
  <1>1. /\ v2 \in Seq(Feed!LogLines) /\ v3 \in Nat /\ Feed!LogInOrder
    BY DEF Feed!FeedInv
  <1>2. r \in Feed!Logged(v2)
    BY DEF Feed!Told, Feed!Missing
  <1> DEFINE last == Feed!NewestOf(v2, r)
  <1>3. /\ last \in DOMAIN v2 /\ v2[last].run = r /\ \A j \in DOMAIN v2 : v2[j].run = r => j <= last
    BY <1>1, <1>2, NewestIs DEF Feed!Logged
  <1>4. v2[last].status = "running"
    BY <1>2 DEF Feed!Told, Feed!Tell
  <1> HIDE DEF last
  <1>5. DOMAIN v2 = 1 .. Len(v2) /\ Len(v2) \in Nat
    BY <1>1
  <1>6. ASSUME NEW i \in DOMAIN v2, v2[i].run = r PROVE v2[i].status = "running"
    <2>1. i <= last
      BY <1>3, <1>6
    <2>2. CASE i = last
      BY <1>4, <2>2
    <2>3. CASE i < last
      BY <1>1, <1>3, <1>4, <1>6, <2>3 DEF Feed!LogInOrder
    <2> QED BY <1>3, <1>5, <2>1, <2>2, <2>3
  <1>7. v3 - v2[last].at >= 0
    <2>1. v2[last] \in Feed!LogLines
      BY <1>1, <1>3
    <2> QED BY <1>1, <1>3, <2>1 DEF Feed!LogInOrder, Feed!LogLines
  <1>8. r \in Feed!StartedBefore(v2, 0)
    BY <1>3, <1>4, <1>7 DEF Feed!StartedBefore
  <1>9. r \in Feed!Unended(v2)
    BY <1>6 DEF Feed!Unended
  <1> QED BY <1>8, <1>9 DEF Feed!FindOrphanedRuns

\* An orphan has a line and no outcome.
LEMMA OrphanHasNoEnd ==
  ASSUME NEW age, NEW r \in Feed!FindOrphanedRuns(v2, age)
  PROVE  r \in FeedRuns /\ r \in Feed!Logged(v2) /\ ~Feed!HasOutcome(r)
  <1>1. r \in Feed!StartedBefore(v2, age) /\ r \in Feed!Unended(v2)
    BY DEF Feed!FindOrphanedRuns
  <1>2. r \in FeedRuns /\ r \in Feed!Logged(v2)
    BY <1>1 DEF Feed!StartedBefore, Feed!Logged
  <1>3. ~Feed!HasOutcome(r)
    BY <1>1 DEF Feed!Unended, Feed!HasOutcome
  <1> QED BY <1>2, <1>3

\* The boot closes what a dead process left open.
LEMMA BootKeepsFeed ==
  ASSUME Feed!FeedInv, Feed!Boot
  PROVE  Feed!FeedInv' /\ Feed!OutcomeStands
  <1> DEFINE orphans == Feed!FindOrphanedRuns(v2, 0)
  <1>1. PICK lines \in (IF HasLogFile THEN Feed!Closes(orphans) ELSE {<<>>}) :
          /\ v2' = v2 \o lines
          /\ v1' = [v1 EXCEPT !.up = TRUE, !.reconciled = (Len(lines) = Feed!Cardinality(orphans))]
    BY DEF Feed!Boot
  <1>2. UNCHANGED <<v3, v4, v5, v6, v7>>
    BY DEF Feed!Boot
  <1>3. /\ v1 \in Feed!Memories /\ Feed!QueueIsQueued(v1) /\ Feed!LinesFitRuns
        /\ v6 \subseteq Feed!Logged(v2) /\ v2 \in Seq(Feed!LogLines)
    BY DEF Feed!FeedInv
  <1>4. \A r \in orphans : r \in FeedRuns /\ r \in Feed!Logged(v2) /\ ~Feed!HasOutcome(r)
    BY OrphanHasNoEnd
  <1>5. \A r \in FeedRuns : Feed!Told(v2, r) = "running" => r \in orphans
    BY RunningIsOrphan
  <1> HIDE DEF orphans
  <1>6. orphans \in SUBSET FeedRuns
    BY <1>4
  <1>7. /\ lines \in Seq(Feed!LogLines)
        /\ \A i \in DOMAIN lines : /\ lines[i].run \in orphans /\ lines[i].status = "stopped"
                                   /\ lines[i].at = v3
        /\ \A i, j \in DOMAIN lines : lines[i].run = lines[j].run => i = j
        /\ HasLogFile /\ Len(lines) = Feed!Cardinality(orphans) =>
             orphans = {lines[i].run : i \in DOMAIN lines}
    <2>1. CASE HasLogFile
      <3>1. lines \in Feed!Closes(orphans)
        BY <1>1, <2>1
      <3> QED BY <1>6, <3>1, ClosesOrphans
    <2>2. CASE ~HasLogFile
      <3>1. lines = <<>>
        BY <1>1, <2>2
      <3> QED BY <2>2, <3>1
    <2> QED BY <2>1, <2>2
  <1>8. Adds(lines)
    BY <1>1, <1>7 DEF Adds
  <1>9. /\ v1' \in Feed!Memories /\ v1'.queue = v1.queue /\ v1'.status = v1.status
        /\ v1'.reconciled = (Len(lines) = Feed!Cardinality(orphans))
    BY <1>1, <1>3 DEF Feed!Memories
  <1>10. Fits(lines)
    <2>1. Feed!QueueIsQueued(v1')
      BY <1>3, <1>9 DEF Feed!QueueIsQueued
    <2>2. ASSUME NEW r \in FeedRuns, v1.status[r] \in {"none", "queued"}, NEW i \in DOMAIN lines
          PROVE  lines[i].run # r
      BY <1>3, <1>4, <1>7, <2>2, RunFits
    <2>3. \A i \in DOMAIN lines : lines[i].status \in {"running", "stopped"}
      BY <1>7
    <2> QED BY <1>9, <2>1, <2>2, <2>3 DEF Fits
  <1>11. Feed!NothingDangles'
    <2> SUFFICES ASSUME HasLogFile, v1'.reconciled, NEW r \in FeedRuns, Feed!Told(v2', r) = "running"
                 PROVE  FALSE
      BY DEF Feed!NothingDangles
    <2>1. orphans = {lines[i].run : i \in DOMAIN lines}
      BY <1>7, <1>9
    <2>2. /\ \A i \in DOMAIN lines : Feed!Told(v2', lines[i].run) = "stopped"
          /\ \A q : q \notin {lines[i].run : i \in DOMAIN lines} => Feed!Told(v2', q) = Feed!Told(v2, q)
      <3>1. /\ \A i \in DOMAIN lines : Feed!Told(v2 \o lines, lines[i].run) = lines[i].status
            /\ \A q : q \notin {lines[i].run : i \in DOMAIN lines} =>
                      Feed!Told(v2 \o lines, q) = Feed!Told(v2, q)
        BY <1>3, <1>7, NewLinesTold
      <3> QED BY <1>1, <1>7, <3>1
    <2>3. CASE r \in orphans
      BY <2>1, <2>2, <2>3
    <2>4. CASE r \notin orphans
      BY <1>5, <2>1, <2>2, <2>4
    <2> QED BY <2>3, <2>4
  <1>12. \A i \in DOMAIN lines : ~Feed!HasOutcome(lines[i].run)
    BY <1>4, <1>7
  <1> QED BY <1>2, <1>3, <1>8, <1>10, <1>11, <1>12, ServerStep, OutcomesStand

\* The reconcile by hand, which reads the log and then appends.
LEMMA CliKeepsFeed ==
  ASSUME Feed!FeedInv, Feed!CliReads \/ \E r \in FeedRuns : Feed!CliCloses(r)
  PROVE  Feed!FeedInv' /\ Feed!OutcomeStands
  <1>1. /\ v1 \in Feed!Memories /\ Feed!QueueIsQueued(v1) /\ Feed!LinesFitRuns
        /\ v6 \subseteq Feed!Logged(v2) /\ v2 \in Seq(Feed!LogLines)
    BY DEF Feed!FeedInv
  <1>2. CASE Feed!CliReads
    <2>1. /\ v6' = Feed!FindOrphanedRuns(v2, Tolerance) /\ UNCHANGED <<v1, v2, v3, v4, v5, v7>>
      BY <1>2 DEF Feed!CliReads
    <2>2. v6' \subseteq Feed!Logged(v2)
      BY <2>1, OrphanHasNoEnd
    <2>3. Adds(<<>>) /\ Feed!OutcomeStands
      BY <2>1, NoLineAdded
    <2>4. Fits(<<>>)
      BY <1>1, <2>1 DEF Fits
    <2>5. Feed!NothingDangles'
      BY <2>1, <2>3, NothingNewDangles
    <2> QED BY <2>1, <2>2, <2>3, <2>4, <2>5, ServerStep
  <1>3. ASSUME NEW r \in FeedRuns, Feed!CliCloses(r)
        PROVE  Feed!FeedInv' /\ Feed!OutcomeStands
    <2> DEFINE line == Feed!Line(r, "stopped")
               new == <<line>>
    <2>1. /\ r \in v6 /\ v2' = Append(v2, line) /\ v6' = v6 \ {r}
          /\ UNCHANGED <<v1, v3, v4, v5, v7>>
      BY <1>3 DEF Feed!CliCloses
    <2>2. line \in Feed!LogLines /\ line.run = r /\ line.status = "stopped" /\ line.at = v3
      <3>1. v3 \in Nat
        BY DEF Feed!FeedInv
      <3> QED BY <3>1 DEF Feed!Line, Feed!LogLines, Feed!Terminal
    <2> HIDE DEF line
    <2>3. new \in Seq(Feed!LogLines) /\ DOMAIN new = {1} /\ new[1] = line /\ v2' = v2 \o new
      BY <1>1, <2>1, <2>2
    <2> HIDE DEF new
    <2>4. Adds(new)
      BY <2>2, <2>3 DEF Adds
    <2>5. r \in Feed!Logged(v2) /\ v6' \subseteq Feed!Logged(v2)
      BY <1>1, <2>1
    <2>6. v1.status[r] \notin {"none", "queued"}
      BY <1>1, <2>5, RunFits
    <2>7. Fits(new)
      BY <1>1, <2>1, <2>2, <2>3, <2>6 DEF Fits
    <2>8. Feed!NothingDangles'
      BY <2>1, <2>2, <2>3, <2>4, NothingNewDangles
    <2>9. Feed!OutcomeStands
      BY <2>1 DEF Feed!OutcomeStands
    <2> QED BY <2>1, <2>4, <2>5, <2>7, <2>8, <2>9, ServerStep
  <1> QED BY <1>2, <1>3

\* The boards and the bell, whose steps leave runs and log alone.
LEMMA BellKeepsFeed ==
  ASSUME Feed!FeedInv,
         \/ \E t \in Tickets, status \in {Feed!Missing, "open", "done"} : Feed!ChangeBoard(t, status)
         \/ Feed!Seed \/ Feed!Read
  PROVE  Feed!FeedInv' /\ Feed!OutcomeStands
  <1>1. UNCHANGED <<v1, v2, v3, v6>>
    BY DEF Feed!ChangeBoard, Feed!Seed, Feed!Read
  <1>2. v4 \in [Tickets -> {Feed!Missing, "open", "done"}] /\ Feed!BellRemembers /\ v3 \in Nat
    BY DEF Feed!FeedInv
  <1>3. v4' \in [Tickets -> {Feed!Missing, "open", "done"}]
    <2>1. ASSUME NEW t \in Tickets, NEW status \in {Feed!Missing, "open", "done"}, Feed!ChangeBoard(t, status)
          PROVE  v4' \in [Tickets -> {Feed!Missing, "open", "done"}]
      BY <1>2, <2>1 DEF Feed!ChangeBoard
    <2>2. CASE Feed!Seed \/ Feed!Read
      BY <1>2, <2>2 DEF Feed!Seed, Feed!Read
    <2> QED BY <2>1, <2>2
  <1>4. Feed!BellRemembers'
    <2>1. CASE \E t \in Tickets, status \in {Feed!Missing, "open", "done"} : Feed!ChangeBoard(t, status)
      BY <1>2, <2>1 DEF Feed!BellRemembers, Feed!ChangeBoard
    <2>2. CASE Feed!Seed \/ Feed!Read
      <3>1. v5' = [cursor |-> v3, baseline |-> v4] /\ v7' = [at |-> v3, board |-> v4]
        BY <2>2 DEF Feed!Seed, Feed!Read, Feed!ReadState, Feed!Seen
      <3> QED BY <1>2, <3>1 DEF Feed!BellRemembers
    <2> QED BY <2>1, <2>2
  <1>5. /\ Feed!LogInOrder' /\ Feed!QueueIsQueued(v1') /\ Feed!LinesFitRuns' /\ Feed!NothingDangles'
        /\ v6' \subseteq Feed!Logged(v2') /\ v1' \in Feed!Memories /\ v2' \in Seq(Feed!LogLines)
    <2>1. /\ Feed!LogInOrder /\ Feed!QueueIsQueued(v1) /\ Feed!LinesFitRuns /\ Feed!NothingDangles
          /\ v6 \subseteq Feed!Logged(v2) /\ v1 \in Feed!Memories /\ v2 \in Seq(Feed!LogLines)
      BY DEF Feed!FeedInv
    <2> QED BY <1>1, <2>1 DEF Feed!LogInOrder, Feed!LinesFitRuns, Feed!HasOutcome, Feed!NothingDangles
  <1> QED BY <1>1, <1>2, <1>3, <1>4, <1>5, NoLineAdded DEF Feed!FeedInv

\* The clock, which leaves everything else alone.
LEMMA TickKeepsFeed ==
  ASSUME Feed!FeedInv, Feed!Tick \/ UNCHANGED Feed!feedVars
  PROVE  Feed!FeedInv' /\ Feed!OutcomeStands
  <1>1. UNCHANGED <<v1, v2, v4, v5, v6, v7>> /\ v3' \in {v3, v3 + 1} /\ v3 \in Nat
    BY DEF Feed!Tick, Feed!feedVars, Feed!FeedInv
  <1>2. /\ Feed!LogInOrder /\ Feed!QueueIsQueued(v1) /\ Feed!LinesFitRuns /\ Feed!NothingDangles
        /\ v6 \subseteq Feed!Logged(v2) /\ v1 \in Feed!Memories /\ v2 \in Seq(Feed!LogLines)
        /\ v4 \in [Tickets -> {Feed!Missing, "open", "done"}] /\ Feed!BellRemembers
    BY DEF Feed!FeedInv
  <1>3. v3' \in Nat /\ \A i \in DOMAIN v2' : v2'[i].at <= v3'
    <2>1. ASSUME NEW i \in DOMAIN v2 PROVE v2[i].at \in Nat /\ v2[i].at <= v3
      <3>1. v2[i] \in Feed!LogLines
        BY <1>2
      <3> QED BY <1>2, <3>1 DEF Feed!LogLines, Feed!LogInOrder
    <2> QED BY <1>1, <2>1
  <1>4. Feed!LogInOrder'
    BY <1>1, <1>2, <1>3 DEF Feed!LogInOrder
  <1>5. Feed!LinesFitRuns' /\ Feed!NothingDangles' /\ Feed!BellRemembers'
    BY <1>1, <1>2 DEF Feed!LinesFitRuns, Feed!HasOutcome, Feed!NothingDangles, Feed!BellRemembers
  <1> QED BY <1>1, <1>2, <1>3, <1>4, <1>5, NoLineAdded DEF Feed!FeedInv

\* The invariant of the log and its readers is inductive, and no outcome is taken back.
LEMMA FeedStays ==
  ASSUME Feed!FeedInv, [Feed!FeedNext]_(Feed!feedVars)
  PROVE  Feed!FeedInv' /\ Feed!OutcomeStands
  <1>1. CASE \E r \in FeedRuns : Feed!StartRun(r)
    BY <1>1, StartRunKeepsFeed
  <1>2. CASE \E r \in FeedRuns : Feed!CloseRun(r)
    BY <1>2, CloseRunKeepsFeed
  <1>3. CASE Feed!CliReads \/ \E r \in FeedRuns : Feed!CliCloses(r)
    BY <1>3, CliKeepsFeed
  <1>4. CASE Feed!StartBatch
    BY <1>4, StartBatchKeepsFeed
  <1>5. CASE Feed!ServerStops
    BY <1>5, StopKeepsFeed
  <1>6. CASE Feed!Boot
    BY <1>6, BootKeepsFeed
  <1>7. CASE \/ \E t \in Tickets, status \in {Feed!Missing, "open", "done"} : Feed!ChangeBoard(t, status)
             \/ Feed!Seed \/ Feed!Read
    BY <1>7, BellKeepsFeed
  <1>8. CASE Feed!Tick \/ UNCHANGED Feed!feedVars
    BY <1>8, TickKeepsFeed
  <1> QED BY <1>1, <1>2, <1>3, <1>4, <1>5, <1>6, <1>7, <1>8 DEF Feed!FeedNext, Feed!Missing

\* The log starts empty.
LEMMA FeedAtFirst == Feed!FeedInit => Feed!FeedInv
  <1> SUFFICES ASSUME Feed!FeedInit PROVE Feed!FeedInv
    OBVIOUS
  <1>1. /\ v1 = [up |-> TRUE, reconciled |-> TRUE, queue |-> <<>>, status |-> [r \in FeedRuns |-> "none"]]
        /\ v2 = <<>> /\ v3 = 0 /\ v4 = [t \in Tickets |-> Feed!Missing] /\ v6 = {}
        /\ v5 = [cursor |-> -1, baseline |-> [t \in Tickets |-> Feed!Missing]]
    BY DEF Feed!FeedInit
  <1>2. v1 \in Feed!Memories /\ Feed!QueueIsQueued(v1)
    <2>1. <<>> \in Seq(FeedRuns)
      OBVIOUS
    <2> QED BY <1>1, <2>1 DEF Feed!Memories, Feed!QueueIsQueued
  <1>3. v2 \in Seq(Feed!LogLines) /\ Feed!LogInOrder /\ DOMAIN v2 = {} /\ Feed!Logged(v2) = {}
    BY <1>1 DEF Feed!LogInOrder, Feed!Logged
  <1>4. Feed!LinesFitRuns
    BY <1>3 DEF Feed!LinesFitRuns, Feed!HasOutcome
  <1>5. Feed!BellRemembers /\ v4 \in [Tickets -> {Feed!Missing, "open", "done"}]
    BY <1>1 DEF Feed!BellRemembers
  <1>6. Feed!NothingDangles
    BY <1>3 DEF Feed!NothingDangles, Feed!Told, Feed!Missing
  <1> QED BY <1>1, <1>2, <1>3, <1>4, <1>5, <1>6 DEF Feed!FeedInv

\* The bell marks what ended, appeared or was done since it was read, and nothing else.
LEMMA BellTold ==
  ASSUME Feed!FeedInv
  PROVE  Feed!BellTellsNews
  <1> SUFFICES ASSUME v5.cursor >= 0
               PROVE  /\ Feed!UnreadRuns = {r \in Feed!Singles : \E i \in DOMAIN v2 :
                            v2[i].run = r /\ v2[i].status \in Feed!Terminal /\ v2[i].at > v7.at}
                      /\ Feed!UnreadWave => \E i \in DOMAIN v2 :
                            v2[i].run \in BatchRuns /\ v2[i].status \in Feed!Terminal /\ v2[i].at > v7.at
                      /\ Feed!Added = {t \in Tickets : v7.board[t] = Feed!Missing /\ v4[t] # Feed!Missing}
                      /\ Feed!DoneNow = {t \in Tickets : v7.board[t] = "open" /\ v4[t] = "done"}
    BY DEF Feed!BellTellsNews
  <1>1. /\ v2 \in Seq(Feed!LogLines) /\ Feed!LogInOrder /\ Feed!BellRemembers
    BY DEF Feed!FeedInv
  <1>2. /\ v5.cursor \in Nat /\ v7.at = v5.cursor /\ v7.board = v5.baseline
        /\ v5.baseline \in [Tickets -> {Feed!Missing, "open", "done"}]
    BY <1>1 DEF Feed!BellRemembers
  <1>3. ASSUME NEW r, r \in Feed!Logged(v2)
        PROVE  \E i \in DOMAIN v2 : /\ v2[i].run = r /\ Feed!Tell(v2, r).status = v2[i].status
                                    /\ Feed!Tell(v2, r).at = v2[i].at
                                    /\ \A j \in DOMAIN v2 : v2[j].run = r => j <= i
    <2>1. PICK k \in DOMAIN v2 : v2[k].run = r
      BY <1>3 DEF Feed!Logged
    <2>2. /\ Feed!NewestOf(v2, r) \in DOMAIN v2 /\ v2[Feed!NewestOf(v2, r)].run = r
          /\ \A j \in DOMAIN v2 : v2[j].run = r => j <= Feed!NewestOf(v2, r)
      BY <1>1, <2>1, NewestIs
    <2> QED BY <2>2 DEF Feed!Tell
  <1>4. ASSUME NEW r, Feed!Told(v2, r) \in Feed!Terminal
        PROVE  r \in Feed!Logged(v2) /\ Feed!Tell(v2, r).status \in Feed!Terminal
    BY <1>4 DEF Feed!Told, Feed!Terminal, Feed!Missing
  <1>5. ASSUME NEW r, NEW i \in DOMAIN v2, v2[i].run = r, v2[i].status \in Feed!Terminal, v2[i].at > v7.at
        PROVE  Feed!Told(v2, r) \in Feed!Terminal /\ Feed!Tell(v2, r).at > v5.cursor
    <2>1. r \in Feed!Logged(v2)
      BY <1>5 DEF Feed!Logged
    <2>2. PICK last \in DOMAIN v2 : /\ v2[last].run = r /\ Feed!Tell(v2, r).status = v2[last].status
                                    /\ Feed!Tell(v2, r).at = v2[last].at /\ i <= last
      BY <1>3, <1>5, <2>1
    <2>3. /\ v2[i].at \in Nat /\ v2[last].at \in Nat
          /\ v2[last].status \in {"running"} \cup Feed!Terminal
      <3>1. v2[i] \in Feed!LogLines /\ v2[last] \in Feed!LogLines
        BY <1>1
      <3> QED BY <3>1 DEF Feed!LogLines
    <2>4. i = last \/ i < last
      BY <1>1, <2>2
    <2>5. v2[last].status \in Feed!Terminal /\ v2[i].at <= v2[last].at
      BY <1>1, <1>5, <2>2, <2>3, <2>4 DEF Feed!LogInOrder, Feed!Terminal
    <2> QED BY <1>2, <1>5, <2>1, <2>2, <2>3, <2>5 DEF Feed!Told
  <1>6. Feed!UnreadRuns = {r \in Feed!Singles : \E i \in DOMAIN v2 :
          v2[i].run = r /\ v2[i].status \in Feed!Terminal /\ v2[i].at > v7.at}
    <2>1. ASSUME NEW r \in Feed!Singles, Feed!Told(v2, r) \in Feed!Terminal, Feed!Tell(v2, r).at > v5.cursor
          PROVE  \E i \in DOMAIN v2 : v2[i].run = r /\ v2[i].status \in Feed!Terminal /\ v2[i].at > v7.at
      BY <1>2, <1>3, <1>4, <2>1
    <2> QED BY <1>5, <2>1 DEF Feed!UnreadRuns, Feed!Finished
  <1>7. ASSUME Feed!UnreadWave
        PROVE  \E i \in DOMAIN v2 : v2[i].run \in BatchRuns /\ v2[i].status \in Feed!Terminal /\ v2[i].at > v7.at
    <2>1. PICK r \in Feed!InBatch : Feed!Tell(v2, r).at > v5.cursor
      BY <1>7 DEF Feed!UnreadWave
    <2>2. r \in BatchRuns /\ Feed!Told(v2, r) \in Feed!Terminal
      BY <1>7, <2>1 DEF Feed!UnreadWave, Feed!WaveDone, Feed!InBatch
    <2> QED BY <1>2, <1>3, <1>4, <2>1, <2>2
  <1>8. Feed!Added = {t \in Tickets : v7.board[t] = Feed!Missing /\ v4[t] # Feed!Missing}
    BY <1>2 DEF Feed!Added
  <1>9. Feed!DoneNow = {t \in Tickets : v7.board[t] = "open" /\ v4[t] = "done"}
    BY <1>2 DEF Feed!DoneNow, Feed!Missing
  <1> QED BY <1>6, <1>7, <1>8, <1>9

-----------------------------------------------------------------------------
(***************************************************************************)
(* AuthFailures: v2 is the monitor, v3 the log, v5 the failures of each    *)
(* window, and v6 the bounds, the last window among them.                  *)
(***************************************************************************)
\* The instance counts as this module does.
LEMMA SameAuthCount == \A S : Auth!Cardinality(S) = Cardinality(S)
  BY DEF Auth!Cardinality, Cardinality

\* The greatest of some numbers, none above a bound, is one of them.
LEMMA GreatestIs ==
  ASSUME NEW N \in Nat, NEW S \in SUBSET (0 .. N), S # {}
  PROVE  /\ Auth!Max(S) \in S /\ \A k \in S : k <= Auth!Max(S)
  <1> DEFINE T == {k \in 1 .. N + 1 : k - 1 \in S}
  <1>1. T \in SUBSET (1 .. N + 1) /\ T # {} /\ N + 1 \in Nat
    <2>1. PICK k \in S : TRUE
      OBVIOUS
    <2>2. k \in 0 .. N
      OBVIOUS
    <2>3. k + 1 \in 1 .. N + 1 /\ k + 1 - 1 = k
      BY <2>2
    <2>4. k + 1 \in T
      BY <2>3
    <2>5. T # {}
      BY <2>4
    <2> QED BY <2>5
  <1>2. PICK n \in T : \A k \in T : k <= n
    <2> HIDE DEF T
    <2> QED BY <1>1, LastAndFirst
  <1>3. n - 1 \in S /\ \A k \in S : k <= n - 1
    <2>1. n \in 1 .. N + 1 /\ n - 1 \in S
      BY <1>2
    <2>2. ASSUME NEW k \in S PROVE k <= n - 1
      <3>1. k \in 0 .. N /\ k + 1 \in T
        OBVIOUS
      <3>2. k + 1 <= n
        BY <1>2, <3>1
      <3> QED BY <2>1, <3>1, <3>2
    <2> QED BY <2>1, <2>2
  <1>4. \E m \in S : \A k \in S : m >= k
    BY <1>3
  <1>5. \A m \in S, k \in S : m >= k <=> k <= m
    OBVIOUS
  <1> QED BY <1>4, <1>5 DEF Auth!Max

\* A failure counts in its window, and what was told of before still holds.
LEMMA RecordKeepsAuth ==
  ASSUME Auth!AuthInv, Auth!Record
  PROVE  Auth!AuthInv'
  <1> DEFINE open == Auth!Opened
             w == open.window
             m == [open EXCEPT !.count = open.count + 1]
             alert == ~m.alerted /\ m.count >= Threshold
             failed == Auth!Line("failed", m.window, m.count)
             crossed == Auth!Line("threshold", m.window, m.count)
             lines == (IF m.count <= DurableCap THEN <<failed>> ELSE <<>>)
             alerts == (IF alert THEN <<crossed>> ELSE <<>>)
  <1>1. /\ v6 \in [bad : Nat, windows : 0..MaxWindows, other : Nat, boots : Nat]
        /\ v5 \in [1..MaxWindows -> Nat] /\ \A x \in 1..MaxWindows : x > v6.windows => v5[x] = 0
        /\ v2 # Quiet => /\ v2 \in Auth!Windows /\ v2.window = v6.windows /\ v6.windows >= 1
                        /\ v2.count = v5[v2.window]
        /\ v3 \in Seq(Auth!LogLines) /\ \A i \in DOMAIN v3 : Auth!Tells(v3[i])
        /\ \A i, j \in DOMAIN v3 : v3[i].event = "failed" /\ v3[i] = v3[j] => i = j
    BY DEF Auth!AuthInv
  <1>2. MaxWindows \in Nat /\ WindowTicks \in Int
    BY PartsAssumption
  <1>3. /\ m.window <= MaxWindows
        /\ v2' = [m EXCEPT !.alerted = m.alerted \/ alert]
        /\ v3' = v3 \o lines \o alerts
        /\ v5' = [v5 EXCEPT ![m.window] = v5[m.window] + 1]
        /\ v6' = [v6 EXCEPT !.bad = v6.bad + 1, !.windows = m.window]
    <2>1. m.window <= MaxWindows
      BY DEF Auth!Record
    <2>2. v2' = [m EXCEPT !.alerted = m.alerted \/ alert]
      BY DEF Auth!Record
    <2>3. v3' = v3 \o lines \o alerts
      BY DEF Auth!Record
    <2>4. v5' = [v5 EXCEPT ![m.window] = v5[m.window] + 1]
      BY DEF Auth!Record
    <2>5. v6' = [v6 EXCEPT !.bad = v6.bad + 1, !.windows = m.window]
      BY DEF Auth!Record
    <2> QED BY <2>1, <2>2, <2>3, <2>4, <2>5
  <1>4. v6.windows \in Nat /\ v6.windows <= MaxWindows /\ v6.bad \in Nat
    BY <1>1, <1>2
  <1>5. /\ open \in Auth!Windows /\ w >= 1 /\ w \in {v6.windows, v6.windows + 1}
        /\ w <= MaxWindows => w \in 1 .. MaxWindows /\ open.count = v5[w]
    <2>1. CASE v2 # Quiet /\ v2.left > 0
      <3>1. open = v2 /\ w = v6.windows
        BY <1>1, <2>1 DEF Auth!Opened
      <3> QED BY <1>4, <1>1, <1>2, <2>1, <3>1
    <2>2. CASE ~(v2 # Quiet /\ v2.left > 0)
      <3>1. open = [window |-> v6.windows + 1, count |-> 0, alerted |-> FALSE, left |-> WindowTicks]
        BY <2>2 DEF Auth!Opened
      <3>2. open \in Auth!Windows /\ w = v6.windows + 1 /\ open.count = 0
        BY <1>4, <1>2, <3>1 DEF Auth!Windows
      <3> QED BY <1>4, <1>1, <1>2, <3>2
    <2> QED BY <2>1, <2>2
  <1> HIDE DEF open
  <1>6. /\ m \in Auth!Windows /\ m.window = w /\ m.count = open.count + 1 /\ m.alerted = open.alerted
    BY <1>5 DEF Auth!Windows
  <1> HIDE DEF w, m
  <1>7. w \in 1 .. MaxWindows /\ m.count = v5[w] + 1 /\ v5[w] \in Nat
    BY <1>1, <1>3, <1>5, <1>6
  <1>8. /\ v6' \in [bad : Nat, windows : 0..MaxWindows, other : Nat, boots : Nat]
        /\ v6'.windows = w
    <2>1. v6.bad + 1 \in Nat /\ w \in 0..MaxWindows
      BY <1>4, <1>7
    <2>2. v6' = [v6 EXCEPT !.bad = v6.bad + 1, !.windows = w]
      BY <1>3, <1>6
    <2> QED BY <1>1, <2>1, <2>2
  <1>9. /\ v5' \in [1..MaxWindows -> Nat]
        /\ \A x \in 1..MaxWindows : v5'[x] = IF x = w THEN v5[x] + 1 ELSE v5[x]
    BY <1>1, <1>3, <1>6, <1>7
  <1>10. \A x \in 1..MaxWindows : x > v6'.windows => v5'[x] = 0
    <2> SUFFICES ASSUME NEW x \in 1..MaxWindows, x > w PROVE v5'[x] = 0
      BY <1>8
    <2>1. x > v6.windows
      BY <1>4, <1>5, <1>7
    <2> QED BY <1>1, <1>7, <1>9, <2>1
  <1>11. /\ v2' \in Auth!Windows /\ v2'.window = w /\ v2'.count = v5'[w]
         /\ w \in 1..v6'.windows
    <2>1. m.alerted \/ alert \in BOOLEAN
      BY <1>6 DEF Auth!Windows
    <2>2. v2' \in Auth!Windows /\ v2'.window = w /\ v2'.count = m.count
      BY <1>3, <1>6, <2>1 DEF Auth!Windows
    <2> QED BY <1>7, <1>8, <1>9, <2>2
  <1>12. /\ failed \in Auth!LogLines /\ failed.event = "failed" /\ failed.window = w /\ failed.count = m.count
         /\ crossed \in Auth!LogLines /\ crossed.event = "threshold" /\ crossed.window = w
         /\ crossed.count = m.count
    BY <1>2, <1>6, <1>7 DEF Auth!Line, Auth!LogLines
  <1> HIDE DEF failed, crossed, alert
  <1>13. /\ lines \in Seq(Auth!LogLines) /\ Len(lines) \in {0, 1} /\ \A i \in 1 .. Len(lines) : lines[i] = failed
         /\ alerts \in Seq(Auth!LogLines) /\ Len(alerts) \in {0, 1} /\ \A i \in 1 .. Len(alerts) : alerts[i] = crossed
    <2>1. /\ <<failed>> \in Seq(Auth!LogLines) /\ Len(<<failed>>) = 1 /\ \A i \in 1 .. 1 : <<failed>>[i] = failed
          /\ <<crossed>> \in Seq(Auth!LogLines) /\ Len(<<crossed>>) = 1 /\ \A i \in 1 .. 1 : <<crossed>>[i] = crossed
          /\ <<>> \in Seq(Auth!LogLines) /\ Len(<<>>) = 0
      BY <1>12
    <2>2. \A i \in 1 .. 0 : FALSE
      OBVIOUS
    <2> QED BY <2>1, <2>2
  <1> HIDE DEF lines, alerts
  <1>14. /\ v3' \in Seq(Auth!LogLines) /\ Len(v3') = Len(v3) + Len(lines) + Len(alerts)
         /\ \A i \in 1 .. Len(v3') :
              v3'[i] = IF i <= Len(v3) THEN v3[i]
                       ELSE IF i <= Len(v3) + Len(lines) THEN lines[i - Len(v3)]
                       ELSE alerts[i - Len(v3) - Len(lines)]
    BY SMTT(30), <1>1, <1>3, <1>13
  <1>15. /\ Len(v3) \in Nat /\ DOMAIN v3 = 1 .. Len(v3) /\ Len(v3') \in Nat /\ DOMAIN v3' = 1 .. Len(v3')
    BY <1>1, <1>14
  <1>16. \A i \in DOMAIN v3' : \/ i \in DOMAIN v3 /\ v3'[i] = v3[i]
                               \/ i = Len(v3) + 1 /\ v3'[i] = failed
                               \/ v3'[i] = crossed
    <2> TAKE i \in DOMAIN v3'
    <2>1. i \in Int /\ 1 <= i /\ i <= Len(v3) + Len(lines) + Len(alerts)
      BY <1>14, <1>15
    <2>2. CASE i <= Len(v3)
      BY <1>14, <1>15, <2>1, <2>2
    <2>3. CASE Len(v3) < i /\ i <= Len(v3) + Len(lines)
      <3>1. Len(lines) = 1 /\ i = Len(v3) + 1 /\ i - Len(v3) = 1
        BY <1>13, <1>15, <2>1, <2>3
      <3>2. v3'[i] = lines[i - Len(v3)]
        BY <1>14, <1>15, <2>1, <2>3
      <3> QED BY <1>13, <3>1, <3>2
    <2>4. CASE Len(v3) + Len(lines) < i
      <3>1. Len(alerts) = 1 /\ i - Len(v3) - Len(lines) = 1
        BY <1>13, <1>15, <2>1, <2>4
      <3>2. ~(i <= Len(v3)) /\ ~(i <= Len(v3) + Len(lines))
        BY <1>13, <1>15, <2>1, <2>4
      <3>3. v3'[i] = alerts[i - Len(v3) - Len(lines)]
        BY <1>14, <1>15, <2>1, <3>2
      <3> QED BY <1>13, <3>1, <3>3
    <2> QED BY <1>13, <1>15, <2>1, <2>2, <2>3, <2>4
  <1>17. v6.windows <= w
    BY <1>4, <1>5, <1>7
  <1>18. \A x \in 1..MaxWindows : v5[x] \in Nat /\ v5'[x] \in Nat /\ v5[x] <= v5'[x]
    BY <1>1, <1>9
  <1>19. ASSUME NEW i \in DOMAIN v3' PROVE Auth!Tells(v3[i])'
    <2>1. ASSUME i \in DOMAIN v3, v3'[i] = v3[i] PROVE Auth!Tells(v3[i])'
      <3>1. CASE v3[i].event = "other"
        BY <2>1, <3>1 DEF Auth!Tells
      <3>2. CASE v3[i].window \in 1..v6.windows /\ v3[i].count \in 1..v5[v3[i].window]
        <4>1. v3[i].window \in 1..MaxWindows /\ v3[i].window \in 1..v6'.windows
          BY <1>4, <1>2, <1>7, <1>8, <1>17, <3>2
        <4>2. v3[i].count \in 1..v5'[v3[i].window]
          BY <1>18, <3>2, <4>1
        <4> QED BY <2>1, <4>1, <4>2 DEF Auth!Tells
      <3> QED BY <1>1, <2>1, <3>1, <3>2 DEF Auth!Tells
    <2>2. ASSUME v3'[i].window = w, v3'[i].count = m.count PROVE Auth!Tells(v3[i])'
      <3>1. w \in 1..v6'.windows /\ m.count = v5'[w] /\ m.count \in 1..v5'[w]
        BY <1>7, <1>9, <1>11
      <3> QED BY <2>2, <3>1 DEF Auth!Tells
    <2> QED BY <1>12, <1>16, <2>1, <2>2
  <1>20. ASSUME NEW i \in DOMAIN v3', NEW j \in DOMAIN v3', v3'[i].event = "failed", v3'[i] = v3'[j]
         PROVE  i = j
    <2>1. ASSUME NEW k \in DOMAIN v3, v3[k] = failed PROVE FALSE
      <3>1. v3[k].count \in 1..v5[w]
        BY <1>1, <1>12, <2>1 DEF Auth!Tells
      <3> QED BY <1>7, <1>12, <2>1, <3>1
    <2>2. v3'[j].event = "failed"
      BY <1>20
    <2> QED BY <1>1, <1>12, <1>16, <1>20, <2>1, <2>2
  <1> QED BY <1>8, <1>9, <1>10, <1>11, <1>14, <1>19, <1>20 DEF Auth!AuthInv

\* A line of anything else, a tick, a restart and what is served leave the failures alone.
LEMMA AuthStays ==
  ASSUME Auth!AuthInv, [Auth!AuthNext]_(Auth!authVars)
  PROVE  Auth!AuthInv'
  <1>1. /\ v6 \in [bad : Nat, windows : 0..MaxWindows, other : Nat, boots : Nat]
        /\ v5 \in [1..MaxWindows -> Nat] /\ \A x \in 1..MaxWindows : x > v6.windows => v5[x] = 0
        /\ v2 # Quiet => /\ v2 \in Auth!Windows /\ v2.window = v6.windows /\ v6.windows >= 1
                        /\ v2.count = v5[v2.window]
        /\ v3 \in Seq(Auth!LogLines) /\ \A i \in DOMAIN v3 : Auth!Tells(v3[i])
        /\ \A i, j \in DOMAIN v3 : v3[i].event = "failed" /\ v3[i] = v3[j] => i = j
    BY DEF Auth!AuthInv
  <1>2. CASE Auth!WrongToken \/ \E ip \in Addresses : Auth!RefusedUnread(ip)
    BY <1>2, RecordKeepsAuth DEF Auth!WrongToken, Auth!RefusedUnread
  <1>3. CASE UNCHANGED <<v2, v3, v5, v6>>
    BY <1>3 DEF Auth!AuthInv, Auth!Tells
  <1>4. CASE Auth!Tick
    <2>1. v2' = Auth!Less(v2) /\ UNCHANGED <<v3, v5, v6>>
      BY <1>4 DEF Auth!Tick
    <2>2. v2' # Quiet => v2' \in Auth!Windows /\ v2'.window = v6.windows /\ v6.windows >= 1
                         /\ v2'.count = v5[v2'.window]
      BY <1>1, <2>1 DEF Auth!Less, Auth!Windows
    <2> QED BY <1>1, <2>1, <2>2 DEF Auth!AuthInv, Auth!Tells
  <1>5. CASE Auth!ServerRestarts
    <2>1. v2' = Quiet /\ UNCHANGED <<v3, v5>> /\ v6' = [v6 EXCEPT !.boots = v6.boots + 1]
      BY <1>5 DEF Auth!ServerRestarts
    <2>2. v6' \in [bad : Nat, windows : 0..MaxWindows, other : Nat, boots : Nat] /\ v6'.windows = v6.windows
      BY <1>1, <2>1
    <2> QED BY <1>1, <2>1, <2>2 DEF Auth!AuthInv, Auth!Tells
  <1>6. CASE Auth!OtherLine
    <2> DEFINE line == Auth!Line("other", 0, 0)
    <2>1. v3' = Append(v3, line) /\ UNCHANGED <<v2, v5>> /\ v6' = [v6 EXCEPT !.other = v6.other + 1]
      BY <1>6 DEF Auth!OtherLine
    <2>2. v6' \in [bad : Nat, windows : 0..MaxWindows, other : Nat, boots : Nat] /\ v6'.windows = v6.windows
      BY SMTT(30), <1>1, <2>1
    <2>3. line \in Auth!LogLines /\ line.event = "other"
      BY DEF Auth!Line, Auth!LogLines
    <2> HIDE DEF line
    <2>4. /\ v3' \in Seq(Auth!LogLines)
          /\ \A i \in DOMAIN v3' : (i \in DOMAIN v3 /\ v3'[i] = v3[i]) \/ v3'[i].event = "other"
      BY <1>1, <2>1, <2>3
    <2>5. ASSUME NEW i \in DOMAIN v3' PROVE Auth!Tells(v3[i])'
      <3>1. CASE v3'[i].event = "other"
        BY <3>1 DEF Auth!Tells
      <3>2. CASE i \in DOMAIN v3 /\ v3'[i] = v3[i]
        <4>1. Auth!Tells(v3[i])
          BY <1>1, <3>2
        <4> QED BY <2>1, <2>2, <3>2, <4>1 DEF Auth!Tells
      <3> QED BY <2>4, <3>1, <3>2
    <2>6. \A i, j \in DOMAIN v3' : v3'[i].event = "failed" /\ v3'[i] = v3'[j] => i = j
      BY <1>1, <2>4
    <2> QED BY <1>1, <2>1, <2>2, <2>4, <2>5, <2>6 DEF Auth!AuthInv
  <1> QED BY <1>2, <1>3, <1>4, <1>5, <1>6
       DEF Auth!AuthNext, Auth!authVars, Auth!Served, Auth!ComesBack

\* There are no failures at first.
LEMMA AuthAtFirst == Auth!AuthInit => Auth!AuthInv
  <1> SUFFICES ASSUME Auth!AuthInit PROVE Auth!AuthInv
    OBVIOUS
  <1>1. /\ v2 = Quiet /\ v3 = <<>> /\ v5 = [w \in 1..MaxWindows |-> 0]
        /\ v6 = [bad |-> 0, windows |-> 0, other |-> 0, boots |-> 0]
    BY DEF Auth!AuthInit
  <1>2. v6 \in [bad : Nat, windows : 0..MaxWindows, other : Nat, boots : Nat]
    <2>1. 0 \in 0..MaxWindows
      BY PartsAssumption
    <2> QED BY <1>1, <2>1
  <1>3. v3 \in Seq(Auth!LogLines) /\ DOMAIN v3 = {}
    BY <1>1
  <1> QED BY <1>1, <1>2, <1>3 DEF Auth!AuthInv

\* The failures the bell counts are ones there were: the lines of a window have different
\* counts, and the monitor's count is that of its window.
LEMMA FailuresTold ==
  ASSUME Auth!AuthInv
  PROVE  Auth!BellTellsFailures
  <1>1. /\ v5 \in [1..MaxWindows -> Nat]
        /\ v2 # Quiet => v2.count = v5[v2.window]
        /\ v3 \in Seq(Auth!LogLines) /\ \A i \in DOMAIN v3 : Auth!Tells(v3[i])
        /\ \A i, j \in DOMAIN v3 : v3[i].event = "failed" /\ v3[i] = v3[j] => i = j
    BY DEF Auth!AuthInv
  <1> DEFINE tail == Auth!ActivityTail
             low == IF Len(v3) > TailLines THEN Len(v3) - TailLines + 1 ELSE 1
             high == Len(v3)
  <1>2. Len(v3) \in Nat /\ DOMAIN v3 = 1 .. Len(v3)
    BY <1>1
  <1>3. tail = SubSeq(v3, low, high) /\ low \in Nat \ {0} /\ high \in Int /\ high <= Len(v3)
    BY <1>2, PartsAssumption DEF Auth!ActivityTail
  <1> HIDE DEF tail, low, high
  <1>4. /\ SubSeq(v3, low, high) \in Seq(Auth!LogLines)
        /\ Len(SubSeq(v3, low, high)) = IF low <= high THEN high - low + 1 ELSE 0
        /\ \A i \in 1 .. high - low + 1 :
             low + i - 1 \in DOMAIN v3 /\ SubSeq(v3, low, high)[i] = v3[low + i - 1]
    BY <1>1, <1>3, PartOf
  <1>5. tail \in Seq(Auth!LogLines) /\ DOMAIN tail \subseteq Int /\ IsFiniteSet(DOMAIN tail)
    <2>1. tail \in Seq(Auth!LogLines)
      BY <1>3, <1>4
    <2>2. DOMAIN tail = 1 .. Len(tail) /\ Len(tail) \in Nat
      BY <2>1
    <2> QED BY <2>1, <2>2, FS_Interval
  <1>6. \A i \in DOMAIN tail : low + i - 1 \in DOMAIN v3 /\ tail[i] = v3[low + i - 1]
    <2> TAKE i \in DOMAIN tail
    <2>1. i \in 1 .. high - low + 1
      BY <1>3, <1>4
    <2> QED BY <1>3, <1>4, <2>1
  <1>7. \A i, j \in DOMAIN tail : tail[i].event = "failed" /\ tail[i] = tail[j] => i = j
    <2> SUFFICES ASSUME NEW i \in DOMAIN tail, NEW j \in DOMAIN tail, tail[i].event = "failed", tail[i] = tail[j]
                 PROVE  i = j
      OBVIOUS
    <2>1. low + i - 1 = low + j - 1
      BY <1>1, <1>6
    <2>2. i \in Int /\ j \in Int /\ low \in Int
      BY <1>3, <1>5
    <2> QED BY <2>1, <2>2
  <1>8. ASSUME NEW w \in 1..MaxWindows, NEW i \in DOMAIN tail, tail[i].event # "other", tail[i].window = w
        PROVE  tail[i].count \in 1..v5[w]
    BY <1>1, <1>6, <1>8 DEF Auth!Tells
  <1>9. ASSUME NEW w \in 1..MaxWindows
        PROVE  Auth!Among("failed", w) \in 0..v5[w]
    <2> DEFINE S == {i \in DOMAIN tail : tail[i].event = "failed" /\ tail[i].window = w}
               f == [i \in S |-> tail[i].count]
    <2>1. v5[w] \in Nat /\ IsFiniteSet(1..v5[w]) /\ Cardinality(1..v5[w]) = v5[w]
      BY <1>1, FS_Interval
    <2>2. \A i \in S : tail[i].count \in 1..v5[w]
      BY <1>8
    <2>3. ASSUME NEW i \in S, NEW j \in S, tail[i].count = tail[j].count PROVE i = j
      <3>1. tail[i] \in Auth!LogLines /\ tail[j] \in Auth!LogLines
        BY <1>5
      <3>2. tail[i] = tail[j]
        BY <2>3, <3>1 DEF Auth!LogLines
      <3> QED BY <1>7, <3>2
    <2>4. f \in Injection(S, 1..v5[w])
      BY <2>2, <2>3 DEF Injection, IsInjective
    <2> HIDE DEF f
    <2>5. IsFiniteSet(S) /\ Cardinality(S) <= Cardinality(1..v5[w])
      <3> HIDE DEF S
      <3> QED BY <2>1, <2>4, FS_Injection
    <2>6. Cardinality(S) \in Nat
      BY <2>5, FS_CardinalityType
    <2>7. Auth!Among("failed", w) = Cardinality(S)
      BY SameAuthCount DEF Auth!Among, tail
    <2> QED BY <2>1, <2>5, <2>6, <2>7
  <1>10. ASSUME NEW w \in 1..MaxWindows
         PROVE  /\ Auth!FailuresByWindow(w) \in 0..v5[w]
                /\ v2 # Quiet /\ v2.window = w => Auth!FailuresByWindow(w) = v5[w]
    <2> DEFINE live == IF v2 # Quiet /\ v2.window = w THEN v2.count ELSE 0
               both == {Auth!Among("failed", w), live}
    <2>1. v5[w] \in Nat /\ live \in 0..v5[w] /\ (v2 # Quiet /\ v2.window = w => live = v5[w])
      BY <1>1
    <2> HIDE DEF live
    <2>2. both \in SUBSET (0..v5[w]) /\ both # {} /\ live \in both
      BY <1>9, <2>1
    <2>3. Auth!FailuresByWindow(w) = Auth!Max(both)
      BY DEF Auth!FailuresByWindow, live
    <2> HIDE DEF both
    <2>4. Auth!Max(both) \in both /\ live <= Auth!Max(both)
      BY <2>1, <2>2, GreatestIs
    <2>5. Auth!FailuresByWindow(w) \in 0..v5[w] /\ live <= Auth!FailuresByWindow(w)
      BY <2>2, <2>3, <2>4
    <2>6. Auth!FailuresByWindow(w) \in Int /\ live \in Int /\ v5[w] \in Int
      BY <2>1, <2>5
    <2> QED BY <2>1, <2>5, <2>6
  <1>11. ASSUME NEW e \in Auth!DeriveAuthEvents
         PROVE  /\ e.count <= v5[e.window]
                /\ v2 # Quiet /\ v2.window = e.window => e.count = v5[e.window]
    <2> DEFINE Counts(w) == {Auth!FailuresByWindow(w)} \cup
                 {tail[i].count : i \in {j \in DOMAIN tail : tail[j].event = "threshold" /\ tail[j].window = w}}
    <2>1. PICK w \in 1..MaxWindows : e = [window |-> w, count |-> Auth!Max(Counts(w))]
      BY DEF Auth!DeriveAuthEvents, tail
    <2>2. Counts(w) \in SUBSET (0..v5[w]) /\ Auth!FailuresByWindow(w) \in Counts(w) /\ v5[w] \in Nat
      BY <1>1, <1>8, <1>10
    <2> HIDE DEF Counts
    <2>3. Auth!Max(Counts(w)) \in Counts(w) /\ Auth!FailuresByWindow(w) <= Auth!Max(Counts(w))
      BY <2>2, GreatestIs
    <2>4. Auth!Max(Counts(w)) \in 0..v5[w] /\ Auth!FailuresByWindow(w) \in 0..v5[w]
      BY <1>10, <2>2, <2>3
    <2>5. e.window = w /\ e.count = Auth!Max(Counts(w))
      BY <2>1
    <2>6. v2 # Quiet /\ v2.window = w => Auth!FailuresByWindow(w) = v5[w]
      BY <1>10
    <2> QED BY <2>2, <2>3, <2>4, <2>5, <2>6
  <1> QED BY <1>11 DEF Auth!BellTellsFailures

-----------------------------------------------------------------------------
(***************************************************************************)
(* TaskBoard: v1 is the store, v2 the clock, v3 the board, v4 the ledger,  *)
(* v5 the bytes of the images and v6 what was deleted.                     *)
(***************************************************************************)
\* The instance counts as this module does.
LEMMA SameTaskCount == \A S : TaskList!Cardinality(S) = Cardinality(S)
  BY DEF TaskList!Cardinality, Cardinality

\* A list without an id holds the others, each of which it had.
LEMMA OthersOf ==
  ASSUME NEW S, NEW list \in Seq(S), NEW id
  PROVE  LET others == TaskList!Others(list, id)
         IN  /\ others \in Seq(S)
             /\ \A k \in DOMAIN others : \E n \in DOMAIN list : others[k] = list[n]
             /\ \A n \in DOMAIN list : list[n].id # id => \E k \in DOMAIN others : others[k] = list[n]
  <1> DEFINE kept == {n \in DOMAIN list : list[n].id # id}
             Place(n) == Cardinality({m \in kept : m <= n})
             Nth(k) == CHOOSE n \in kept : Place(n) = k
             N == Cardinality(kept)
             others == [k \in 1 .. N |-> list[Nth(k)]]
  <1>1. TaskList!Others(list, id) = others
    BY DEF TaskList!Others, TaskList!Cardinality, Cardinality
  <1>2. kept \in SUBSET (1 .. Len(list)) /\ Len(list) \in Nat /\ DOMAIN list = 1 .. Len(list)
    OBVIOUS
  <1>3. /\ N \in Nat
        /\ \A n \in kept : Place(n) \in 1 .. N
        /\ \A n, m \in kept : Place(n) = Place(m) => n = m
        /\ \A k \in 1 .. N : \E n \in kept : Place(n) = k
    <2> HIDE DEF kept
    <2> QED BY <1>2, PlacesOf
  <1>4. \A k \in 1 .. N : Nth(k) \in kept /\ Place(Nth(k)) = k
    <2> HIDE DEF Place, N
    <2> QED BY <1>3
  <1>5. \A k \in 1 .. N : Nth(k) \in DOMAIN list /\ list[Nth(k)] \in S
    <2>1. \A n \in kept : n \in DOMAIN list /\ list[n] \in S
      BY <1>2
    <2> HIDE DEF Nth, N, kept
    <2> QED BY <1>4, <2>1
  <1>6. others \in Seq(S) /\ DOMAIN others = 1 .. N
    <2> HIDE DEF Nth, N
    <2> QED BY <1>3, <1>5
  <1>7. ASSUME NEW n \in DOMAIN list, list[n].id # id
        PROVE  \E k \in DOMAIN others : others[k] = list[n]
    <2>1. n \in kept
      BY <1>7
    <2>2. Place(n) \in 1 .. N
      BY <1>3, <2>1
    <2>3. Nth(Place(n)) = n
      <3>1. Nth(Place(n)) \in kept /\ Place(Nth(Place(n))) = Place(n)
        BY <1>4, <2>2
      <3> HIDE DEF Nth, Place, kept
      <3> QED BY <1>3, <2>1, <3>1
    <2>4. others[Place(n)] = list[n]
      <3> HIDE DEF Nth, Place, N
      <3> QED BY <2>2, <2>3
    <2> QED BY <1>6, <2>2, <2>4
  <1>8. \A k \in DOMAIN others : \E n \in DOMAIN list : others[k] = list[n]
    <2> HIDE DEF Nth, N
    <2> QED BY <1>5, <1>6
  <1> HIDE DEF others
  <1> QED BY <1>1, <1>6, <1>7, <1>8

\* What a route finds is in the list.
LEMMA FoundIn ==
  ASSUME NEW S, NEW list \in Seq(S), NEW id, TaskList!Found(list, id) # 0
  PROVE  TaskList!Found(list, id) \in DOMAIN list /\ list[TaskList!Found(list, id)].id = id
  <1> DEFINE places == {n \in 1 .. Len(list) : list[n].id = id}
  <1>1. TaskList!Found(list, id) = IF places # {} THEN TaskList!Min(places) ELSE 0
    BY DEF TaskList!Found, TaskList!SelectInSeq
  <1>2. places \in SUBSET (1 .. Len(list)) /\ Len(list) \in Nat /\ places # {}
    BY <1>1
  <1>3. PICK n \in places : \A k \in places : n <= k
    <2> HIDE DEF places
    <2> QED BY <1>2, LastAndFirst
  <1>4. TaskList!Min(places) \in places
    BY <1>3 DEF TaskList!Min
  <1> QED BY <1>1, <1>2, <1>4

\* The valid statuses.
LEMMA Statuses == TaskList!ValidStatuses = {"backlog", "done", "canceled"}
  <1> DEFINE columns == <<"backlog", "done">>
  <1>1. DOMAIN columns = {1, 2} /\ columns[1] = "backlog" /\ columns[2] = "done"
    OBVIOUS
  <1>2. {columns[n] : n \in DOMAIN columns} = {"backlog", "done"}
    BY <1>1
  <1> QED BY <1>2 DEF TaskList!ValidStatuses, TaskList!Columns, TaskList!Range

\* Comments are a prefix of themselves, and of what is appended to them.
LEMMA CommentsGrow ==
  ASSUME NEW S, NEW s \in Seq(S), NEW x \in S
  PROVE  TaskList!IsPrefix(s, s) /\ TaskList!IsPrefix(s, Append(s, x))
  <1>1. Len(Append(s, x)) = Len(s) + 1 /\ Len(s) \in Nat
    OBVIOUS
  <1>2. SubSeq(Append(s, x), 1, Len(s)) = SubSeq(s, 1, Len(s))
    OBVIOUS
  <1> QED BY <1>1, <1>2 DEF TaskList!IsPrefix

\* Tickets, and the one that is being filed, which has no status yet.
Drafts == [id : Nat, no : Nat, status : TaskList!ValidStatuses \cup {"none"}, completed : Nat,
           comments : Seq(Nat), images : Seq(Images)]
Days == [ms : Nat, day : Nat \ {0}]
Boards == [parses : BOOLEAN, list : Seq(TaskList!TicketRecords)]
Ledgers == [parses : BOOLEAN, list : Seq(TaskList!Requests)]
DoneOnADay(t) == ((t.completed # 0) <=> (t.status = "done")) /\ t.completed <= v2.day

\* What a ticket becomes keeps what it was: the same ticket, its comments and its day.
Follows(a, t) ==
  /\ a.no = t.no /\ TaskList!IsPrefix(t.comments, a.comments)
  /\ t.status = "done" /\ a.status = "done" => a.completed = t.completed

\* A body changes the status and the day together, and adds at most a comment.
LEMMA FieldsApplied ==
  ASSUME v2 \in Days, NEW t \in Drafts, DoneOnADay(t), NEW body \in TaskList!Bodies
  PROVE  LET a == TaskList!ApplyTaskFields(t, body)
         IN  /\ a \in Drafts /\ a.id = t.id /\ a.images = t.images /\ DoneOnADay(a) /\ Follows(a, t)
             /\ a.status = t.status \/ a.status \in TaskList!ValidStatuses
  <1> DEFINE day == TaskList!Completed(t, body.status)
             moved == IF body.status \notin TaskList!ValidStatuses THEN t
                      ELSE [t EXCEPT !.status = body.status, !.completed = day]
             noted == [moved EXCEPT !.comments = Append(moved.comments, v2.day)]
  <1>1. v2.day \in Nat /\ v2.day # 0
    BY DEF Days
  <1>2. /\ moved \in Drafts /\ moved.id = t.id /\ moved.images = t.images /\ DoneOnADay(moved)
        /\ moved.no = t.no /\ moved.comments = t.comments
        /\ t.status = "done" /\ moved.status = "done" => moved.completed = t.completed
        /\ moved.status = t.status \/ moved.status \in TaskList!ValidStatuses
    <2>1. CASE body.status \notin TaskList!ValidStatuses
      BY <2>1
    <2>2. CASE body.status \in TaskList!ValidStatuses
      <3>1. day \in Nat /\ day <= v2.day /\ (day # 0 <=> body.status = "done")
            /\ (t.status = "done" /\ body.status = "done" => day = t.completed)
        <4>1. t.completed \in Nat
          BY DEF Drafts
        <4> QED BY <1>1, <4>1 DEF TaskList!Completed, TaskList!DoneStatus, DoneOnADay
      <3> HIDE DEF day
      <3>2. moved = [t EXCEPT !.status = body.status, !.completed = day]
        BY <2>2
      <3>3. /\ moved.id = t.id /\ moved.images = t.images /\ moved.no = t.no /\ moved.comments = t.comments
            /\ moved.status = body.status /\ moved.completed = day /\ moved \in Drafts
        BY <2>2, <3>1, <3>2 DEF Drafts
      <3> HIDE DEF moved
      <3> QED BY <2>2, <3>1, <3>3 DEF DoneOnADay
    <2> QED BY <2>1, <2>2
  <1>3. TaskList!ApplyTaskFields(t, body) = IF body.comment = "good" THEN noted ELSE moved
    BY DEF TaskList!ApplyTaskFields
  <1> HIDE DEF moved
  <1>4. t.comments \in Seq(Nat) /\ moved.comments \in Seq(Nat)
    BY <1>2 DEF Drafts
  <1>5. /\ noted \in Drafts /\ noted.id = moved.id /\ noted.images = moved.images
        /\ noted.no = moved.no /\ noted.comments = Append(moved.comments, v2.day)
        /\ noted.status = moved.status /\ noted.completed = moved.completed
    <2>1. Append(moved.comments, v2.day) \in Seq(Nat)
      BY <1>1, <1>4
    <2> QED BY <1>2, <2>1 DEF Drafts
  <1>6. TaskList!IsPrefix(t.comments, t.comments) /\ TaskList!IsPrefix(t.comments, Append(t.comments, v2.day))
    BY <1>1, <1>4, CommentsGrow
  <1> HIDE DEF noted
  <1>7. CASE body.comment = "good"
    BY <1>2, <1>3, <1>5, <1>6, <1>7 DEF DoneOnADay, Follows
  <1>8. CASE body.comment # "good"
    BY <1>2, <1>3, <1>6, <1>8 DEF Follows
  <1> QED BY <1>7, <1>8

\* No image of a ticket is lost: it is served, or it was deleted by hand.
Known(id, image) == TaskList!Served(id, image) \/ <<id, image>> \in v6.images

\* A step that leaves every known image known.
LEMMA TicketStays ==
  ASSUME v1' = v1, v2 \in Days, v2' \in Days, v2.day <= v2'.day,
         NEW t \in TaskList!TicketRecords, TaskList!Whole(t),
         \A image \in Images : Known(t.id, image) => Known(t.id, image)'
  PROVE  TaskList!Whole(t)'
  <1>1. t.completed \in Nat /\ t.images \in Seq(Images)
    BY DEF TaskList!TicketRecords
  <1>2. t.completed <= v2'.day
    BY <1>1 DEF TaskList!Whole, Days
  <1>3. \A image \in TaskList!Range(t.images) : image \in Images
    BY <1>1 DEF TaskList!Range
  <1>4. \A image \in TaskList!Range(t.images) : Known(t.id, image)'
    BY <1>3 DEF TaskList!Whole, Known
  <1> QED BY <1>2, <1>4 DEF TaskList!Whole, Known

\* What a step does to the board: nothing, or one ticket is filed, changed or deleted.
BoardMoves ==
  \/ v3'.list = v3.list
  \/ \E t \in TaskList!TicketRecords : TaskList!Whole(t)' /\ v3'.list = Append(v3.list, t)
  \/ \E n \in DOMAIN v3.list, t \in TaskList!TicketRecords :
       TaskList!Whole(t)' /\ Follows(t, v3.list[n]) /\ v3'.list = [v3.list EXCEPT ![n] = t]
  \/ \E id \in v6'.ids : v3'.list = TaskList!Others(v3.list, id)

\* What it does to the ledger: nothing, or one request is filed or merged, in what was read.
LedgerMoves ==
  \/ v4'.list = v4.list
  \/ \E r \in TaskList!Requests : v4'.list = Append(TaskList!LoadRequests, r)
  \/ \E n \in DOMAIN TaskList!LoadRequests, r \in TaskList!Requests :
       /\ r.no = TaskList!LoadRequests[n].no /\ TaskList!LoadRequests[n].spawned \subseteq r.spawned
       /\ v4'.list = [TaskList!LoadRequests EXCEPT ![n] = r]

\* And what it does to the rest.
RestMoves ==
  /\ v1' = v1 /\ v2' \in Days /\ v2.day <= v2'.day
  /\ v7' \in [posts : Nat, events : Nat, faults : Nat]
  /\ v5' \in [bytes : SUBSET (Nat \X Images), files : SUBSET (Nat \X Images)]
  /\ v6' \in [ids : SUBSET Nat, images : SUBSET (Nat \X Images)]
  /\ \A id \in Nat, image \in Images : Known(id, image) => Known(id, image)'
  /\ v3'.parses \in BOOLEAN /\ v3' = [parses |-> v3'.parses, list |-> v3'.list]
  /\ v4'.parses \in BOOLEAN /\ v4' = [parses |-> v4'.parses, list |-> v4'.list]

\* Such a step keeps tickets whole, and takes nothing back.
LEMMA MovesKeepBoard ==
  ASSUME TaskList!BoardInv, BoardMoves, LedgerMoves, RestMoves
  PROVE  TaskList!BoardInv' /\ TaskList!HistoryKept
  <1> DEFINE list == v3.list
             read == TaskList!LoadRequests
  <1>1. /\ v3 \in Boards /\ v4 \in Ledgers /\ v2 \in Days
        /\ \A t \in TaskList!Range(list) : TaskList!Whole(t)
    BY DEF TaskList!BoardInv, Boards, Ledgers, Days, TaskList!TicketsAreWhole
  <1>2. list \in Seq(TaskList!TicketRecords) /\ v4.list \in Seq(TaskList!Requests) /\ v4.parses \in BOOLEAN
    BY <1>1 DEF Boards, Ledgers
  <1>3. read \in Seq(TaskList!Requests) /\ (v4.parses => read = v4.list)
    <2>1. <<>> \in Seq(TaskList!Requests)
      OBVIOUS
    <2> QED BY <1>2, <2>1 DEF TaskList!LoadRequests
  <1>4. \A n \in DOMAIN list : list[n] \in TaskList!TicketRecords /\ TaskList!Whole(list[n])
    BY <1>1, <1>2 DEF TaskList!Range
  <1>5. \A t \in TaskList!TicketRecords : TaskList!Whole(t) => TaskList!Whole(t)'
    <2> SUFFICES ASSUME NEW t \in TaskList!TicketRecords, TaskList!Whole(t) PROVE TaskList!Whole(t)'
      OBVIOUS
    <2>1. t.id \in Nat
      BY DEF TaskList!TicketRecords
    <2> QED BY <1>1, <2>1, TicketStays DEF RestMoves
  <1>6. \A n \in DOMAIN list : Follows(list[n], list[n])
    <2> SUFFICES ASSUME NEW t \in TaskList!TicketRecords PROVE Follows(t, t)
      BY <1>4
    <2>1. t.comments \in Seq(Nat)
      BY DEF TaskList!TicketRecords
    <2>2. 0 \in Nat
      OBVIOUS
    <2> QED BY <2>1, <2>2, CommentsGrow DEF Follows
  <1> DEFINE after == v3'.list
             Told == \A n \in DOMAIN list :
                       \/ \E k \in DOMAIN after : Follows(after[k], list[n])
                       \/ after = TaskList!Others(list, list[n].id) /\ list[n].id \in v6'.ids
             Sound == after \in Seq(TaskList!TicketRecords) /\ \A k \in DOMAIN after : \E t \in TaskList!TicketRecords :
                        after[k] = t /\ TaskList!Whole(t)'
  <1>7. Sound /\ Told
    <2>1. CASE after = list
      BY <1>2, <1>4, <1>5, <1>6, <2>1
    <2>2. ASSUME NEW t \in TaskList!TicketRecords, TaskList!Whole(t)', after = Append(list, t)
          PROVE  Sound /\ Told
      <3>1. /\ after \in Seq(TaskList!TicketRecords) /\ DOMAIN after = 1 .. Len(list) + 1
            /\ DOMAIN list = 1 .. Len(list) /\ Len(list) \in Nat
            /\ \A k \in 1 .. Len(list) : after[k] = list[k]
            /\ after[Len(list) + 1] = t
        BY <1>2, <2>2
      <3>2. \A k \in DOMAIN after : k \in DOMAIN list \/ k = Len(list) + 1
        BY <3>1
      <3>3. \A k \in DOMAIN list : k \in DOMAIN after
        BY <3>1
      <3> HIDE DEF after, list
      <3>4. Sound
        BY <1>4, <1>5, <2>2, <3>1, <3>2
      <3>5. Told
        BY <1>6, <3>1, <3>3
      <3> QED BY <3>4, <3>5
    <2>3. ASSUME NEW n \in DOMAIN list, NEW t \in TaskList!TicketRecords, TaskList!Whole(t)',
                 Follows(t, list[n]), after = [list EXCEPT ![n] = t]
          PROVE  Sound /\ Told
      <3>1. /\ after \in Seq(TaskList!TicketRecords) /\ DOMAIN after = DOMAIN list
            /\ \A k \in DOMAIN list : after[k] = IF k = n THEN t ELSE list[k]
        BY <1>2, <2>3
      <3> HIDE DEF after, list
      <3> QED BY <1>4, <1>5, <1>6, <2>3, <3>1
    <2>4. ASSUME NEW id \in v6'.ids, after = TaskList!Others(list, id)
          PROVE  Sound /\ Told
      <3>1. /\ after \in Seq(TaskList!TicketRecords)
            /\ \A k \in DOMAIN after : \E n \in DOMAIN list : after[k] = list[n]
            /\ \A n \in DOMAIN list : list[n].id # id => \E k \in DOMAIN after : after[k] = list[n]
        BY <1>2, <2>4, OthersOf
      <3> HIDE DEF after, list
      <3> QED BY <1>4, <1>5, <1>6, <2>4, <3>1
    <2> QED BY <2>1, <2>2, <2>3, <2>4 DEF BoardMoves
  <1> DEFINE rows == v4'.list
             Merged == \A n \in DOMAIN read : \E k \in DOMAIN rows :
                         rows[k].no = read[n].no /\ read[n].spawned \subseteq rows[k].spawned
  <1>8. rows \in Seq(TaskList!Requests) /\ (v4.parses => Merged)
    <2>1. CASE rows = v4.list
      BY <1>2, <1>3, <2>1
    <2>2. ASSUME NEW r \in TaskList!Requests, rows = Append(read, r)
          PROVE  rows \in Seq(TaskList!Requests) /\ Merged
      <3>1. /\ rows \in Seq(TaskList!Requests) /\ DOMAIN rows = 1 .. Len(read) + 1
            /\ DOMAIN read = 1 .. Len(read) /\ Len(read) \in Nat
            /\ \A k \in 1 .. Len(read) : rows[k] = read[k]
        BY <1>3, <2>2
      <3>2. \A k \in DOMAIN read : k \in DOMAIN rows
        BY <3>1
      <3> HIDE DEF rows, read
      <3> QED BY <3>1, <3>2
    <2>3. ASSUME NEW n \in DOMAIN read, NEW r \in TaskList!Requests, r.no = read[n].no,
                 read[n].spawned \subseteq r.spawned, rows = [read EXCEPT ![n] = r]
          PROVE  rows \in Seq(TaskList!Requests) /\ Merged
      <3>1. /\ rows \in Seq(TaskList!Requests) /\ DOMAIN rows = DOMAIN read
            /\ \A k \in DOMAIN read : rows[k] = IF k = n THEN r ELSE read[k]
        BY <1>3, <2>3
      <3> HIDE DEF rows, read
      <3> QED BY <2>3, <3>1
    <2> QED BY <2>1, <2>2, <2>3 DEF LedgerMoves
  <1>9. /\ v3' \in [parses : BOOLEAN, list : Seq(TaskList!TicketRecords)]
        /\ v4' \in [parses : BOOLEAN, list : Seq(TaskList!Requests)]
    BY <1>7, <1>8 DEF RestMoves
  <1>10. \A t \in TaskList!Range(after) : TaskList!Whole(t)'
    BY <1>7 DEF TaskList!Range
  <1>11. TaskList!BoardInv'
    BY <1>9, <1>10 DEF TaskList!BoardInv, TaskList!TicketsAreWhole, RestMoves, Days
  <1>12. TaskList!HistoryKept
    <2> HIDE DEF after, list, rows, read
    <2>1. \A k \in DOMAIN after : after[k] \in TaskList!Range(after)
      BY DEF TaskList!Range
    <2>2. \A k \in DOMAIN rows : rows[k] \in TaskList!Range(rows)
      BY DEF TaskList!Range
    <2>3. \A n \in DOMAIN list :
            \/ \E u \in TaskList!Range(after) : Follows(u, list[n])
            \/ after = TaskList!Others(list, list[n].id) /\ list[n].id \in v6'.ids
      BY <1>7, <2>1
    <2>4. v4.parses => \A n \in DOMAIN v4.list : \E r \in TaskList!Range(rows) :
                         r.no = v4.list[n].no /\ v4.list[n].spawned \subseteq r.spawned
      BY <1>3, <1>8, <2>2
    <2> QED BY <2>3, <2>4 DEF TaskList!HistoryKept, TaskList!DoneStatus, Follows, after, list, rows
  <1> QED BY <1>11, <1>12

\* A counter that is spent stays a count.
LEMMA SpendCounts ==
  ASSUME v7 \in [posts : Nat, events : Nat, faults : Nat],
         NEW counter \in {"posts", "events", "faults"}, NEW most, TaskList!Spend(counter, most)
  PROVE  v7' \in [posts : Nat, events : Nat, faults : Nat]
  <1>1. v7' = [v7 EXCEPT ![counter] = v7[counter] + 1] /\ v7[counter] + 1 \in Nat
    BY DEF TaskList!Spend
  <1> QED BY <1>1

\* What the invariant says of the lists that a step reads.
LEMMA BoardShape ==
  ASSUME TaskList!BoardInv
  PROVE  /\ v3.list \in Seq(TaskList!TicketRecords) /\ v3.parses \in BOOLEAN
         /\ v3 = [parses |-> v3.parses, list |-> v3.list]
         /\ \A n \in DOMAIN v3.list : v3.list[n] \in TaskList!TicketRecords /\ TaskList!Whole(v3.list[n])
         /\ v4.list \in Seq(TaskList!Requests) /\ v4.parses \in BOOLEAN
         /\ v4 = [parses |-> v4.parses, list |-> v4.list]
         /\ TaskList!LoadRequests \in Seq(TaskList!Requests)
         /\ v2 \in Days /\ v2.day \in Nat /\ v7.posts \in Nat /\ v2.ms \in Nat
  <1>1. /\ v3 \in [parses : BOOLEAN, list : Seq(TaskList!TicketRecords)]
        /\ v4 \in [parses : BOOLEAN, list : Seq(TaskList!Requests)]
        /\ v2 \in [ms : Nat, day : Nat \ {0}] /\ v7 \in [posts : Nat, events : Nat, faults : Nat]
        /\ \A t \in TaskList!Range(v3.list) : TaskList!Whole(t)
    BY DEF TaskList!BoardInv, TaskList!TicketsAreWhole
  <1>2. v3.list \in Seq(TaskList!TicketRecords) /\ v4.list \in Seq(TaskList!Requests)
    BY <1>1
  <1>3. \A n \in DOMAIN v3.list : v3.list[n] \in TaskList!TicketRecords /\ v3.list[n] \in TaskList!Range(v3.list)
    BY <1>2 DEF TaskList!Range
  <1>4. TaskList!LoadRequests \in Seq(TaskList!Requests)
    BY <1>2 DEF TaskList!LoadRequests
  <1> QED BY <1>1, <1>2, <1>3, <1>4 DEF Days

\* A step that leaves clock, images and deletions alone.
LEMMA RestStands ==
  ASSUME TaskList!BoardInv, UNCHANGED <<v1, v2, v5, v6>>,
         v7' \in [posts : Nat, events : Nat, faults : Nat],
         v3'.parses \in BOOLEAN, v3' = [parses |-> v3'.parses, list |-> v3'.list],
         v4'.parses \in BOOLEAN, v4' = [parses |-> v4'.parses, list |-> v4'.list]
  PROVE  RestMoves
  <1>1. v2.day <= v2'.day /\ v2' \in Days
    BY BoardShape
  <1>2. \A id \in Nat, image \in Images : Known(id, image) => Known(id, image)'
    BY DEF Known, TaskList!Served
  <1> QED BY <1>1, <1>2 DEF RestMoves, TaskList!BoardInv

\* A ticket is filed.
LEMMA PostTaskMoves ==
  ASSUME TaskList!BoardInv, NEW body \in TaskList!Bodies, TaskList!PostTask(body)
  PROVE  BoardMoves /\ LedgerMoves /\ RestMoves
  <1> DEFINE made == [id |-> v2.ms, no |-> v7.posts, status |-> "none", completed |-> 0,
                      comments |-> <<>>, images |-> <<>>]
             a == TaskList!ApplyTaskFields(made, body)
             filed == [a EXCEPT !.status = IF a.status = "none" THEN "backlog" ELSE a.status]
  <1>1. made \in Drafts /\ DoneOnADay(made) /\ made.images = <<>> /\ made.status = "none"
    <2>1. <<>> \in Seq(Nat) /\ <<>> \in Seq(Images) /\ 0 \in Nat
      OBVIOUS
    <2>2. v2.ms \in Nat /\ v7.posts \in Nat /\ v2.day \in Nat
      BY BoardShape
    <2> QED BY <2>1, <2>2 DEF Drafts, DoneOnADay
  <1> HIDE DEF made
  <1>2. /\ a \in Drafts /\ a.images = <<>> /\ DoneOnADay(a)
        /\ a.status = "none" \/ a.status \in TaskList!ValidStatuses
    BY <1>1, BoardShape, FieldsApplied
  <1>3. UNCHANGED <<v1, v2, v4, v5, v6>> /\ v3' = [v3 EXCEPT !.list = Append(v3.list, filed)]
        /\ TaskList!Spend("posts", MaxPosts)
    BY DEF TaskList!PostTask, TaskList!SaveTasks, made
  <1> HIDE DEF a
  <1>4. filed \in TaskList!TicketRecords /\ filed.images = <<>> /\ DoneOnADay(filed)
    <2>1. /\ filed.id = a.id /\ filed.no = a.no /\ filed.comments = a.comments /\ filed.images = a.images
          /\ filed.completed = a.completed
          /\ filed.status = IF a.status = "none" THEN "backlog" ELSE a.status
          /\ DOMAIN filed = DOMAIN a
      BY <1>2 DEF Drafts
    <2>2. filed.status \in TaskList!ValidStatuses
      BY <1>2, <2>1, Statuses
    <2>3. filed \in TaskList!TicketRecords
      BY <1>2, <2>1, <2>2 DEF Drafts, TaskList!TicketRecords
    <2> QED BY <1>2, <2>1, <2>3 DEF DoneOnADay
  <1> HIDE DEF filed
  <1>5. TaskList!Whole(filed)
    <2>1. TaskList!Range(<<>>) = {} /\ TaskList!IsInjective(<<>>)
      BY DEF TaskList!Range, TaskList!IsInjective
    <2> QED BY <1>4, <2>1 DEF TaskList!Whole, TaskList!DoneStatus, DoneOnADay
  <1>6. \E t \in TaskList!TicketRecords : TaskList!Whole(t)' /\ v3'.list = Append(v3.list, t)
    <2>1. ASSUME NEW t \in TaskList!TicketRecords, TaskList!Whole(t) PROVE TaskList!Whole(t)'
      BY <1>3, <2>1 DEF TaskList!Whole, TaskList!Served
    <2>2. v3'.list = Append(v3.list, filed)
      BY <1>3, BoardShape
    <2> QED BY <1>4, <1>5, <2>1, <2>2
  <1>7. v7' \in [posts : Nat, events : Nat, faults : Nat]
    BY <1>3, SpendCounts DEF TaskList!BoardInv
  <1>8. RestMoves
    <2>1. /\ v3'.parses \in BOOLEAN /\ v3' = [parses |-> v3'.parses, list |-> v3'.list]
          /\ v4'.parses \in BOOLEAN /\ v4' = [parses |-> v4'.parses, list |-> v4'.list]
      BY <1>3, BoardShape
    <2> QED BY <1>3, <1>7, <2>1, RestStands
  <1> QED BY <1>3, <1>6, <1>8 DEF BoardMoves, LedgerMoves

\* A ticket is changed.
LEMMA PatchTaskMoves ==
  ASSUME TaskList!BoardInv, NEW body \in TaskList!Bodies, NEW id \in Nat, TaskList!PatchTask(id, body)
  PROVE  BoardMoves /\ LedgerMoves /\ RestMoves
  <1> DEFINE at == TaskList!Found(v3.list, id)
             t == v3.list[at]
             a == TaskList!ApplyTaskFields(t, body)
  <1>1. at \in DOMAIN v3.list
    BY BoardShape, FoundIn DEF TaskList!PatchTask
  <1>2. t \in TaskList!TicketRecords /\ TaskList!Whole(t)
    BY <1>1, BoardShape
  <1>3. UNCHANGED <<v1, v2, v4, v5, v6>> /\ v3' = [v3 EXCEPT !.list = [v3.list EXCEPT ![at] = a]]
        /\ TaskList!Spend("events", MaxWrites)
    BY DEF TaskList!PatchTask, TaskList!SaveTasks
  <1> HIDE DEF at, t
  <1>4. t \in Drafts /\ DoneOnADay(t) /\ t.status \in TaskList!ValidStatuses
    BY <1>2 DEF Drafts, DoneOnADay, TaskList!TicketRecords, TaskList!Whole, TaskList!DoneStatus
  <1>5. /\ a \in Drafts /\ a.id = t.id /\ a.images = t.images /\ DoneOnADay(a) /\ Follows(a, t)
        /\ a.status \in TaskList!ValidStatuses
    BY <1>4, BoardShape, FieldsApplied
  <1> HIDE DEF a
  <1>6. a \in TaskList!TicketRecords
    BY <1>5 DEF Drafts, TaskList!TicketRecords
  <1>7. TaskList!Whole(a)
    BY <1>2, <1>5 DEF TaskList!Whole, DoneOnADay, TaskList!DoneStatus
  <1>8. \E n \in DOMAIN v3.list, u \in TaskList!TicketRecords :
          TaskList!Whole(u)' /\ Follows(u, v3.list[n]) /\ v3'.list = [v3.list EXCEPT ![n] = u]
    <2>1. ASSUME NEW u \in TaskList!TicketRecords, TaskList!Whole(u) PROVE TaskList!Whole(u)'
      BY <1>3, <2>1 DEF TaskList!Whole, TaskList!Served
    <2>2. v3'.list = [v3.list EXCEPT ![at] = a]
      BY <1>3, BoardShape
    <2> QED BY <1>1, <1>5, <1>6, <1>7, <2>1, <2>2 DEF t
  <1>9. v7' \in [posts : Nat, events : Nat, faults : Nat]
    BY <1>3, SpendCounts DEF TaskList!BoardInv
  <1>10. RestMoves
    <2>1. /\ v3'.parses \in BOOLEAN /\ v3' = [parses |-> v3'.parses, list |-> v3'.list]
          /\ v4'.parses \in BOOLEAN /\ v4' = [parses |-> v4'.parses, list |-> v4'.list]
      BY <1>3, BoardShape
    <2> QED BY <1>3, <1>9, <2>1, RestStands
  <1> QED BY <1>3, <1>8, <1>10 DEF BoardMoves, LedgerMoves

\* The bytes of an image come first, so an image that a ticket records is known.
LEMMA AttachMoves ==
  ASSUME TaskList!BoardInv, NEW id \in Nat, NEW image \in Images, TaskList!Attach(id, image)
  PROVE  BoardMoves /\ LedgerMoves /\ RestMoves
  <1> DEFINE at == TaskList!Found(v3.list, id)
             t == v3.list[at]
             a == [t EXCEPT !.images = Append(t.images, image)]
             pairs == Nat \X Images
  <1>1. at \in DOMAIN v3.list /\ t.id = id
    BY BoardShape, FoundIn DEF TaskList!Attach
  <1>2. t \in TaskList!TicketRecords /\ TaskList!Whole(t) /\ t.images \in Seq(Images) /\ t.id \in Nat
    BY <1>1, BoardShape DEF TaskList!TicketRecords
  <1>3. /\ UNCHANGED <<v1, v2, v4>>
        /\ v5' = [bytes |-> v5.bytes \cup {<<id, image>>}, files |-> v5.files \cup {<<id, image>>}]
        /\ v6' = [v6 EXCEPT !.images = v6.images \ {<<id, image>>}]
        /\ TaskList!Spend("events", MaxWrites) \/ TaskList!Spend("faults", MaxMishaps)
    BY DEF TaskList!Attach, TaskList!SaveBlob
  <1>4. \/ v3' = v3
        \/ /\ image \notin TaskList!Range(t.images)
           /\ v3' = [v3 EXCEPT !.list = [v3.list EXCEPT ![at].images = Append(v3.list[at].images, image)]]
    BY DEF TaskList!Attach, TaskList!SaveTasks
  <1>5. v5 \in [bytes : SUBSET pairs, files : SUBSET pairs] /\ v6 \in [ids : SUBSET Nat, images : SUBSET pairs]
    BY DEF TaskList!BoardInv
  <1>6. v5' \in [bytes : SUBSET pairs, files : SUBSET pairs] /\ v6' \in [ids : SUBSET Nat, images : SUBSET pairs]
    BY <1>3, <1>5
  <1>7. /\ \A x \in Nat, i \in Images : Known(x, i) => Known(x, i)'
        /\ Known(id, image)'
    <2>1. v6'.images = v6.images \ {<<id, image>>}
      BY <1>3, <1>5
    <2> QED BY <1>3, <2>1 DEF Known, TaskList!Served
  <1>8. v7' \in [posts : Nat, events : Nat, faults : Nat]
    BY <1>3, SpendCounts DEF TaskList!BoardInv
  <1>9. v2' \in Days /\ v2.day <= v2'.day
    BY <1>3, BoardShape
  <1>10. BoardMoves /\ v3'.parses \in BOOLEAN /\ v3' = [parses |-> v3'.parses, list |-> v3'.list]
    <2>1. CASE v3' = v3
      BY <2>1, BoardShape DEF BoardMoves
    <2>2. CASE /\ image \notin TaskList!Range(t.images)
               /\ v3' = [v3 EXCEPT !.list = [v3.list EXCEPT ![at].images = Append(v3.list[at].images, image)]]
      <3>1. v3' = [v3 EXCEPT !.list = [v3.list EXCEPT ![at] = a]]
        BY <2>2
      <3>2. /\ v3'.list = [v3.list EXCEPT ![at] = a]
            /\ v3'.parses \in BOOLEAN /\ v3' = [parses |-> v3'.parses, list |-> v3'.list]
        BY <3>1, BoardShape
      <3> HIDE DEF at, t
      <3>3. /\ a.images = Append(t.images, image) /\ a.images \in Seq(Images)
            /\ a.no = t.no /\ a.id = t.id /\ a.status = t.status /\ a.completed = t.completed
            /\ a.comments = t.comments /\ a \in TaskList!TicketRecords
        <4>1. Append(t.images, image) \in Seq(Images)
          BY <1>2
        <4> QED BY <1>2, <4>1 DEF TaskList!TicketRecords
      <3> HIDE DEF a
      <3>4. Follows(a, t)
        <4>1. t.comments \in Seq(Nat) /\ 0 \in Nat
          BY <1>2 DEF TaskList!TicketRecords
        <4> QED BY <3>3, <4>1, CommentsGrow DEF Follows
      <3>5. /\ DOMAIN a.images = 1 .. Len(t.images) + 1 /\ DOMAIN t.images = 1 .. Len(t.images)
            /\ Len(t.images) \in Nat /\ a.images[Len(t.images) + 1] = image
            /\ \A k \in DOMAIN t.images : a.images[k] = t.images[k]
        BY <1>2, <3>3
      <3>6. \A k \in DOMAIN a.images : k \in DOMAIN t.images \/ k = Len(t.images) + 1
        BY <3>5
      <3>7. TaskList!IsInjective(a.images)
        <4>1. TaskList!IsInjective(t.images) /\ \A k \in DOMAIN t.images : t.images[k] # image
          BY <1>2, <2>2 DEF TaskList!Whole, TaskList!Range
        <4> QED BY <3>5, <3>6, <4>1 DEF TaskList!IsInjective
      <3>8. \A i \in TaskList!Range(a.images) : Known(id, i)'
        <4> SUFFICES ASSUME NEW i \in Images, i \in TaskList!Range(t.images) \/ i = image
                     PROVE  Known(id, i)'
          <5>1. \A k \in DOMAIN a.images : a.images[k] \in Images
            BY <3>3
          <5> QED BY <3>5, <3>6, <5>1 DEF TaskList!Range
        <4>1. CASE i \in TaskList!Range(t.images)
          <5>1. Known(id, i)
            BY <1>1, <1>2, <4>1 DEF TaskList!Whole, Known, t
          <5> QED BY <1>7, <5>1
        <4> QED BY <1>7, <4>1
      <3>9. \E n \in DOMAIN v3.list, u \in TaskList!TicketRecords :
              TaskList!Whole(u)' /\ Follows(u, v3.list[n]) /\ v3'.list = [v3.list EXCEPT ![n] = u]
        <4>1. ASSUME NEW u \in TaskList!TicketRecords, u = a PROVE TaskList!Whole(u)'
          <5>1. /\ (u.completed # 0) <=> (u.status = TaskList!DoneStatus)
                /\ u.completed <= v2'.day /\ TaskList!IsInjective(u.images) /\ u.id = id
            BY <1>1, <1>2, <1>3, <3>3, <3>7, <4>1 DEF TaskList!Whole, t
          <5>2. \A i \in TaskList!Range(u.images) : Known(u.id, i)'
            BY <3>8, <4>1, <5>1
          <5> QED BY <5>1, <5>2 DEF TaskList!Whole, Known
        <4> QED BY <1>1, <3>2, <3>3, <3>4, <4>1 DEF t
      <3> QED BY <3>2, <3>9 DEF BoardMoves
    <2> QED BY <1>4, <2>1, <2>2
  <1>11. v4'.parses \in BOOLEAN /\ v4' = [parses |-> v4'.parses, list |-> v4'.list]
    BY <1>3, BoardShape
  <1> QED BY <1>3, <1>6, <1>7, <1>8, <1>9, <1>10, <1>11 DEF RestMoves, LedgerMoves

\* Every ticket of an id is deleted.
LEMMA DeleteTaskMoves ==
  ASSUME TaskList!BoardInv, NEW id \in Nat, TaskList!DeleteTask(id)
  PROVE  BoardMoves /\ LedgerMoves /\ RestMoves
  <1> DEFINE pairs == Nat \X Images
  <1>1. /\ UNCHANGED <<v1, v2, v4, v5>> /\ v6' = [v6 EXCEPT !.ids = v6.ids \cup {id}]
        /\ v3' = [v3 EXCEPT !.list = TaskList!Others(v3.list, id)]
        /\ TaskList!Spend("events", MaxWrites)
    BY DEF TaskList!DeleteTask, TaskList!SaveTasks
  <1>2. v6 \in [ids : SUBSET Nat, images : SUBSET pairs] /\ v5 \in [bytes : SUBSET pairs, files : SUBSET pairs]
    BY DEF TaskList!BoardInv
  <1>3. v6' \in [ids : SUBSET Nat, images : SUBSET pairs] /\ id \in v6'.ids /\ v6'.images = v6.images
    BY <1>1, <1>2
  <1>4. \A x \in Nat, i \in Images : Known(x, i) => Known(x, i)'
    BY <1>1, <1>3 DEF Known, TaskList!Served
  <1>5. v7' \in [posts : Nat, events : Nat, faults : Nat]
    BY <1>1, SpendCounts DEF TaskList!BoardInv
  <1>6. v2' \in Days /\ v2.day <= v2'.day
    BY <1>1, BoardShape
  <1>7. /\ v3'.list = TaskList!Others(v3.list, id)
        /\ v3'.parses \in BOOLEAN /\ v3' = [parses |-> v3'.parses, list |-> v3'.list]
        /\ v4'.parses \in BOOLEAN /\ v4' = [parses |-> v4'.parses, list |-> v4'.list]
    BY <1>1, BoardShape
  <1> QED BY <1>1, <1>2, <1>3, <1>4, <1>5, <1>6, <1>7 DEF BoardMoves, LedgerMoves, RestMoves

\* A file deleted by hand is told of, and a new disk of the cloud takes no bytes.
LEMMA BlobMoves ==
  ASSUME TaskList!BoardInv,
         TaskList!Redeploy \/ \E id \in Nat, image \in Images : TaskList!DeleteByHand(id, image)
  PROVE  BoardMoves /\ LedgerMoves /\ RestMoves
  <1> DEFINE pairs == Nat \X Images
             Moved == /\ v6' \in [ids : SUBSET Nat, images : SUBSET pairs]
                      /\ v5' \in [bytes : SUBSET pairs, files : SUBSET pairs]
                      /\ \A x \in Nat, i \in Images : Known(x, i) => Known(x, i)'
  <1>1. UNCHANGED <<v1, v2, v3, v4>> /\ TaskList!Spend("faults", MaxMishaps)
    BY DEF TaskList!Redeploy, TaskList!DeleteByHand
  <1>2. v6 \in [ids : SUBSET Nat, images : SUBSET pairs] /\ v5 \in [bytes : SUBSET pairs, files : SUBSET pairs]
    BY DEF TaskList!BoardInv
  <1>3. Moved
    <2>1. CASE TaskList!Redeploy
      <3>1. v6' = v6 /\ v5' = [v5 EXCEPT !.files = {}] /\ v1 = "pg"
        BY <2>1 DEF TaskList!Redeploy
      <3>2. v5'.bytes = v5.bytes /\ v5' \in [bytes : SUBSET pairs, files : SUBSET pairs]
        BY <1>2, <3>1
      <3> QED BY <1>1, <1>2, <3>1, <3>2 DEF Known, TaskList!Served
    <2>2. ASSUME NEW id \in Nat, NEW image \in Images, TaskList!DeleteByHand(id, image) PROVE Moved
      <3>1. /\ v5' = [bytes |-> v5.bytes \ {<<id, image>>}, files |-> v5.files \ {<<id, image>>}]
            /\ v6' = [v6 EXCEPT !.images = v6.images \cup {<<id, image>>}] /\ v1 = "file"
        BY <2>2 DEF TaskList!DeleteByHand
      <3>2. /\ v5'.files = v5.files \ {<<id, image>>} /\ v6'.images = v6.images \cup {<<id, image>>}
            /\ v6' \in [ids : SUBSET Nat, images : SUBSET pairs]
            /\ v5' \in [bytes : SUBSET pairs, files : SUBSET pairs]
        BY <1>2, <3>1
      <3> QED BY <1>1, <3>1, <3>2 DEF Known, TaskList!Served
    <2> QED BY <2>1, <2>2
  <1>4. v7' \in [posts : Nat, events : Nat, faults : Nat]
    BY <1>1, SpendCounts DEF TaskList!BoardInv
  <1>5. v2' \in Days /\ v2.day <= v2'.day
    BY <1>1, BoardShape
  <1>6. /\ v3'.parses \in BOOLEAN /\ v3' = [parses |-> v3'.parses, list |-> v3'.list]
        /\ v4'.parses \in BOOLEAN /\ v4' = [parses |-> v4'.parses, list |-> v4'.list]
    BY <1>1, BoardShape
  <1> QED BY <1>1, <1>3, <1>4, <1>5, <1>6 DEF BoardMoves, LedgerMoves, RestMoves

\* A request is filed, or what it spawned is merged.
LEMMA RequestMoves ==
  ASSUME TaskList!BoardInv, NEW spawned \in SUBSET Spawned,
         TaskList!PostRequest(spawned) \/ \E id \in Nat : TaskList!PatchRequest(id, spawned)
  PROVE  BoardMoves /\ LedgerMoves /\ RestMoves
  <1> DEFINE read == TaskList!LoadRequests
  <1>1. UNCHANGED <<v1, v2, v3, v5, v6>>
    BY DEF TaskList!PostRequest, TaskList!PatchRequest
  <1>2. /\ v7' \in [posts : Nat, events : Nat, faults : Nat]
    BY SpendCounts DEF TaskList!BoardInv, TaskList!PostRequest, TaskList!PatchRequest
  <1>3. LedgerMoves /\ v4'.parses \in BOOLEAN /\ v4' = [parses |-> v4'.parses, list |-> v4'.list]
    <2>1. CASE TaskList!PostRequest(spawned)
      <3> DEFINE row == [id |-> v2.ms, no |-> v7.posts, spawned |-> spawned]
      <3>1. v4' = [parses |-> TRUE, list |-> Append(read, row)]
        BY <2>1 DEF TaskList!PostRequest, TaskList!SaveRequests
      <3>2. row \in TaskList!Requests
        BY BoardShape DEF TaskList!Requests
      <3> QED BY <3>1, <3>2 DEF LedgerMoves
    <2>2. ASSUME NEW id \in Nat, TaskList!PatchRequest(id, spawned)
          PROVE  LedgerMoves /\ v4'.parses \in BOOLEAN /\ v4' = [parses |-> v4'.parses, list |-> v4'.list]
      <3> DEFINE at == TaskList!Found(read, id)
                 row == [read[at] EXCEPT !.spawned = read[at].spawned \cup spawned]
      <3>1. v4' = [parses |-> TRUE, list |-> [read EXCEPT ![at].spawned = read[at].spawned \cup spawned]]
            /\ at # 0
        BY <2>2 DEF TaskList!PatchRequest, TaskList!SaveRequests
      <3>2. read \in Seq(TaskList!Requests)
        BY BoardShape
      <3>3. at \in DOMAIN read
        BY <3>1, <3>2, FoundIn
      <3>4. read[at] \in TaskList!Requests
        BY <3>2, <3>3
      <3>5. row \in TaskList!Requests /\ row.no = read[at].no /\ read[at].spawned \subseteq row.spawned
        BY <3>4 DEF TaskList!Requests
      <3>6. v4' = [parses |-> TRUE, list |-> [read EXCEPT ![at] = row]]
        BY <3>1
      <3> HIDE DEF row, at
      <3> QED BY <3>3, <3>5, <3>6 DEF LedgerMoves
    <2> QED BY <2>1, <2>2
  <1>4. v3'.parses \in BOOLEAN /\ v3' = [parses |-> v3'.parses, list |-> v3'.list]
    BY <1>1, BoardShape
  <1>5. RestMoves
    BY <1>1, <1>2, <1>3, <1>4, RestStands
  <1> QED BY <1>1, <1>3, <1>5 DEF BoardMoves

\* Time passes, and the owner edits the files.
LEMMA HandMoves ==
  ASSUME TaskList!BoardInv, TaskList!Tick \/ TaskList!EditByHand
  PROVE  BoardMoves /\ LedgerMoves /\ RestMoves
  <1>1. CASE TaskList!Tick
    <2>1. UNCHANGED <<v1, v3, v4, v5, v6, v7>>
      BY <1>1 DEF TaskList!Tick
    <2>2. PICK days \in 0 .. 1 : v2' = [ms |-> v2.ms + 1, day |-> v2.day + days]
      BY <1>1 DEF TaskList!Tick
    <2>3. v2' \in Days /\ v2.day <= v2'.day
      <3>1. v2.ms \in Nat /\ v2.day \in Nat /\ v2.day # 0
        BY BoardShape DEF Days
      <3> QED BY <2>2, <3>1 DEF Days
    <2>4. \A x \in Nat, i \in Images : Known(x, i) => Known(x, i)'
      BY <2>1 DEF Known, TaskList!Served
    <2>5. /\ v3'.parses \in BOOLEAN /\ v3' = [parses |-> v3'.parses, list |-> v3'.list]
          /\ v4'.parses \in BOOLEAN /\ v4' = [parses |-> v4'.parses, list |-> v4'.list]
      BY <2>1, BoardShape
    <2> QED BY <2>1, <2>3, <2>4, <2>5 DEF BoardMoves, LedgerMoves, RestMoves, TaskList!BoardInv
  <1>2. CASE TaskList!EditByHand
    <2>1. UNCHANGED <<v1, v2, v5, v6>>
      BY <1>2 DEF TaskList!EditByHand
    <2>2. v7' \in [posts : Nat, events : Nat, faults : Nat]
      BY <1>2, SpendCounts DEF TaskList!EditByHand, TaskList!BoardInv
    <2>3. /\ v3' = v3 \/ \E told \in BOOLEAN : v3' = [v3 EXCEPT !.parses = told]
          /\ v4' = v4 \/ \E told \in BOOLEAN : v4' = [v4 EXCEPT !.parses = told]
      BY <1>2 DEF TaskList!EditByHand
    <2>4. /\ v3'.parses \in BOOLEAN /\ v3' = [parses |-> v3'.parses, list |-> v3'.list] /\ v3'.list = v3.list
          /\ v4'.parses \in BOOLEAN /\ v4' = [parses |-> v4'.parses, list |-> v4'.list] /\ v4'.list = v4.list
      BY <2>3, BoardShape
    <2> QED BY <2>1, <2>2, <2>4, RestStands DEF BoardMoves, LedgerMoves
  <1> QED BY <1>1, <1>2

\* Tickets stay whole, and nothing that was filed is taken back.
LEMMA BoardStays ==
  ASSUME TaskList!BoardInv, [TaskList!BoardNext]_(TaskList!boardVars), MaxTime \in Nat
  PROVE  TaskList!BoardInv' /\ TaskList!HistoryKept
  <1>1. CASE UNCHANGED TaskList!boardVars
    <2>1. UNCHANGED <<v1, v2, v3, v4, v5, v6, v7>>
      BY <1>1 DEF TaskList!boardVars
    <2>2. /\ v3'.parses \in BOOLEAN /\ v3' = [parses |-> v3'.parses, list |-> v3'.list]
          /\ v4'.parses \in BOOLEAN /\ v4' = [parses |-> v4'.parses, list |-> v4'.list]
      BY <2>1, BoardShape
    <2>3. BoardMoves /\ LedgerMoves /\ RestMoves
      BY <2>1, <2>2, RestStands DEF BoardMoves, LedgerMoves, TaskList!BoardInv
    <2> QED BY <2>3, MovesKeepBoard
  <1>2. CASE TaskList!BoardNext
    <2>1. 1 .. MaxTime \subseteq Nat
      OBVIOUS
    <2>2. ASSUME NEW body \in TaskList!Bodies, TaskList!PostTask(body)
          PROVE  BoardMoves /\ LedgerMoves /\ RestMoves
      BY <2>2, PostTaskMoves
    <2>3. ASSUME NEW body \in TaskList!Bodies, NEW id \in 1 .. MaxTime, TaskList!PatchTask(id, body)
          PROVE  BoardMoves /\ LedgerMoves /\ RestMoves
      BY <2>1, <2>3, PatchTaskMoves
    <2>4. ASSUME NEW id \in 1 .. MaxTime, TaskList!DeleteTask(id)
          PROVE  BoardMoves /\ LedgerMoves /\ RestMoves
      BY <2>1, <2>4, DeleteTaskMoves
    <2>5. ASSUME NEW id \in 1 .. MaxTime, NEW image \in Images, TaskList!Attach(id, image)
          PROVE  BoardMoves /\ LedgerMoves /\ RestMoves
      BY <2>1, <2>5, AttachMoves
    <2>6. ASSUME NEW id \in 1 .. MaxTime, NEW image \in Images, TaskList!DeleteByHand(id, image)
          PROVE  BoardMoves /\ LedgerMoves /\ RestMoves
      BY <2>1, <2>6, BlobMoves
    <2>7. ASSUME NEW id \in 1 .. MaxTime, NEW spawned \in SUBSET Spawned, TaskList!PatchRequest(id, spawned)
          PROVE  BoardMoves /\ LedgerMoves /\ RestMoves
      BY <2>1, <2>7, RequestMoves
    <2>8. ASSUME NEW spawned \in SUBSET Spawned, TaskList!PostRequest(spawned)
          PROVE  BoardMoves /\ LedgerMoves /\ RestMoves
      BY <2>8, RequestMoves
    <2>9. ASSUME TaskList!Redeploy \/ TaskList!Tick \/ TaskList!EditByHand
          PROVE  BoardMoves /\ LedgerMoves /\ RestMoves
      BY <2>9, BlobMoves, HandMoves
    <2>10. BoardMoves /\ LedgerMoves /\ RestMoves
      BY <1>2, <2>2, <2>3, <2>4, <2>5, <2>6, <2>7, <2>8, <2>9 DEF TaskList!BoardNext
    <2> QED BY <2>10, MovesKeepBoard
  <1> QED BY <1>1, <1>2

\* There are no tickets at first.
LEMMA BoardAtFirst ==
  ASSUME Stores \subseteq {"file", "pg"}, TaskList!BoardInit
  PROVE  TaskList!BoardInv
  <1>1. <<>> \in Seq(TaskList!TicketRecords) /\ <<>> \in Seq(TaskList!Requests) /\ TaskList!Range(<<>>) = {}
    BY DEF TaskList!Range
  <1> QED BY <1>1 DEF TaskList!BoardInit, TaskList!BoardInv, TaskList!TicketsAreWhole

-----------------------------------------------------------------------------
(***************************************************************************)
(* JobFiles: v2 is the day, v3 the files, v4 the local agents, v5 what was *)
(* not copied and v6 the writes so far.                                    *)
(***************************************************************************)
\* The instance counts as this module does.
LEMMA SameFileCount == \A S : Folder!Cardinality(S) = Cardinality(S)
  BY DEF Folder!Cardinality, Cardinality

\* New files are there, and the others are as they were.
LEMMA PutFilesIs ==
  ASSUME NEW new, Folder!PutFiles(new)
  PROVE  /\ DOMAIN v3' = DOMAIN new \cup DOMAIN v3 /\ v3' = [x \in DOMAIN v3' |-> v3'[x]]
         /\ \A x \in DOMAIN new : v3'[x] = new[x]
         /\ \A x \in DOMAIN v3 : x \notin DOMAIN new => v3'[x] = v3[x]
  BY DEF Folder!PutFiles

\* What a write leaves.
LEMMA PutIs ==
  ASSUME NEW name, NEW by, Folder!Put(name, by)
  PROVE  /\ v6' = v6 + 1 /\ DOMAIN v3' = DOMAIN v3 \cup {name}
         /\ v3' = [x \in DOMAIN v3' |-> v3'[x]]
         /\ v3'[name] = [by |-> by, no |-> v6 + 1]
         /\ \A x \in DOMAIN v3 : x # name => v3'[x] = v3[x]
  <1> DEFINE new == [put \in {name} |-> Folder!Content(by)]
  <1>1. v6' = v6 + 1 /\ Folder!PutFiles(new)
    BY DEF Folder!Put
  <1>2. DOMAIN new = {name} /\ new[name] = [by |-> by, no |-> v6 + 1]
    BY DEF Folder!Content
  <1> HIDE DEF new
  <1> QED BY <1>1, <1>2, PutFilesIs

\* A mark makes another name, and different marks different ones.
LEMMA MarkedIs ==
  ASSUME NEW name \in Folder!FileNames, NEW mark \in Int
  PROVE  /\ Folder!Marked(name, mark) \in Folder!FileNames
         /\ Folder!Marked(name, mark).doc = name.doc
         /\ Len(Folder!Marked(name, mark).marks) = Len(name.marks) + 1 /\ Len(name.marks) \in Nat
         /\ Folder!Marked(name, mark).marks[Len(name.marks) + 1] = mark
         /\ \A k \in 1 .. Len(name.marks) : Folder!Marked(name, mark).marks[k] = name.marks[k]
         /\ name = [doc |-> name.doc, marks |-> name.marks]
  <1>1. name.marks \in Seq(Int) /\ name = [doc |-> name.doc, marks |-> name.marks]
    BY DEF Folder!FileNames
  <1>2. Folder!Marked(name, mark).marks = Append(name.marks, mark) /\ Folder!Marked(name, mark).doc = name.doc
    BY <1>1 DEF Folder!Marked
  <1>3. Append(name.marks, mark) \in Seq(Int)
    BY <1>1
  <1>4. Folder!Marked(name, mark) \in Folder!FileNames
    BY <1>1, <1>2, <1>3 DEF Folder!FileNames, Folder!Marked
  <1> QED BY <1>1, <1>2, <1>4

\* Two marked names are the same only if name and mark are.
LEMMA MarkedOnce ==
  ASSUME NEW a \in Folder!FileNames, NEW b \in Folder!FileNames, NEW m \in Int, NEW n \in Int,
         Folder!Marked(a, m) = Folder!Marked(b, n)
  PROVE  a = b /\ m = n
  <1>1. a.marks \in Seq(Int) /\ b.marks \in Seq(Int)
    BY DEF Folder!FileNames
  <1> DEFINE c == Folder!Marked(a, m)
             d == Folder!Marked(b, n)
  <1>2. /\ Len(c.marks) = Len(a.marks) + 1 /\ c.doc = a.doc /\ c.marks[Len(a.marks) + 1] = m
        /\ \A k \in 1 .. Len(a.marks) : c.marks[k] = a.marks[k]
        /\ a = [doc |-> a.doc, marks |-> a.marks] /\ Len(a.marks) \in Nat
    BY MarkedIs
  <1>3. /\ Len(d.marks) = Len(b.marks) + 1 /\ d.doc = b.doc /\ d.marks[Len(b.marks) + 1] = n
        /\ \A k \in 1 .. Len(b.marks) : d.marks[k] = b.marks[k]
        /\ b = [doc |-> b.doc, marks |-> b.marks] /\ Len(b.marks) \in Nat
    BY MarkedIs
  <1>4. c = d
    OBVIOUS
  <1> HIDE DEF c, d
  <1>5. Len(a.marks) = Len(b.marks)
    BY <1>2, <1>3, <1>4
  <1>6. m = n /\ \A k \in 1 .. Len(a.marks) : a.marks[k] = b.marks[k]
    BY <1>2, <1>3, <1>4, <1>5
  <1>7. a.marks = b.marks
    <2>1. a.marks = [k \in 1 .. Len(a.marks) |-> a.marks[k]]
      BY <1>1
    <2>2. b.marks = [k \in 1 .. Len(b.marks) |-> b.marks[k]]
      BY <1>1
    <2> QED BY <1>5, <1>6, <2>1, <2>2
  <1> QED BY <1>2, <1>3, <1>4, <1>6, <1>7

\* The first free name is free: it has one of more candidates than there are files.
LEMMA FirstFreeIs ==
  ASSUME IsFiniteSet(DOMAIN v3), NEW name \in Folder!FileNames
  PROVE  /\ Folder!FirstFree(name) \notin DOMAIN v3 /\ Folder!FirstFree(name) \in Folder!FileNames
         /\ \/ Folder!FirstFree(name) = name
            \/ \E n \in Nat : n >= 2 /\ Folder!FirstFree(name) = Folder!Marked(name, n)
  <1> DEFINE D == DOMAIN v3
             C == Cardinality(D)
             numbers == {n \in 2 .. C + 2 : Folder!Marked(name, n) \notin D}
  <1>1. C \in Nat
    BY FS_CardinalityType
  <1>2. IsFiniteSet(2 .. C + 2) /\ Cardinality(2 .. C + 2) = C + 1
    <2> HIDE DEF C
    <2> DEFINE top == C + 2
    <2>1. 2 \in Int /\ top \in Int /\ ~(2 > top) /\ top - 2 + 1 = C + 1
      BY <1>1
    <2> HIDE DEF top
    <2>2. IsFiniteSet(2 .. top) /\ Cardinality(2 .. top) = top - 2 + 1
      BY <2>1, FS_Interval
    <2> QED BY <2>1, <2>2 DEF top
  <1>3. numbers # {}
    <2> SUFFICES ASSUME numbers = {} PROVE FALSE
      OBVIOUS
    <2> DEFINE f == [n \in 2 .. C + 2 |-> Folder!Marked(name, n)]
    <2>1. \A n \in 2 .. C + 2 : Folder!Marked(name, n) \in D /\ n \in Int
      OBVIOUS
    <2>2. \A m, n \in 2 .. C + 2 : Folder!Marked(name, m) = Folder!Marked(name, n) => m = n
      BY <2>1, MarkedOnce
    <2> HIDE DEF C, D
    <2>3. f \in Injection(2 .. C + 2, D)
      BY <2>1, <2>2 DEF Injection, IsInjective
    <2>4. Cardinality(2 .. C + 2) <= C
      BY <2>3, FS_Injection DEF C, D
    <2> QED BY <1>1, <1>2, <2>4
  <1>4. numbers \in SUBSET (1 .. C + 2) /\ C + 2 \in Nat
    BY <1>1
  <1>5. PICK n \in numbers : \A k \in numbers : n <= k
    <2> HIDE DEF numbers, C
    <2> QED BY <1>3, <1>4, LastAndFirst
  <1>6. Folder!Min(numbers) \in numbers
    <2> HIDE DEF numbers
    <2> QED BY <1>5 DEF Folder!Min
  <1>7. CASE name \notin D
    BY <1>7 DEF Folder!FirstFree, Folder!Free
  <1>8. CASE name \in D
    <2> DEFINE n0 == Folder!Min(numbers)
    <2>1. Folder!FirstFree(name) = Folder!Marked(name, n0)
      BY <1>8, SameFileCount DEF Folder!FirstFree, Folder!Free
    <2>2. n0 \in Nat /\ n0 >= 2 /\ Folder!Marked(name, n0) \notin D
      <3> HIDE DEF n0
      <3> QED BY <1>1, <1>6 DEF n0
    <2> HIDE DEF n0, D
    <2>3. Folder!Marked(name, n0) \in Folder!FileNames
      BY <2>2, MarkedIs
    <2> QED BY <2>1, <2>2, <2>3 DEF D
  <1> QED BY <1>7, <1>8

\* A dated copy is a new file, and files have different ones.
LEMMA DatedCopyIs ==
  ASSUME IsFiniteSet(DOMAIN v3), v2 \in Nat \ {0}, NEW name \in Folder!FileNames
  PROVE  /\ Folder!DatedCopyName(name) \notin DOMAIN v3 /\ Folder!DatedCopyName(name) \in Folder!FileNames
         /\ Folder!IsDatedCopy(Folder!DatedCopyName(name))
         /\ \/ Folder!DatedCopyName(name) = Folder!Marked(name, -v2)
            \/ \E n \in Nat : n >= 2 /\ Folder!DatedCopyName(name) = Folder!Marked(Folder!Marked(name, -v2), n)
  <1> DEFINE dated == Folder!Marked(name, -v2)
             copy == Folder!DatedCopyName(name)
  <1>1. -v2 \in Int /\ -v2 < 0
    OBVIOUS
  <1>2. /\ dated \in Folder!FileNames /\ Len(name.marks) \in Nat
        /\ Len(dated.marks) = Len(name.marks) + 1 /\ dated.marks[Len(name.marks) + 1] = -v2
    BY <1>1, MarkedIs
  <1>3. copy = Folder!FirstFree(dated)
    BY DEF Folder!DatedCopyName
  <1> HIDE DEF dated
  <1>4. copy \notin DOMAIN v3 /\ copy \in Folder!FileNames
    BY <1>2, <1>3, FirstFreeIs
  <1>5. copy = dated \/ \E n \in Nat : n >= 2 /\ copy = Folder!Marked(dated, n)
    BY <1>2, <1>3, FirstFreeIs
  <1> HIDE DEF copy
  <1>6. Folder!IsDatedCopy(copy)
    <2>1. CASE copy = dated
      BY <1>1, <1>2, <2>1 DEF Folder!IsDatedCopy
    <2>2. ASSUME NEW n \in Nat, n >= 2, copy = Folder!Marked(dated, n) PROVE Folder!IsDatedCopy(copy)
      <3>1. n \in Int
        OBVIOUS
      <3>2. /\ Len(copy.marks) = Len(dated.marks) + 1 /\ copy.marks[Len(dated.marks) + 1] = n
            /\ \A k \in 1 .. Len(dated.marks) : copy.marks[k] = dated.marks[k]
        BY <1>2, <2>2, <3>1, MarkedIs
      <3>3. /\ Len(copy.marks) \in Nat /\ Len(copy.marks) - 1 = Len(dated.marks)
            /\ Len(copy.marks) > 1 /\ Len(dated.marks) \in 1 .. Len(dated.marks)
        BY <1>2, <3>2
      <3>4. copy.marks[Len(copy.marks)] = n /\ copy.marks[Len(dated.marks)] = dated.marks[Len(dated.marks)]
        BY <3>2, <3>3
      <3>5. copy.marks[Len(copy.marks)] > 0 /\ copy.marks[Len(dated.marks)] < 0
        BY <1>1, <1>2, <2>2, <3>4
      <3> QED BY <3>3, <3>5 DEF Folder!IsDatedCopy
    <2> QED BY <1>5, <2>1, <2>2
  <1> QED BY <1>4, <1>5, <1>6 DEF dated, copy

\* Different files have different copies: a date is no number.
LEMMA CopiedOnce ==
  ASSUME IsFiniteSet(DOMAIN v3), v2 \in Nat \ {0}, NEW a \in Folder!FileNames, NEW b \in Folder!FileNames,
         Folder!DatedCopyName(a) = Folder!DatedCopyName(b)
  PROVE  a = b
  <1> DEFINE da == Folder!Marked(a, -v2)
             db == Folder!Marked(b, -v2)
  <1>1. -v2 \in Int /\ -v2 < 0
    OBVIOUS
  <1>2. da \in Folder!FileNames /\ db \in Folder!FileNames
    BY <1>1, MarkedIs
  <1>3. \/ Folder!DatedCopyName(a) = da
        \/ \E n \in Nat : n >= 2 /\ Folder!DatedCopyName(a) = Folder!Marked(da, n)
    BY DatedCopyIs
  <1>4. \/ Folder!DatedCopyName(b) = db
        \/ \E n \in Nat : n >= 2 /\ Folder!DatedCopyName(b) = Folder!Marked(db, n)
    BY DatedCopyIs
  <1>5. ASSUME da = db PROVE a = b
    BY <1>1, <1>5, MarkedOnce
  <1>6. ASSUME NEW n \in Nat, n >= 2, NEW c \in Folder!FileNames, NEW d \in Folder!FileNames,
               Folder!Marked(c, -v2) = Folder!Marked(d, n)
        PROVE  FALSE
    <2>1. n \in Int
      OBVIOUS
    <2>2. -v2 = n
      BY <1>1, <1>6, <2>1, MarkedOnce
    <2> QED BY <1>1, <1>6, <2>2
  <1>7. ASSUME NEW m \in Nat, NEW n \in Nat, Folder!Marked(da, m) = Folder!Marked(db, n)
        PROVE  a = b
    <2>1. m \in Int /\ n \in Int
      OBVIOUS
    <2> HIDE DEF da, db
    <2>2. da = db
      BY <1>2, <1>7, <2>1, MarkedOnce
    <2> QED BY <1>5, <2>2
  <1> QED BY <1>2, <1>3, <1>4, <1>5, <1>6, <1>7

\* What the invariant says of the files.
LEMMA FileShape ==
  ASSUME Folder!FilesInv
  PROVE  /\ v2 \in Nat \ {0} /\ v6 \in Nat /\ v4 \in [Folder!Routines -> Int]
         /\ IsFiniteSet(DOMAIN v3) /\ DOMAIN v3 \subseteq Folder!FileNames
         /\ v3 = [name \in DOMAIN v3 |-> v3[name]]
         /\ \A name \in DOMAIN v3 : v3[name].no \in Nat
         /\ \A routine \in Folder!Routines : v4[routine] <= v6
  BY DEF Folder!FilesInv, Folder!IsFiniteSet, IsFiniteSet

\* A file that an agent may replace is kept, new or told to be uncopied.
Safe(routine, name) ==
  \/ Folder!KeptDated(name, v3)
  \/ v3[name].no > v4[routine] \/ v3[name].no \in v5

\* The copies of some files: each has one, and nothing else changes.
LEMMA BackupIs ==
  ASSUME Folder!FilesInv, NEW names \in SUBSET DOMAIN v3, Folder!Backup(names)
  PROVE  /\ IsFiniteSet(DOMAIN v3') /\ DOMAIN v3' \subseteq Folder!FileNames /\ DOMAIN v3 \subseteq DOMAIN v3'
         /\ v3' = [x \in DOMAIN v3' |-> v3'[x]]
         /\ \A x \in DOMAIN v3 : v3'[x] = v3[x]
         /\ \A x \in DOMAIN v3' : x \notin DOMAIN v3 => Folder!IsDatedCopy(x) /\ v3'[x].no \in Nat
         /\ \A name \in names : Folder!KeptDated(name, v3)'
  <1> DEFINE D == DOMAIN v3
             Copy(name) == Folder!DatedCopyName(name)
             copies == {Copy(name) : name \in names}
             From(copy) == CHOOSE name \in names : Copy(name) = copy
             new == [copy \in copies |-> [by |-> "copy", no |-> v3[From(copy)].no]]
             f == [name \in names |-> Copy(name)]
  <1>1. /\ IsFiniteSet(D) /\ names \subseteq Folder!FileNames /\ v2 \in Nat \ {0} /\ D \subseteq Folder!FileNames
        /\ \A name \in D : v3[name].no \in Nat
    BY FileShape
  <1>2. \A name \in names : Copy(name) \notin D /\ Copy(name) \in Folder!FileNames /\ Folder!IsDatedCopy(Copy(name))
    BY <1>1, DatedCopyIs
  <1>3. \A a, b \in names : Copy(a) = Copy(b) => a = b
    BY <1>1, CopiedOnce
  <1>4. Folder!PutFiles(new)
    BY DEF Folder!Backup
  <1> HIDE DEF Copy
  <1>5. \A copy \in copies : From(copy) \in names /\ Copy(From(copy)) = copy
    OBVIOUS
  <1>6. \A name \in names : From(Copy(name)) = name
    <2> HIDE DEF From
    <2> QED BY <1>3, <1>5
  <1> HIDE DEF From
  <1>7. IsFiniteSet(names) /\ IsFiniteSet(copies)
    <2>1. IsFiniteSet(names)
      BY <1>1, FS_Subset
    <2>2. f \in Surjection(names, copies)
      BY DEF Surjection
    <2> QED BY <2>1, <2>2, FS_Surjection
  <1>8. DOMAIN new = copies /\ \A copy \in copies : new[copy].no = v3[From(copy)].no
    OBVIOUS
  <1> HIDE DEF new
  <1>9. /\ DOMAIN v3' = copies \cup D /\ v3' = [x \in DOMAIN v3' |-> v3'[x]]
        /\ \A x \in copies : v3'[x] = new[x]
        /\ \A x \in D : x \notin copies => v3'[x] = v3[x]
    BY <1>4, <1>8, PutFilesIs
  <1>10. \A x \in copies : x \notin D /\ x \in Folder!FileNames /\ Folder!IsDatedCopy(x)
    BY <1>2
  <1>11. \A x \in D : v3'[x] = v3[x]
    BY <1>9, <1>10
  <1>12. \A x \in copies : v3'[x].no \in Nat
    BY <1>1, <1>5, <1>8, <1>9
  <1>13. ASSUME NEW name \in names
         PROVE  \E copy \in DOMAIN v3' : Folder!IsDatedCopy(copy) /\ v3'[copy].no = v3'[name].no
    <2>1. Copy(name) \in copies
      OBVIOUS
    <2> HIDE DEF copies
    <2>2. v3'[Copy(name)].no = v3[name].no
      BY <1>6, <1>8, <1>9, <2>1
    <2> QED BY <1>2, <1>9, <1>11, <2>1, <2>2
  <1>14. IsFiniteSet(DOMAIN v3')
    <2> HIDE DEF copies, D
    <2>1. IsFiniteSet(copies \cup D)
      BY <1>1, <1>7, FS_Union
    <2> QED BY <1>9, <2>1
  <1> HIDE DEF copies
  <1> QED BY <1>1, <1>9, <1>10, <1>11, <1>12, <1>13, <1>14 DEF Folder!KeptDated

\* A write, unless it is one over a dated copy, leaves what agents may replace kept.
LEMMA PutKeepsFiles ==
  ASSUME Folder!FilesInv, NEW name \in Folder!FileNames, NEW by, Folder!Put(name, by),
         name \notin DOMAIN v3 \/ ~Folder!IsDatedCopy(name), UNCHANGED <<v2, v4, v5>>
  PROVE  Folder!FilesInv'
  <1>1. /\ v2 \in Nat \ {0} /\ v6 \in Nat /\ v4 \in [Folder!Routines -> Int]
        /\ IsFiniteSet(DOMAIN v3) /\ DOMAIN v3 \subseteq Folder!FileNames
        /\ \A x \in DOMAIN v3 : v3[x].no \in Nat
        /\ \A routine \in Folder!Routines : v4[routine] <= v6
    BY FileShape
  <1>2. /\ v6' = v6 + 1 /\ DOMAIN v3' = DOMAIN v3 \cup {name}
        /\ v3' = [x \in DOMAIN v3' |-> v3'[x]]
        /\ v3'[name] = [by |-> by, no |-> v6 + 1]
        /\ \A x \in DOMAIN v3 : x # name => v3'[x] = v3[x]
    BY PutIs
  <1>3. IsFiniteSet(DOMAIN v3')
    BY <1>1, <1>2, FS_AddElement
  <1>4. v3'[name].no = v6 + 1 /\ \A x \in DOMAIN v3' : v3'[x].no \in Nat
    BY <1>1, <1>2
  <1>5. ASSUME NEW routine \in Folder!Routines, v4[routine] # Folder!NoAgent,
               NEW x \in DOMAIN v3', x \in Folder!RoutineOutputFiles(routine)'
        PROVE  Safe(routine, x)'
    <2>1. CASE x = name
      <3>1. v3'[x].no > v4'[routine]
        BY <1>1, <1>4, <2>1
      <3> QED BY <3>1 DEF Safe
    <2>2. CASE x # name
      <3>1. x \in DOMAIN v3 /\ v3'[x] = v3[x]
        BY <1>2, <2>2
      <3>2. x \in Folder!RoutineOutputFiles(routine)
        BY <1>5, <3>1 DEF Folder!RoutineOutputFiles, Folder!CurrentFiles, Folder!IsPrepDoc
      <3>3. Safe(routine, x)
        BY <1>5, <3>2 DEF Folder!FilesInv, Safe
      <3>4. CASE Folder!KeptDated(x, v3)
        <4>1. PICK copy \in DOMAIN v3 : Folder!IsDatedCopy(copy) /\ v3[copy].no = v3[x].no
          BY <3>4 DEF Folder!KeptDated
        <4>2. copy # name /\ copy \in DOMAIN v3'
          BY <1>2, <4>1
        <4>3. v3'[copy] = v3[copy]
          BY <1>2, <4>1, <4>2
        <4> QED BY <3>1, <4>1, <4>2, <4>3 DEF Folder!KeptDated, Safe
      <3> QED BY <3>1, <3>3, <3>4 DEF Safe
    <2> QED BY <2>1, <2>2
  <1>6. v6' \in Nat /\ \A routine \in Folder!Routines : v4'[routine] <= v6'
    BY <1>1, <1>2
  <1>7. \A routine \in Folder!Routines : v4[routine] # Folder!NoAgent =>
          \A x \in Folder!RoutineOutputFiles(routine)' : Safe(routine, x)'
    BY <1>5 DEF Folder!RoutineOutputFiles, Folder!CurrentFiles
  <1>8. DOMAIN v3' \subseteq Folder!FileNames
    BY <1>1, <1>2
  <1> QED BY <1>1, <1>2, <1>3, <1>4, <1>6, <1>7, <1>8
       DEF Folder!FilesInv, Safe, Folder!IsFiniteSet, IsFiniteSet

\* A write over a file is one that may replace it.
LEMMA PutStands ==
  ASSUME Folder!FilesInv, NEW name \in Folder!FileNames, NEW by, Folder!Put(name, by),
         \/ name \notin DOMAIN v3
         \/ by \in {"note", "artifact"} /\ ~Folder!IsDatedCopy(name)
         \/ /\ by \in Folder!Routines /\ v4[by] # Folder!NoAgent
            /\ name \in Folder!RoutineOutputFiles(by)
  PROVE  Folder!FilesStand
  <1>1. /\ DOMAIN v3' = DOMAIN v3 \cup {name} /\ v3'[name].by = by
        /\ \A x \in DOMAIN v3 : x # name => v3'[x] = v3[x]
    <2>1. v3'[name] = [by |-> by, no |-> v6 + 1]
      BY PutIs
    <2>2. DOMAIN v3' = DOMAIN v3 \cup {name} /\ \A x \in DOMAIN v3 : x # name => v3'[x] = v3[x]
      BY PutIs
    <2> QED BY <2>1, <2>2
  <1>2. ASSUME name \in DOMAIN v3, by \in {"note", "artifact"}, ~Folder!IsDatedCopy(name)
        PROVE  Folder!FilesStand
    BY <1>1, <1>2 DEF Folder!FilesStand, Folder!Routines
  <1>3. ASSUME name \in DOMAIN v3, by \in Folder!Routines, v4[by] # Folder!NoAgent,
               name \in Folder!RoutineOutputFiles(by)
        PROVE  Folder!FilesStand
    <2>1. ~Folder!IsDatedCopy(name)
      BY <1>3 DEF Folder!RoutineOutputFiles, Folder!CurrentFiles
    <2>2. Safe(by, name)
      BY <1>3 DEF Folder!FilesInv, Safe
    <2>3. Folder!KeptDated(name, v3') \/ v3[name].no > v4[by] \/ v3[name].no \in v5
      <3>1. CASE Folder!KeptDated(name, v3)
        <4>1. PICK copy \in DOMAIN v3 : Folder!IsDatedCopy(copy) /\ v3[copy].no = v3[name].no
          BY <3>1 DEF Folder!KeptDated
        <4>2. copy # name /\ copy \in DOMAIN v3' /\ v3'[copy] = v3[copy]
          BY <1>1, <2>1, <4>1
        <4> QED BY <4>1, <4>2 DEF Folder!KeptDated
      <3> QED BY <2>2, <3>1 DEF Safe
    <2> QED BY <1>1, <1>3, <2>1, <2>3 DEF Folder!FilesStand
  <1>4. ASSUME name \notin DOMAIN v3 PROVE Folder!FilesStand
    BY <1>1, <1>4 DEF Folder!FilesStand
  <1> QED BY <1>2, <1>3, <1>4

\* A launch copies what its agent may replace, or tells that it could not.
LEMMA LaunchKeepsFiles ==
  ASSUME Folder!FilesInv, NEW routine \in Folder!Routines, Folder!Launch(routine)
  PROVE  Folder!FilesInv' /\ Folder!FilesStand
  <1> DEFINE outputs == Folder!RoutineOutputFiles(routine)
  <1>1. /\ v2 \in Nat \ {0} /\ v6 \in Nat /\ v4 \in [Folder!Routines -> Int]
        /\ \A x \in DOMAIN v3 : v3[x].no \in Nat
        /\ \A r \in Folder!Routines : v4[r] <= v6
    BY FileShape
  <1>2. v4' = [v4 EXCEPT ![routine] = v6] /\ UNCHANGED <<v2, v6>> /\ v4[routine] = Folder!NoAgent
    BY DEF Folder!Launch
  <1>3. PICK failed \in SUBSET outputs :
          Folder!Backup(outputs \ failed) /\ v5' = v5 \cup {v3[name].no : name \in failed}
    BY DEF Folder!Launch
  <1>4. \A r \in Folder!Routines : Folder!RoutineOutputFiles(r) \subseteq DOMAIN v3
    BY DEF Folder!RoutineOutputFiles, Folder!CurrentFiles
  <1> DEFINE names == outputs \ failed
  <1>5. /\ IsFiniteSet(DOMAIN v3') /\ DOMAIN v3' \subseteq Folder!FileNames /\ DOMAIN v3 \subseteq DOMAIN v3'
        /\ v3' = [x \in DOMAIN v3' |-> v3'[x]]
        /\ \A x \in DOMAIN v3 : v3'[x] = v3[x]
        /\ \A x \in DOMAIN v3' : x \notin DOMAIN v3 => Folder!IsDatedCopy(x) /\ v3'[x].no \in Nat
        /\ \A name \in names : Folder!KeptDated(name, v3)'
    <2>1. names \in SUBSET DOMAIN v3 /\ Folder!Backup(names)
      BY <1>3, <1>4
    <2> HIDE DEF names
    <2> QED BY <2>1, BackupIs
  <1>6. v4' \in [Folder!Routines -> Int] /\ \A r \in Folder!Routines : v4'[r] <= v6'
    BY <1>1, <1>2
  <1>7. \A x \in DOMAIN v3' : v3'[x].no \in Nat
    BY <1>1, <1>5
  <1>8. ASSUME NEW r \in Folder!Routines, v4'[r] # Folder!NoAgent,
               NEW x \in DOMAIN v3', x \in Folder!RoutineOutputFiles(r)'
        PROVE  Safe(r, x)'
    <2>1. x \in DOMAIN v3 /\ v3'[x] = v3[x]
      BY <1>5, <1>8 DEF Folder!RoutineOutputFiles, Folder!CurrentFiles
    <2>2. x \in Folder!RoutineOutputFiles(r)
      BY <1>8, <2>1 DEF Folder!RoutineOutputFiles, Folder!CurrentFiles, Folder!IsPrepDoc
    <2>3. CASE r = routine
      <3>1. CASE x \in failed
        <4>1. v3'[x].no \in v5'
          BY <1>3, <2>1, <3>1
        <4> QED BY <4>1 DEF Safe
      <3>2. CASE x \in names
        <4>1. Folder!KeptDated(x, v3)'
          BY <1>5, <3>2
        <4> QED BY <4>1 DEF Safe
      <3> QED BY <2>2, <2>3, <3>1, <3>2
    <2>4. CASE r # routine
      <3>1. v4'[r] = v4[r] /\ v4[r] # Folder!NoAgent
        BY <1>1, <1>2, <1>8, <2>4
      <3>2. Safe(r, x)
        BY <2>2, <3>1 DEF Folder!FilesInv, Safe
      <3>3. CASE Folder!KeptDated(x, v3)
        <4>1. PICK copy \in DOMAIN v3 : Folder!IsDatedCopy(copy) /\ v3[copy].no = v3[x].no
          BY <3>3 DEF Folder!KeptDated
        <4>2. copy \in DOMAIN v3' /\ v3'[copy] = v3[copy]
          BY <1>5, <4>1
        <4> QED BY <2>1, <4>1, <4>2 DEF Folder!KeptDated, Safe
      <3> QED BY <1>3, <2>1, <3>1, <3>2, <3>3 DEF Safe
    <2> QED BY <2>3, <2>4
  <1>9. \A r \in Folder!Routines : v4'[r] # Folder!NoAgent =>
          \A x \in Folder!RoutineOutputFiles(r)' : Safe(r, x)'
    BY <1>8 DEF Folder!RoutineOutputFiles, Folder!CurrentFiles
  <1>10. Folder!FilesStand
    BY <1>5 DEF Folder!FilesStand
  <1>11. Folder!FilesInv'
    BY <1>1, <1>2, <1>5, <1>6, <1>7, <1>9 DEF Folder!FilesInv, Safe, Folder!IsFiniteSet, IsFiniteSet
  <1> QED BY <1>10, <1>11

\* The names that are written under, and where they may be files already.
LEMMA NamesAre ==
  /\ FileUploads \cup FileNotes \subseteq Folder!FileNames
  /\ \A routine \in Folder!Routines : \A name \in Folder!FirstOutputs(routine) :
       /\ name \in Folder!FileNames /\ ~Folder!IsDatedCopy(name)
       /\ name \in DOMAIN v3 => name \in Folder!RoutineOutputFiles(routine)
  <1>1. <<>> \in Seq(Int) /\ <<-1>> \in Seq(Int) /\ Len(<<>>) = 0
    OBVIOUS
  <1>2. FileUploads \cup FileNotes \subseteq Folder!FileNames
    BY <1>1 DEF FileUploads, FileNotes, Folder!FileNames
  <1>3. ASSUME NEW routine \in Folder!Routines, NEW name \in Folder!FirstOutputs(routine)
        PROVE  /\ name \in Folder!FileNames /\ ~Folder!IsDatedCopy(name)
               /\ name \in DOMAIN v3 => name \in Folder!RoutineOutputFiles(routine)
    <2>1. /\ name.marks = <<>> /\ name = [doc |-> name.doc, marks |-> <<>>]
          /\ name.doc \in {"cv", "prep", "feedback"}
          /\ routine = "first-draft-job" => name.doc = "cv"
          /\ routine = "interview-prep" => name.doc \in {"prep", "feedback"}
          /\ routine = "interview-prep-refine" => name.doc = "prep"
      BY <1>3 DEF Folder!FirstOutputs, Folder!Name, Folder!Routines
    <2>2. name \in Folder!FileNames
      BY <1>1, <2>1 DEF Folder!FileNames
    <2>3. ~Folder!IsDatedCopy(name)
      BY <1>1, <2>1 DEF Folder!IsDatedCopy
    <2>4. name \in DOMAIN v3 => name \in Folder!CurrentFiles
      BY <2>3 DEF Folder!CurrentFiles
    <2> QED BY <2>1, <2>2, <2>3, <2>4 DEF Folder!RoutineOutputFiles, Folder!IsPrepDoc, Folder!Routines
  <1> QED BY <1>2, <1>3

\* Files stand: what is replaced may be, and is kept when an agent replaces it.
LEMMA FilesStay ==
  ASSUME Folder!FilesInv, [Folder!FilesNext]_(Folder!filesVars), LocalRoutines \subseteq Folder!Routines
  PROVE  Folder!FilesInv' /\ Folder!FilesStand
  <1>1. ASSUME NEW name \in FileUploads, Folder!Upload(name)
        PROVE  Folder!FilesInv' /\ Folder!FilesStand
    <2> DEFINE free == Folder!FirstFree(name)
    <2>1. free \notin DOMAIN v3 /\ free \in Folder!FileNames
      BY NamesAre, FileShape, FirstFreeIs
    <2>2. Folder!Put(free, "upload") /\ UNCHANGED <<v2, v4, v5>>
      BY <1>1 DEF Folder!Upload
    <2> HIDE DEF free
    <2> QED BY <2>1, <2>2, PutKeepsFiles, PutStands
  <1>2. ASSUME NEW name \in FileUploads, Folder!AddJobFileIfAbsent(name)
        PROVE  Folder!FilesInv' /\ Folder!FilesStand
    <2>1. name \notin DOMAIN v3 /\ Folder!Put(name, "vault") /\ UNCHANGED <<v2, v4, v5>>
      BY <1>2 DEF Folder!AddJobFileIfAbsent, Folder!Free
    <2>2. name \in Folder!FileNames
      BY NamesAre
    <2> QED BY <2>1, <2>2, PutKeepsFiles, PutStands
  <1>3. ASSUME NEW name \in FileNotes, Folder!WriteJobNote(name)
        PROVE  Folder!FilesInv' /\ Folder!FilesStand
    <2>1. ~Folder!IsDatedCopy(name) /\ Folder!Put(name, "note") /\ UNCHANGED <<v2, v4, v5>>
      BY <1>3 DEF Folder!WriteJobNote, Folder!NoteAllowed
    <2>2. name \in Folder!FileNames
      BY NamesAre
    <2> QED BY <2>1, <2>2, PutKeepsFiles, PutStands
  <1>4. ASSUME NEW name \in FileUploads \cup FileNotes, Folder!SaveJobArtifact(name)
        PROVE  Folder!FilesInv' /\ Folder!FilesStand
    <2>1. ~Folder!IsDatedCopy(name) /\ Folder!Put(name, "artifact") /\ UNCHANGED <<v2, v4, v5>>
      BY <1>4 DEF Folder!SaveJobArtifact
    <2>2. name \in Folder!FileNames
      BY NamesAre
    <2> QED BY <2>1, <2>2, PutKeepsFiles, PutStands
  <1>5. ASSUME NEW routine \in LocalRoutines, Folder!Launch(routine)
        PROVE  Folder!FilesInv' /\ Folder!FilesStand
    BY <1>5, LaunchKeepsFiles
  <1>6. ASSUME NEW routine \in LocalRoutines, Folder!AgentWrites(routine)
        PROVE  Folder!FilesInv' /\ Folder!FilesStand
    <2>1. v4[routine] # Folder!NoAgent /\ UNCHANGED <<v2, v4, v5>> /\ routine \in Folder!Routines
      BY <1>6 DEF Folder!AgentWrites
    <2>2. PICK name \in Folder!RoutineOutputFiles(routine) \cup Folder!FirstOutputs(routine) :
            Folder!Put(name, routine)
      BY <1>6 DEF Folder!AgentWrites
    <2>3. CASE name \in Folder!RoutineOutputFiles(routine)
      <3>1. name \in DOMAIN v3 /\ ~Folder!IsDatedCopy(name)
        BY <2>3 DEF Folder!RoutineOutputFiles, Folder!CurrentFiles
      <3>2. name \in Folder!FileNames
        BY <3>1, FileShape
      <3> QED BY <2>1, <2>2, <2>3, <3>1, <3>2, PutKeepsFiles, PutStands
    <2>4. CASE name \in Folder!FirstOutputs(routine) /\ name \notin DOMAIN v3
      <3>1. name \in Folder!FileNames
        BY <2>1, <2>4, NamesAre
      <3> QED BY <2>1, <2>2, <2>4, <3>1, PutKeepsFiles, PutStands
    <2> QED BY <2>1, <2>2, <2>3, <2>4, NamesAre
  <1>7. ASSUME NEW routine \in LocalRoutines, Folder!AgentEnds(routine)
        PROVE  Folder!FilesInv' /\ Folder!FilesStand
    <2>1. v4' = [v4 EXCEPT ![routine] = Folder!NoAgent] /\ UNCHANGED <<v2, v3, v5, v6>>
      BY <1>7 DEF Folder!AgentEnds
    <2>2. /\ v2 \in Nat \ {0} /\ v6 \in Nat /\ v4 \in [Folder!Routines -> Int]
          /\ \A r \in Folder!Routines : v4[r] <= v6
      BY FileShape
    <2>3. \A r \in Folder!Routines : v4'[r] = v4[r] \/ v4'[r] = -1
      BY <2>1, <2>2 DEF Folder!NoAgent
    <2>4. v4' \in [Folder!Routines -> Int] /\ \A r \in Folder!Routines : v4'[r] <= v6
      BY <2>1, <2>2, <2>3 DEF Folder!NoAgent
    <2>5. ASSUME NEW r \in Folder!Routines, v4'[r] # Folder!NoAgent
          PROVE  v4[r] # Folder!NoAgent /\ v4'[r] = v4[r]
      BY <2>3, <2>5 DEF Folder!NoAgent
    <2>6. \A r \in Folder!Routines : Folder!RoutineOutputFiles(r)' = Folder!RoutineOutputFiles(r)
      BY <2>1 DEF Folder!RoutineOutputFiles, Folder!CurrentFiles, Folder!IsPrepDoc
    <2>7. Folder!FilesInv'
      BY <2>1, <2>4, <2>5, <2>6 DEF Folder!FilesInv, Folder!KeptDated
    <2> QED BY <2>1, <2>7 DEF Folder!FilesStand
  <1>8. ASSUME Folder!NextDay PROVE Folder!FilesInv' /\ Folder!FilesStand
    <2>1. v2' = v2 + 1 /\ UNCHANGED <<v3, v4, v5, v6>>
      BY <1>8 DEF Folder!NextDay
    <2>2. v2' \in Nat \ {0}
      BY <2>1, FileShape
    <2> QED BY <2>1, <2>2 DEF Folder!FilesInv, Folder!KeptDated, Folder!RoutineOutputFiles,
            Folder!CurrentFiles, Folder!IsPrepDoc, Folder!FilesStand
  <1>9. ASSUME UNCHANGED Folder!filesVars PROVE Folder!FilesInv' /\ Folder!FilesStand
    BY <1>9 DEF Folder!filesVars, Folder!FilesInv, Folder!KeptDated, Folder!RoutineOutputFiles,
       Folder!CurrentFiles, Folder!IsPrepDoc, Folder!FilesStand
  <1> QED BY <1>1, <1>2, <1>3, <1>4, <1>5, <1>6, <1>7, <1>8, <1>9 DEF Folder!FilesNext

\* There are no files at first.
LEMMA FilesAtFirst == Folder!FilesInit => Folder!FilesInv
  <1> SUFFICES ASSUME Folder!FilesInit PROVE Folder!FilesInv
    OBVIOUS
  <1>1. /\ v2 = 1 /\ v3 = <<>> /\ v6 = 0
        /\ v4 = [routine \in Folder!Routines |-> Folder!NoAgent]
    BY DEF Folder!FilesInit
  <1>2. DOMAIN v3 = {} /\ v3 = [name \in DOMAIN v3 |-> v3[name]]
    BY <1>1
  <1>3. IsFiniteSet(DOMAIN v3)
    BY <1>2, FS_EmptySet
  <1>4. \A routine \in Folder!Routines : v4[routine] = Folder!NoAgent
    BY <1>1
  <1> QED BY <1>1, <1>2, <1>3, <1>4 DEF Folder!FilesInv, Folder!NoAgent, Folder!IsFiniteSet, IsFiniteSet
=================================================================================

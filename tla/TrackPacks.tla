------------------------------ MODULE TrackPacks ------------------------------
(***************************************************************************)
(* The facts a draft is written from, and the cache of what every draft of *)
(* a track repeats: /api/facts, /api/track-packs, and the rate of reuse    *)
(* that the result of a run records (server/facts-lib.js,                  *)
(* track-pack-lib.js, index.js and the stores).  A handler is one step.    *)
(*                                                                         *)
(* Abstractions.  A document is valid and small, and the hash of the facts *)
(* is the facts.  The agents follow skills/first-draft-job.md: a lookup,   *)
(* and on a miss the facts are read, the blocks built and the pack filed.  *)
(***************************************************************************)
EXTENDS Integers, FiniteSets

CONSTANTS
  Kinds,         \* FACTS_KINDS
  Docs,          \* documents a kind can hold
  Tracks,
  Rows,          \* first-draft rows of the agent queue, all claimed
  Absent,
  MaxSignals,    \* TRACK_PACK_SIGNAL_MAX_ENTRIES
  MaxPuts, MaxAttempts, MaxLookups, MaxRestarts   \* bounds

VARIABLES
  facts,    \* per kind, the stored record: the document and when it was put
  packs,    \* the cache
  signal,   \* trackPackReuseSignal
  attempt,  \* per row, the attempt its nonce belongs to
  result,   \* per row, the reuse counts its result recorded
  agents,   \* the agents at work
  count,    \* bounds: puts, lookups, restarts
  truth     \* (ghost) per row, its lookups, whether the signal lost some, and
            \* the lookups before its result if it had lost none

packVars == <<facts, packs, signal, attempt, result, agents, count, truth>>

NoCounts == [hits |-> 0, misses |-> 0]
Signalled == {r \in Rows : signal[r] # Absent}
Doc == [k \in Kinds |-> facts[k].doc]

\* The content hash: of the whole records getAllFacts returns, dates included.
ComputeFactsHash == facts

Filed(track) == {p \in packs : p.track = track /\ p.hash = ComputeFactsHash}

More(c, hit) == IF hit THEN [c EXCEPT !.hits = @ + 1] ELSE [c EXCEPT !.misses = @ + 1]

\* Mutant: at the cap the map is emptied.
NoteEmptyingAtCap(r, hit) ==
  LET room == r \in Signalled \/ Cardinality(Signalled) < MaxSignals
  IN  /\ signal' = [(IF room THEN signal ELSE [q \in Rows |-> Absent])
                      EXCEPT ![r] = More(IF @ = Absent THEN NoCounts ELSE @, hit)]
      /\ truth' = [truth EXCEPT ![r].counts = More(@, hit)]

\* noteTrackPackSignal of a lookup of row r.
NoteTrackPackSignal(r, hit) ==
  LET room == r \in Signalled \/ Cardinality(Signalled) < MaxSignals
  IN  /\ signal' = IF room THEN [signal EXCEPT ![r] = More(IF @ = Absent THEN NoCounts ELSE @, hit)]
                   ELSE signal
      /\ truth' = [truth EXCEPT ![r].counts = More(@, hit), ![r].lost = @ \/ ~room]

\* PUT /api/facts/:kind: the owner's edit or an agent's; the record is replaced.
PutFacts ==
  /\ count.puts < MaxPuts
  /\ \E k \in Kinds, d \in Docs :
       facts' = [facts EXCEPT ![k] = [doc |-> d, at |-> count.puts + 1]]
  /\ count' = [count EXCEPT !.puts = @ + 1]
  /\ UNCHANGED <<packs, signal, attempt, result, agents, truth>>

\* GET /api/track-packs/:track.
GetTrackPack ==
  /\ count.lookups < MaxLookups
  /\ \E a \in agents :
       /\ a.pc \in {"begin", "done"}
       /\ LET hit == Filed(a.track) # {}
          IN  /\ NoteTrackPackSignal(a.row, hit)
              /\ agents' = (agents \ {a}) \cup
                   {[a EXCEPT !.pc = IF hit THEN "done" ELSE "miss",
                              !.used = IF hit THEN (CHOOSE p \in Filed(a.track) : TRUE).from ELSE @,
                              !.current = Doc]}
  /\ count' = [count EXCEPT !.lookups = @ + 1]
  /\ UNCHANGED <<facts, packs, attempt, result>>

\* GET /api/facts; an agent stops when a kind was never set.
GetFacts ==
  /\ \E a \in agents :
       /\ a.pc = "miss"
       /\ agents' = (agents \ {a}) \cup
            IF \E k \in Kinds : Doc[k] = Absent THEN {[a EXCEPT !.pc = "done"]}
            ELSE {[a EXCEPT !.pc = "build", !.used = Doc, !.current = Doc]}
  /\ UNCHANGED <<facts, packs, signal, attempt, result, count, truth>>

\* PUT /api/track-packs/:track: filed under the hash of the facts as they are
\* now, over the pack that had that key; counted as a miss.
PutTrackPack ==
  /\ \E a \in agents :
       /\ a.pc = "build"
       /\ packs' = (packs \ Filed(a.track)) \cup
                     {[track |-> a.track, hash |-> ComputeFactsHash, from |-> a.used]}
       /\ NoteTrackPackSignal(a.row, FALSE)
       /\ agents' = (agents \ {a}) \cup {[a EXCEPT !.pc = "done"]}
  /\ UNCHANGED <<facts, attempt, result, count>>

\* POST /api/runner/jobs/:id/result reads the signal and deletes it, whatever
\* completeAgentJob then says: it accepts the nonce of the latest attempt, and
\* a repeat changes nothing.
PostResult ==
  /\ \E a \in agents :
       LET r == a.row
           accepted == a.number = attempt[r] /\ result[r] = Absent
       IN  /\ a.pc = "done"
           /\ result' = IF accepted THEN [result EXCEPT ![r] =
                             IF signal[r] = Absent THEN NoCounts ELSE signal[r]]
                        ELSE result
           /\ signal' = [signal EXCEPT ![r] = Absent]
           /\ truth' = [truth EXCEPT ![r].told = IF accepted /\ ~truth[r].lost THEN truth[r].counts ELSE @,
                                     ![r].lost = @ \/ ~accepted]
           /\ agents' = agents \ {a}
  /\ UNCHANGED <<facts, packs, attempt, count>>

Agent(r, track, number) ==
  [row |-> r, track |-> track, number |-> number, pc |-> "begin",
   used |-> Absent, current |-> Absent]

\* The lease lapses and the row is claimed again, the first agent living on.
ClaimedAgain ==
  /\ \E r \in Rows, a \in agents :
       /\ a.row = r /\ result[r] = Absent /\ attempt[r] < MaxAttempts
       /\ attempt' = [attempt EXCEPT ![r] = @ + 1]
       /\ agents' = agents \cup {Agent(r, a.track, attempt[r] + 1)}
  /\ UNCHANGED <<facts, packs, signal, result, count, truth>>

\* The signal is in memory.
ServerRestarts ==
  /\ count.restarts < MaxRestarts
  /\ count' = [count EXCEPT !.restarts = @ + 1]
  /\ signal' = [r \in Rows |-> Absent]
  /\ truth' = [r \in Rows |-> [truth[r] EXCEPT !.lost = @ \/ r \in Signalled]]
  /\ UNCHANGED <<facts, packs, attempt, result, agents>>

Init ==
  /\ facts \in [Kinds -> {[doc |-> d, at |-> 0] : d \in Docs} \cup {[doc |-> Absent, at |-> 0]}]
  /\ packs = {} /\ signal = [r \in Rows |-> Absent]
  /\ attempt = [r \in Rows |-> 1] /\ result = [r \in Rows |-> Absent]
  /\ \E track \in [Rows -> Tracks] : agents = {Agent(r, track[r], 1) : r \in Rows}
  /\ count = [puts |-> 0, lookups |-> 0, restarts |-> 0]
  /\ truth = [r \in Rows |-> [counts |-> NoCounts, lost |-> FALSE, told |-> Absent]]

Next ==
  \/ PutFacts \/ GetTrackPack \/ GetFacts \/ PutTrackPack
  \/ PostResult \/ ClaimedAgain \/ ServerRestarts

Spec == Init /\ [][Next]_packVars

-----------------------------------------------------------------------------
\* Everything keeps its type.
PacksTypeOK ==
  /\ \A k \in Kinds : facts[k].doc \in Docs \cup {Absent} /\ facts[k].at \in 0..MaxPuts
  /\ \A p, q \in packs : p.track = q.track /\ p.hash = q.hash => p = q
  /\ \A r \in Rows : signal[r] = Absent \/ DOMAIN signal[r] = {"hits", "misses"}
  /\ Cardinality(Signalled) <= MaxSignals
  /\ attempt \in [Rows -> 1..MaxAttempts]

\* The reuse a result records is of lookups its own row really made, over all
\* its attempts, and of every one of them, unless a restart, the cap or a
\* refused result lost some; whatever other rows and late agents do.
ReuseIsTold ==
  \A r \in Rows : result[r] # Absent =>
    /\ result[r].hits <= truth[r].counts.hits /\ result[r].misses <= truth[r].counts.misses
    /\ truth[r].told # Absent => result[r] = truth[r].told

\* Why ReuseIsTold holds: until a row has its result, the signal holds every lookup that
\* was not lost, and always lookups that were made.
Counts == [hits : Nat, misses : Nat]
Within(c, d) == c.hits <= d.hits /\ c.misses <= d.misses
CountsNow(r) == IF signal[r] = Absent THEN NoCounts ELSE signal[r]

ReuseInv ==
  /\ signal \in [Rows -> Counts \cup {Absent}] /\ result \in [Rows -> Counts \cup {Absent}]
  /\ truth \in [Rows -> [counts : Counts, lost : BOOLEAN, told : Counts \cup {Absent}]]
  /\ \A a \in agents : "row" \in DOMAIN a /\ a.row \in Rows
  /\ \A r \in Rows :
       /\ Within(CountsNow(r), truth[r].counts)
       /\ result[r] # Absent => Within(result[r], truth[r].counts)
       /\ result[r] = Absent => /\ truth[r].told = Absent
                                /\ truth[r].lost \/ CountsNow(r) = truth[r].counts
       /\ truth[r].told # Absent => result[r] = truth[r].told

\* What the comment over the route says: the key is always self-consistent
\* with the facts, so that a pack a lookup finds was built from the facts that
\* are current at the lookup.
PackMatchesFacts ==
  \A a \in agents : a.pc = "done" /\ a.used # Absent => a.used = a.current
=============================================================================

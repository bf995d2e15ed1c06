--------------------------- MODULE TelemetryBeacon ---------------------------
(***************************************************************************)
(* The usage beacon: the queue of a page (src/lib/telemetry.ts), its       *)
(* batches on their way, POST /api/telemetry, the append-only store and    *)
(* the summary read from it (server/index.js, server/store.js).            *)
(*                                                                         *)
(* Abstractions.  An event is its number; what the server makes of it is   *)
(* known when it is made: good, soft (a surface it does not list, an empty *)
(* name) or hard (a kind it does not list).  The time between two views of *)
(* a surface is counted in ticks.                                          *)
(***************************************************************************)
EXTENDS Integers, Sequences, FiniteSets, Functions

CONSTANTS
  Surfaces,
  FlushAt, MaxBatch,   \* FLUSH_AT and TELEMETRY_MAX_BATCH
  Window,              \* VIEW_DEDUPE_MS, in ticks
  InFiles,             \* whether the store is a file (FileStore) or a table (PgStore)
  MaxMade, MaxTicks, MaxLost, MaxKills, MaxLoads   \* bounds

VARIABLES
  made,    \* history: the events made, each with its page, surface, class and time
  tab,     \* the page: which load it is, its outbox, when it last counted a view
  net,     \* the batches on their way
  lines,   \* the store: per line the events in it, whether it parses, whether it ended
  gone,    \* history: events dropped, each on its own account
  tally    \* the clock and the bounds

beaconVars == <<made, tab, net, lines, gone, tally>>

Never == -Window
Spend(counter, most) == tally[counter] < most /\ tally' = [tally EXCEPT ![counter] = @ + 1]

-----------------------------------------------------------------------------
(***************************************************************************)
(* The page.                                                               *)
(***************************************************************************)
\* The batch that is spliced off the outbox, and what stays of it.
Batch(queue) == SubSeq(queue, 1, IF Len(queue) < MaxBatch THEN Len(queue) ELSE MaxBatch)
Rest(queue) == SubSeq(queue, Len(Batch(queue)) + 1, Len(queue))

\* flush: what the transport takes is on its way, and is not sent again.
Flushed(t) == [t EXCEPT !.queue = Rest(@)]
Sent(t) == IF t.queue = <<>> THEN net ELSE net \cup {Batch(t.queue)}

\* track: the event is made and queued, and a queue that is long enough is flushed.
Track(t, surface, class) ==
  LET queued == [t EXCEPT !.queue = Append(@, Len(made) + 1)]
      full == Len(queued.queue) >= FlushAt
  IN  /\ Len(made) < MaxMade
      /\ made' = Append(made, [page |-> t.page, surface |-> surface, class |-> class, at |-> tally.now])
      /\ tab' = IF full THEN Flushed(queued) ELSE queued
      /\ net' = IF full THEN Sent(queued) ELSE net
      /\ UNCHANGED <<lines, gone, tally>>

\* useTrackView: a surface that mounts again within the window is one view.
Mount(s) ==
  /\ tally.now - tab.lastView[s] >= Window
  /\ Track([tab EXCEPT !.lastView[s] = tally.now], s, "good")

\* A click, or a run: the page may be older or newer than the server.
Click == \E class \in {"good", "soft", "hard"} : Track(tab, "none", class)

\* The interval, and the page that is hidden but not gone.
Flush ==
  /\ tab.queue # <<>> /\ tab' = Flushed(tab) /\ net' = Sent(tab)
  /\ UNCHANGED <<made, lines, gone, tally>>

Fresh(page) == [page |-> page, queue |-> <<>>, lastView |-> [s \in Surfaces |-> Never]]

\* The page is left, which flushes one batch, or dies; then it is loaded again.
Reload ==
  /\ Spend("loads", MaxLoads) /\ tab' = Fresh(tab.page + 1)
  /\ \/ net' = Sent(tab) /\ gone' = gone \cup Range(Rest(tab.queue))
     \/ net' = net /\ gone' = gone \cup Range(tab.queue)
  /\ UNCHANGED <<made, lines>>

\* A beacon that does not arrive: dropped, never sent again.
Lost(b) ==
  /\ Spend("lost", MaxLost) /\ net' = net \ {b} /\ gone' = gone \cup Range(b)
  /\ UNCHANGED <<made, tab, lines>>

-----------------------------------------------------------------------------
(***************************************************************************)
(* The server.                                                             *)
(***************************************************************************)
\* validateTelemetryEvent, of a batch.
Valid(b) ==
  LET kept[n \in 0 .. Len(b)] ==
        IF n = 0 THEN <<>>
        ELSE IF made[b[n]].class = "good" THEN Append(kept[n - 1], b[n]) ELSE kept[n - 1]
  IN  kept[Len(b)]

\* One write: each event ends its line.  A line that was torn off takes the next
\* event into itself, and then neither parses.
Written(events) ==
  LET fresh == [k \in DOMAIN events |-> [events |-> {events[k]}, parses |-> TRUE, ended |-> TRUE]]
  IN  IF events = <<>> \/ lines = <<>> \/ lines[Len(lines)].ended THEN lines \o fresh
      ELSE SubSeq(lines, 1, Len(lines) - 1)
             \o <<[events |-> lines[Len(lines)].events \cup {Head(events)}, parses |-> FALSE, ended |-> TRUE]>>
             \o Tail(fresh)

\* POST /api/telemetry.  A batch over the cap is refused whole; a hard event makes the
\* answer a 400, which nobody reads, and the good ones are kept.
Post(b) ==
  LET accepted == IF Len(b) > MaxBatch THEN <<>> ELSE Valid(b)
  IN  /\ b \in net /\ net' = net \ {b}
      /\ lines' = Written(accepted)
      /\ gone' = gone \cup (Range(b) \ Range(accepted))
      /\ UNCHANGED <<made, tab, tally>>

\* The server is killed, or its disk is full, in the write.  The transaction is rolled
\* back; the file keeps some lines and some of the next: none of it, a part, or all
\* but its end.
KilledInWrite(b) ==
  LET accepted == Valid(b)
      Cut(n) == Written(SubSeq(accepted, 1, n))
      Torn(n, parses) ==
        LET whole == Written(SubSeq(accepted, 1, n + 1))
        IN  [whole EXCEPT ![Len(whole)].ended = FALSE, ![Len(whole)].parses = parses /\ @]
  IN  /\ b \in net /\ Len(b) <= MaxBatch /\ accepted # <<>>
      /\ Spend("kills", MaxKills) /\ net' = net \ {b}
      /\ IF ~InFiles THEN lines' = lines /\ gone' = gone \cup Range(b)
         ELSE \E n \in 0..(Len(accepted) - 1) :
                \/ /\ lines' = Cut(n)
                   /\ gone' = gone \cup (Range(b) \ Range(SubSeq(accepted, 1, n)))
                \/ /\ \E parses \in BOOLEAN : lines' = Torn(n, parses)
                   /\ gone' = gone \cup (Range(b) \ Range(SubSeq(accepted, 1, n + 1)))
      /\ UNCHANGED <<made, tab>>

\* summarizeTelemetry.
Summary ==
  [totalEvents |-> Cardinality({k \in DOMAIN lines : lines[k].parses}),
   malformed |-> Cardinality({k \in DOMAIN lines : ~lines[k].parses}),
   views |-> [s \in Surfaces |->
     Cardinality({k \in DOMAIN lines : lines[k].parses /\ \E e \in lines[k].events : made[e].surface = s})]]

-----------------------------------------------------------------------------
Tick == Spend("now", MaxTicks) /\ UNCHANGED <<made, tab, net, lines, gone>>

BeaconInit ==
  /\ made = <<>> /\ tab = Fresh(1) /\ net = {} /\ lines = <<>> /\ gone = {}
  /\ tally = [now |-> 0, lost |-> 0, kills |-> 0, loads |-> 0]

BeaconNext ==
  \/ \E s \in Surfaces : Mount(s)
  \/ Click \/ Flush \/ Reload \/ Tick
  \/ \E b \in net : Lost(b) \/ Post(b) \/ KilledInWrite(b)

BeaconSpec == BeaconInit /\ [][BeaconNext]_beaconVars

-----------------------------------------------------------------------------
(***************************************************************************)
(* Properties.                                                             *)
(***************************************************************************)
\* The outbox is drained before it could make a batch the server refuses whole.
BeaconTypeOK ==
  /\ Range(tab.queue) \subseteq DOMAIN made /\ Len(tab.queue) < FlushAt
  /\ \A b \in net : Len(b) \in 1..MaxBatch
  /\ gone \subseteq DOMAIN made

\* Every event is in one place: the outbox, a batch on its way, a line of the store, or
\* among those that were dropped.  So none is stored twice and none vanishes unnoticed.
EventsAccounted ==
  \A e \in DOMAIN made :
    Cardinality({k \in DOMAIN tab.queue : tab.queue[k] = e}) + Cardinality({b \in net : e \in Range(b)})
      + Cardinality({k \in DOMAIN lines : e \in lines[k].events}) + (IF e \in gone THEN 1 ELSE 0) = 1

\* The summary counts events that are good, each once; lines that do not parse are at
\* most those of kills; and it counts a surface at most once per page and window.
SummaryIsTrue ==
  /\ \A k \in DOMAIN lines : lines[k].parses =>
       \E e \in DOMAIN made : lines[k].events = {e} /\ made[e].class = "good"
  /\ Summary.malformed <= tally.kills
  /\ \A s \in Surfaces : Summary.views[s] <= tab.page * (1 + tally.now \div Window)

\* "per-line atomicity, best-effort" (server/store.js:952): what the summary counts it
\* still counts after the next write.
CountedStays == [][Summary'.totalEvents >= Summary.totalEvents]_beaconVars
=============================================================================

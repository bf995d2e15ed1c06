------------------------------- MODULE LiveView -------------------------------
(***************************************************************************)
(* How a tab keeps up with the server: the one event stream               *)
(* (src/hooks/useEventStream.ts, /api/stream and broadcast of              *)
(* server/index.js), and three that live on it, the job list (useJobs),    *)
(* the notification bell (NotificationBell.tsx) and the sources            *)
(* (useDiscoverySources).                                                  *)
(*                                                                         *)
(* Abstractions.  What a consumer shows is the version of what it fetched; *)
(* the sources run while their version is odd.  An event is delivered in   *)
(* the step that sends it, when the stream is open, and lost otherwise:    *)
(* nothing is replayed.  Answers overtake each other.                      *)
(***************************************************************************)
EXTENDS Integers, FiniteSets

CONSTANTS
  MaxWrites,    \* bound: writes in all
  MaxDrops,     \* bound: times the stream breaks or the server stops
  MaxHides,     \* bound: times the tab is hidden
  MaxErrors     \* bound: GETs that fail

Consumers == {"jobs", "feed", "sources"}

VARIABLES
  sse,       \* what GET /api/config says of the stream
  stream,    \* streamAvailable, the EventSource, and reconnectTimer
  hidden,    \* document.hidden
  up,        \* the server runs
  version,   \* per consumer, the newest there is
  shown,     \* per consumer, what it shows
  answers,   \* GETs under way, with what they will answer
  debounce,  \* useJobs' timer is armed
  times      \* bounds

liveVars == <<sse, stream, hidden, up, version, shown, answers, debounce, times>>

\* connect: the browser tries, and clearReconnect.
Connect(s) == [s EXCEPT !.source = "connecting", !.timer = FALSE]

\* scheduleReconnect: not while hidden, not without availability, one timer.
ScheduleReconnect(s) ==
  [s EXCEPT !.source = "none", !.timer = @ \/ (~hidden /\ s.available = "yes")]

\* setStreamAvailability, when the config has come.
SetStreamAvailability ==
  /\ up /\ stream.available = "unknown"
  /\ stream' = IF sse THEN Connect([stream EXCEPT !.available = "yes"])
               ELSE [stream EXCEPT !.available = "no"]
  /\ UNCHANGED <<sse, hidden, up, version, shown, answers, debounce, times>>

StreamOpens ==
  /\ up /\ stream.source = "connecting"
  /\ stream' = [stream EXCEPT !.source = "open"]
  /\ UNCHANGED <<sse, hidden, up, version, shown, answers, debounce, times>>

\* onerror: the browser tries again by itself, or has given up (CLOSED).
StreamBreaks ==
  /\ times.drops < MaxDrops /\ stream.source \in {"open", "connecting"}
  /\ stream' \in {[stream EXCEPT !.source = "connecting"], ScheduleReconnect(stream)}
  /\ times' = [times EXCEPT !.drops = @ + 1]
  /\ UNCHANGED <<sse, hidden, up, version, shown, answers, debounce>>

ReconnectTimer ==
  /\ stream.timer
  /\ stream' = Connect(stream)
  /\ UNCHANGED <<sse, hidden, up, version, shown, answers, debounce, times>>

Hide ==
  /\ ~hidden /\ times.hides < MaxHides
  /\ hidden' = TRUE
  /\ times' = [times EXCEPT !.hides = @ + 1]
  /\ UNCHANGED <<sse, stream, up, version, shown, answers, debounce>>

\* A GET of consumer c: what it answers is what there is when it is served.
Fetch(c) == {[of |-> c, version |-> version[c]]}

\* Mutant: the return to the foreground leaves the stream as it is.
ShowWithoutStream ==
  /\ hidden
  /\ hidden' = FALSE
  /\ answers' = answers \cup (IF up THEN Fetch("feed") ELSE {})
  /\ UNCHANGED <<sse, stream, up, version, shown, debounce, times>>

\* visibilitychange: the stream is rebuilt at once, and the bell fetches.
Show ==
  /\ hidden
  /\ hidden' = FALSE
  /\ stream' = IF stream.source = "none" /\ stream.available = "yes" THEN Connect(stream) ELSE stream
  /\ answers' = answers \cup (IF up THEN Fetch("feed") ELSE {})
  /\ UNCHANGED <<sse, up, version, shown, debounce, times>>

ServerStops ==
  /\ up /\ times.drops < MaxDrops
  /\ up' = FALSE
  /\ answers' = {}
  /\ stream' \in IF stream.source = "none" THEN {stream}
                 ELSE {[stream EXCEPT !.source = "connecting"], ScheduleReconnect(stream)}
  /\ times' = [times EXCEPT !.drops = @ + 1]
  /\ UNCHANGED <<sse, hidden, version, shown, debounce>>

ServerStarts ==
  /\ ~up /\ up' = TRUE
  /\ UNCHANGED <<sse, stream, hidden, version, shown, answers, debounce, times>>

\* A write and its broadcast.  A new project is in the feed without an event.
Write(c) ==
  LET new == version[c] + 1
      event == up /\ stream.source = "open"
  IN  /\ up /\ times.writes < MaxWrites
      /\ times' = [times EXCEPT !.writes = @ + 1]
      /\ version' = [version EXCEPT ![c] = new]
      /\ debounce' = (debounce \/ (event /\ c = "jobs"))
      /\ answers' \in {answers \cup
            (IF event /\ c \in {"feed", "sources"} THEN {[of |-> c, version |-> new]} ELSE {})}
            \cup (IF c = "feed" THEN {answers} ELSE {})
      /\ UNCHANGED <<sse, stream, hidden, up, shown>>

\* 200 ms after the last of a burst.
DebouncedReload ==
  /\ debounce /\ up
  /\ debounce' = FALSE
  /\ answers' = answers \cup Fetch("jobs")
  /\ UNCHANGED <<sse, stream, hidden, up, version, shown, times>>

\* The bell's 60 s fallback while visible, the sources' 10 s tick while one of
\* the sources it shows is running.
Poll(c) ==
  /\ up
  /\ \/ c = "feed" /\ ~hidden
     \/ c = "sources" /\ shown[c] % 2 = 1
  /\ answers' = answers \cup Fetch(c)
  /\ answers' # answers
  /\ UNCHANGED <<sse, stream, hidden, up, version, shown, debounce, times>>

\* No request is older or newer than another to the component that waits.
Arrives(m) ==
  /\ m \in answers
  /\ shown' = [shown EXCEPT ![m.of] = m.version]
  /\ answers' = answers \ {m}
  /\ UNCHANGED <<sse, stream, hidden, up, version, debounce, times>>

\* An error keeps what is shown.
FetchFails(m) ==
  /\ m \in answers /\ times.errors < MaxErrors
  /\ answers' = answers \ {m}
  /\ times' = [times EXCEPT !.errors = @ + 1]
  /\ UNCHANGED <<sse, stream, hidden, up, version, shown, debounce>>

LiveInit ==
  /\ sse \in BOOLEAN
  /\ stream = [available |-> "unknown", source |-> "none", timer |-> FALSE]
  /\ hidden = FALSE /\ up = TRUE
  /\ \E v \in {[c \in Consumers |-> 0], [c \in Consumers |-> 1]} : version = v /\ shown = v
  /\ answers = {} /\ debounce = FALSE
  /\ times = [drops |-> 0, hides |-> 0, errors |-> 0, writes |-> 0]

LiveNext ==
  \/ SetStreamAvailability \/ StreamOpens \/ StreamBreaks \/ ReconnectTimer
  \/ Hide \/ Show \/ ServerStops \/ ServerStarts \/ DebouncedReload
  \/ \E c \in Consumers : Write(c) \/ Poll(c)
  \/ \E m \in answers : Arrives(m) \/ FetchFails(m)

\* Browser, timers and polls go on; what is asked is answered.
LiveFairness ==
  /\ WF_liveVars(SetStreamAvailability) /\ WF_liveVars(StreamOpens)
  /\ WF_liveVars(ReconnectTimer) /\ WF_liveVars(DebouncedReload)
  /\ \A c \in Consumers : SF_liveVars(Poll(c))
  /\ \A c \in Consumers, v \in 0..(MaxWrites + 1) : WF_liveVars(Arrives([of |-> c, version |-> v]))

LiveSpec == LiveInit /\ [][LiveNext]_liveVars /\ LiveFairness

\* The types of the state; a stream is there only when it is available, never with a
\* timer, and open only while the server is up.
LiveTypeOK ==
  /\ stream.available \in {"unknown", "yes", "no"} /\ stream.source \in {"none", "connecting", "open"}
  /\ stream.source # "none" => stream.available = "yes" /\ ~stream.timer
  /\ \A c \in Consumers : shown[c] \in 0..version[c] /\ version[c] \in 0..(MaxWrites + 1)
  /\ stream.source = "open" => up

\* A tab in the foreground has its stream again, however it broke: while it was
\* hidden, while the server was down, or before the config was known.
StreamMissing == sse /\ up /\ ~hidden /\ stream.source # "open"
StreamComesBack == []<>~StreamMissing

\* The bell in the foreground shows the newest feed in the end, with or without
\* the stream, whatever was lost, failed or overtaken.
BellBehind == up /\ ~hidden /\ shown["feed"] # version["feed"]
BellCatchesUp == []<>~BellBehind

\* A source that is over is not shown as running for ever.
SourceLags == up /\ version["sources"] % 2 = 0 /\ shown["sources"] % 2 = 1
SourcesSettle == []<>~SourceLags
=============================================================================

----------------------------- MODULE AuthFailures -----------------------------
(***************************************************************************)
(* What the server does with failed authentications: the gate of a token   *)
(* lane counts them per address and then refuses the address for a while   *)
(* (syncAuth, exportAuth, runnerAuth of server/index.js), and the monitor  *)
(* of auth.js counts them per window, writes a bounded number of lines     *)
(* into the activity log and rings the bell once per window.               *)
(*                                                                         *)
(* Abstractions.  One lane, that of the sync or of the export: the         *)
(* runner's is the same without the monitor, the login's has a limiter in  *)
(* the place of the gate.  Time is ticks; a window lasts WindowTicks.  A   *)
(* monitor window is named by its start, and starts differ.                *)
(***************************************************************************)
EXTENDS Integers, Sequences, FiniteSets, FiniteSetsExt

CONSTANTS
  Addresses,     \* req.ip
  Quiet,         \* no record, no window
  MaxFailures,   \* SYNC_AUTH_MAX_FAILURES
  Threshold,     \* FAILED_LOGIN_ALERT_THRESHOLD
  DurableCap,    \* FAILED_LOGIN_DURABLE_CAP
  TailLines,     \* NOTIFY_ACTIVITY_TAIL
  WindowTicks,
  MaxBad, MaxWindows, MaxOther, MaxBoots   \* bounds

VARIABLES
  gate,      \* syncAuthFailures: per address, failures and ticks to the reset
  monitor,   \* createFailedLoginMonitor's window, count and latch
  log,       \* the lines of the activity log
  waiting,   \* per address, the client with the right token waits to be served
  real,      \* (ghost) failures of each monitor window
  spent      \* bounds

authVars == <<gate, monitor, log, waiting, real, spent>>

Line(event, w, n) == [event |-> event, window |-> w, count |-> n]

\* The monitor as the next failure finds it: a window that is over is replaced.
Opened ==
  IF monitor # Quiet /\ monitor.left > 0 THEN monitor
  ELSE [window |-> spent.windows + 1, count |-> 0, alerted |-> FALSE, left |-> WindowTicks]

\* record: the line, while the cap lasts, and the alert, once per window.
Record ==
  LET m == [Opened EXCEPT !.count = @ + 1]
      alert == ~m.alerted /\ m.count >= Threshold
  IN  /\ m.window <= MaxWindows
      /\ monitor' = [m EXCEPT !.alerted = @ \/ alert]
      /\ log' = log \o (IF m.count <= DurableCap THEN <<Line("failed", m.window, m.count)>> ELSE <<>>)
                    \o (IF alert THEN <<Line("threshold", m.window, m.count)>> ELSE <<>>)
      /\ real' = [real EXCEPT ![m.window] = @ + 1]
      /\ spent' = [spent EXCEPT !.bad = @ + 1, !.windows = m.window]

Live(ip) == gate[ip] # Quiet /\ gate[ip].left > 0
Blocked(ip) == Live(ip) /\ gate[ip].count >= MaxFailures

\* A wrong token: 401, or 429 where the address is blocked; recorded in both
\* cases, counted by the gate in the first.
WrongToken ==
  /\ spent.bad < MaxBad
  /\ \E ip \in Addresses :
       gate' = IF Blocked(ip) THEN gate
               ELSE [gate EXCEPT ![ip] = IF Live(ip) THEN [gate[ip] EXCEPT !.count = @ + 1]
                                         ELSE [count |-> 1, left |-> WindowTicks]]
  /\ Record
  /\ UNCHANGED waiting

\* Mutant: a refused request starts the window anew.
RefusedExtending(ip) ==
  /\ Blocked(ip)
  /\ gate' = [gate EXCEPT ![ip].left = WindowTicks]
  /\ UNCHANGED <<monitor, log, waiting, real, spent>>

\* The right token from a blocked address: refused unread, and recorded like
\* any other failure.  The client will come again.
RefusedUnread(ip) ==
  /\ Blocked(ip) /\ spent.bad < MaxBad
  /\ Record
  /\ UNCHANGED <<gate, waiting>>

\* The right token otherwise: served, and the address's record is deleted.
Served(ip) ==
  /\ waiting[ip] /\ ~Blocked(ip)
  /\ gate' = [gate EXCEPT ![ip] = Quiet]
  /\ waiting' = [waiting EXCEPT ![ip] = FALSE]
  /\ UNCHANGED <<monitor, log, real, spent>>

ComesBack(ip) ==
  /\ ~waiting[ip]
  /\ waiting' = [waiting EXCEPT ![ip] = TRUE]
  /\ UNCHANGED <<gate, monitor, log, real, spent>>

Less(r) == IF r # Quiet /\ r.left > 0 THEN [r EXCEPT !.left = @ - 1] ELSE r

Tick ==
  /\ gate' = [ip \in Addresses |-> Less(gate[ip])]
  /\ monitor' = Less(monitor)
  /\ <<gate, monitor>>' # <<gate, monitor>>
  /\ UNCHANGED <<log, waiting, real, spent>>

\* Another line in the activity log.
OtherLine ==
  /\ spent.other < MaxOther
  /\ spent' = [spent EXCEPT !.other = @ + 1]
  /\ log' = Append(log, Line("other", 0, 0))
  /\ UNCHANGED <<gate, monitor, waiting, real>>

\* All but the log is in memory.
ServerRestarts ==
  /\ spent.boots < MaxBoots
  /\ spent' = [spent EXCEPT !.boots = @ + 1]
  /\ gate' = [ip \in Addresses |-> Quiet] /\ monitor' = Quiet
  /\ UNCHANGED <<log, waiting, real>>

AuthInit ==
  /\ gate = [ip \in Addresses |-> Quiet]
  /\ monitor = Quiet /\ log = <<>>
  /\ waiting = [ip \in Addresses |-> FALSE]
  /\ real = [w \in 1..MaxWindows |-> 0]
  /\ spent = [bad |-> 0, windows |-> 0, other |-> 0, boots |-> 0]

AuthNext ==
  \/ WrongToken
  \/ \E ip \in Addresses : RefusedUnread(ip) \/ Served(ip) \/ ComesBack(ip)
  \/ Tick \/ OtherLine \/ ServerRestarts

-----------------------------------------------------------------------------
(***************************************************************************)
(* The bell.                                                               *)
(***************************************************************************)
\* activityTail.
ActivityTail == SubSeq(log, IF Len(log) > TailLines THEN Len(log) - TailLines + 1 ELSE 1, Len(log))

Among(event, w) ==
  Cardinality({i \in DOMAIN ActivityTail :
                 ActivityTail[i].event = event /\ ActivityTail[i].window = w})

\* Mutant: the overlay of the live count belongs to whatever window is shown.
CountIgnoringWindow(w) ==
  Max({Among("failed", w), IF monitor = Quiet THEN 0 ELSE monitor.count})

\* The failures deriveAuthEvents counts for window w: lines of the tail, or the
\* live count of the monitor.
FailuresByWindow(w) ==
  Max({Among("failed", w),
           IF monitor # Quiet /\ monitor.window = w THEN monitor.count ELSE 0})

\* Its events: a window, and the count in the title.
DeriveAuthEvents ==
  {[window |-> w, count |-> Max({FailuresByWindow(w)} \cup
      {ActivityTail[i].count : i \in {j \in DOMAIN ActivityTail :
         ActivityTail[j].event = "threshold" /\ ActivityTail[j].window = w}})]
     : w \in {v \in 1..MaxWindows : Among("threshold", v) > 0}}

\* The counts keep their limits, and the log those of each window.
AuthTypeOK ==
  /\ \A ip \in Addresses :
       gate[ip] # Quiet => gate[ip].count \in 1..MaxFailures /\ gate[ip].left \in 0..WindowTicks
  /\ monitor # Quiet => monitor.window \in 1..MaxWindows /\ monitor.count \in 1..MaxBad
  /\ \A w \in 1..MaxWindows : Among("failed", w) <= DurableCap /\ Among("threshold", w) <= 1

\* The bell never tells of more failures than there were in the window, and of
\* no less while the window is the monitor's: the lines stop at the cap, the
\* log is read by its tail and a restart forgets the counts.
BellTellsFailures ==
  \A e \in DeriveAuthEvents :
    /\ e.count <= real[e.window]
    /\ monitor # Quiet /\ monitor.window = e.window => e.count = real[e.window]

\* Why they hold: the monitor counts the failures of the last window, one that has not begun
\* has none, and of a window no two lines of failures have the same count.
Windows == [window : Nat, count : Nat, alerted : BOOLEAN, left : Int]
LogLines == [event : {"failed", "threshold", "other"}, window : Nat, count : Nat]
Tells(line) == line.event = "other" \/ (line.window \in 1..spent.windows /\ line.count \in 1..real[line.window])

AuthInv ==
  /\ spent \in [bad : Nat, windows : 0..MaxWindows, other : Nat, boots : Nat]
  /\ real \in [1..MaxWindows -> Nat] /\ \A w \in 1..MaxWindows : w > spent.windows => real[w] = 0
  /\ monitor # Quiet => /\ monitor \in Windows /\ monitor.window = spent.windows /\ spent.windows >= 1
                        /\ monitor.count = real[monitor.window]
  /\ log \in Seq(LogLines) /\ \A i \in DOMAIN log : Tells(log[i])
  /\ \A i, j \in DOMAIN log : log[i].event = "failed" /\ log[i] = log[j] => i = j

\* A client with the right token that waits is served in the end, though the
\* failures of others at its address had it blocked: what it sends while it is
\* blocked does not keep it blocked.
Waits(ip) == waiting[ip]
ServedAgain == \A ip \in Addresses : []<>~Waits(ip)

\* Time passes, and a client that waits sends again.
AuthFairness == WF_authVars(Tick) /\ \A ip \in Addresses : WF_authVars(Served(ip))

AuthSpec == AuthInit /\ [][AuthNext]_authVars /\ AuthFairness
=============================================================================

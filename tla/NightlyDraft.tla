----------------------------- MODULE NightlyDraft -----------------------------
(***************************************************************************)
(* The nightly draft (runAutoDraftScheduler and its timer in               *)
(* server/index.js, the selection and the time of day in server/lib.js):   *)
(* at two in the morning of Toronto the server enqueues a first draft for  *)
(* the queued jobs that are due soon; and the sweep that closes jobs whose *)
(* deadline has passed, which goes by the server's own date.               *)
(*                                                                         *)
(* Abstractions.  Time is in hours of UTC; a clock change is at two in the *)
(* morning of ChangeDay, by the clock that is given up.  A job that is not *)
(* public, or whose deadline is no date, is never looked at and left out.  *)
(***************************************************************************)
EXTENDS Integers, Sequences, FiniteSets

CONSTANTS
  Jobs,
  Deadlines,             \* the days on which they may be due
  DraftCap, WindowDays,  \* AUTO_DRAFT_CAP, AUTO_DRAFT_WINDOW_DAYS
  ServerOffset,          \* hours from UTC to the server's own zone
  Changes,               \* what may happen to the clocks on ChangeDay
  ChangeDay,
  FirstHour, LastHour,   \* bounds: the hours a behaviour spans
  MaxFires, MaxBoots, MaxFaults   \* bounds: fires by hand, boots, failed enqueues

VARIABLES
  change,  \* "none", "spring" or "fall"
  now,
  server,  \* up, the hour of its timer, the date of its last sweep, and (ghost) the first
           \* day it saw from its midnight
  jobs,    \* status, deadline, whether there is a CV, and the drafts that are pending
  log,     \* the entries of the scheduler: date, jobs, and whether the timer fired
  tally    \* bounds

nightVars == <<change, now, server, jobs, log, tally>>

Spend(counter, most) == tally[counter] < most /\ tally' = [tally EXCEPT ![counter] = @ + 1]

-----------------------------------------------------------------------------
(***************************************************************************)
(* The time of day.                                                        *)
(***************************************************************************)
FireHour == 2

\* etOffsetMinutes: the offset in effect at an instant, from the change on the new one.
Standard == -5
Daylight == -4
Before == IF change = "spring" THEN Standard ELSE Daylight
After == IF change = "fall" THEN Standard ELSE Daylight
Offset(t) == IF t < 24 * ChangeDay + FireHour - Before THEN Before ELSE After

WallClock(t) == t + Offset(t)
TodayET(t) == WallClock(t) \div 24
LocalDate(t) == (t + ServerOffset) \div 24

\* msUntilNextAutoDraftFire: today's hour by the offset of now, and if that has passed
\* tomorrow's by the offset a day later.
FireAt(day, offset) == 24 * day + FireHour - offset
NextFire(t) ==
  LET today == FireAt(TodayET(t), Offset(t))
  IN  IF today > t THEN today ELSE FireAt(TodayET(t) + 1, Offset(today + 24))

-----------------------------------------------------------------------------
(***************************************************************************)
(* The scheduler.                                                          *)
(***************************************************************************)
Eligible(j) ==
  /\ jobs[j].status = "queued" /\ ~jobs[j].cv /\ jobs[j].pending = 0
  /\ jobs[j].due \in TodayET(now)..(TodayET(now) + WindowDays)

\* selectAutoDraftCandidates: as many as the cap allows, the most urgent first.
Selections ==
  LET all == {j \in Jobs : Eligible(j)}
  IN  {S \in SUBSET all :
         /\ Cardinality(S) <= DraftCap /\ (S = all \/ Cardinality(S) = DraftCap)
         /\ \A j \in S, k \in all \ S : jobs[j].due <= jobs[k].due}

\* runAutoDraftScheduler: an enqueue that fails does not keep the others, and the night
\* is logged also when nothing was to do.
RunAutoDraftScheduler(byTimer) ==
  \E S \in Selections : \E done \in SUBSET S :
    /\ done # S => tally.faults < MaxFaults
    /\ tally' = [tally EXCEPT !.faults = IF done # S THEN @ + 1 ELSE @,
                              !.fires = IF byTimer THEN @ ELSE @ + 1]
    /\ jobs' = [j \in Jobs |-> IF j \in done THEN [jobs[j] EXCEPT !.pending = @ + 1] ELSE jobs[j]]
    /\ log' = Append(log, [date |-> TodayET(now), jobs |-> done, byTimer |-> byTimer])

\* armAutoDraftTimer: armed again whatever became of the run.
Fire ==
  /\ server.up /\ server.timer = now
  /\ RunAutoDraftScheduler(TRUE)
  /\ server' = [server EXCEPT !.timer = NextFire(now)]
  /\ UNCHANGED <<change, now>>

\* POST /api/auto-draft/fire.
FireByHand ==
  /\ server.up /\ tally.fires < MaxFires
  /\ RunAutoDraftScheduler(FALSE)
  /\ UNCHANGED <<change, now, server>>

-----------------------------------------------------------------------------
(***************************************************************************)
(* The deadline sweep, which the first list of a date brings along.        *)
(***************************************************************************)
ShouldAutoClose(j) ==
  jobs[j].status \in {"lead", "queued", "drafted", "ready"} /\ jobs[j].due < LocalDate(now)

SweepExpiredJobs ==
  /\ server.up /\ server.swept # LocalDate(now)
  /\ server' = [server EXCEPT !.swept = LocalDate(now)]
  /\ jobs' = [j \in Jobs |-> IF ShouldAutoClose(j) THEN [jobs[j] EXCEPT !.status = "closed"] ELSE jobs[j]]
  /\ UNCHANGED <<change, now, log, tally>>

-----------------------------------------------------------------------------
(***************************************************************************)
(* The laptop, the owner, the process and the clock.  Nothing advances the *)
(* status after a draft that no run of the panel stands for.               *)
(***************************************************************************)
RunnerReports(j) ==
  /\ jobs[j].pending > 0
  /\ \E cv \in {jobs[j].cv, TRUE} :
       jobs' = [jobs EXCEPT ![j] = [jobs[j] EXCEPT !.pending = @ - 1, !.cv = cv]]
  /\ UNCHANGED <<change, now, server, log, tally>>

OwnerQueues(j) ==
  /\ jobs[j].status = "lead"
  /\ jobs' = [jobs EXCEPT ![j].status = "queued"]
  /\ UNCHANGED <<change, now, server, log, tally>>

Booted == [up |-> TRUE, timer |-> NextFire(now), swept |-> -1,
           first |-> (WallClock(now) + 23) \div 24]
Down == [up |-> FALSE, timer |-> FirstHour, swept |-> -1, first |-> 0]

Stops ==
  /\ server.up /\ tally.boots < MaxBoots
  /\ server' = Down
  /\ UNCHANGED <<change, now, jobs, log, tally>>

Boots ==
  /\ ~server.up /\ Spend("boots", MaxBoots)
  /\ server' = Booted
  /\ UNCHANGED <<change, now, jobs, log>>

Tick ==
  /\ now < LastHour /\ (server.up => now < server.timer)
  /\ now' = now + 1
  /\ UNCHANGED <<change, server, jobs, log, tally>>

NightInit ==
  /\ change \in Changes /\ now = FirstHour
  /\ server = Booted
  /\ jobs \in [Jobs -> [status : {"lead", "queued"}, due : Deadlines, cv : {FALSE}, pending : {0}]]
  /\ log = <<>> /\ tally = [fires |-> 0, boots |-> 0, faults |-> 0]

NightNext ==
  \/ Fire \/ FireByHand \/ SweepExpiredJobs \/ Stops \/ Boots \/ Tick
  \/ \E j \in Jobs : RunnerReports(j) \/ OwnerQueues(j)

NightSpec == NightInit /\ [][NightNext]_nightVars

-----------------------------------------------------------------------------
(***************************************************************************)
(* What must hold.                                                         *)
(***************************************************************************)
Hours == FirstHour..(LastHour + 48)
Days == 0..(LastHour \div 24 + 1)
Nights(day) == {n \in DOMAIN log : log[n].byTimer /\ log[n].date = day}

NightTypeOK ==
  /\ change \in {"none", "spring", "fall"} /\ now \in FirstHour..LastHour
  /\ server \in [up : BOOLEAN, timer : Hours, swept : Days \cup {-1}, first : Days]
  /\ jobs \in [Jobs -> [status : {"lead", "queued", "closed"}, due : Deadlines, cv : BOOLEAN,
                        pending : Nat]]
  /\ log \in Seq([date : Days, jobs : SUBSET Jobs, byTimer : BOOLEAN])
  /\ tally \in [fires : 0..MaxFires, boots : 0..MaxBoots, faults : 0..MaxFaults]

\* A job waits for one draft at a time, by whichever fires; a drafted one for none.
OneDraftPending == \A j \in Jobs : jobs[j].pending <= (IF jobs[j].cv THEN 0 ELSE 1)

\* A server that is up from midnight till past three has run the night's drafts and told so,
\* also when the clocks change; and on every other night it runs them once, so that the
\* cap is one of the night.
EveryNightIsRun ==
  \A day \in Days :
    /\ (day # ChangeDay \/ change = "none") => Cardinality(Nights(day)) <= 1
    /\ (server.up /\ server.first <= day /\ WallClock(now) > 24 * day + FireHour + 1) =>
         Nights(day) # {}

\* "One activity-log entry per night" (server/index.js:1141), and a cap of the
\* night with it.
OneEntryPerNight == \A day \in Days : Cardinality(Nights(day)) <= 1

\* "a deadline of TODAY is still live (you can apply today)" (server/lib.js:203).
TodayIsLive ==
  [][\A j \in Jobs : jobs'[j].status = "closed" => jobs[j].due < TodayET(now)]_nightVars

-----------------------------------------------------------------------------
(***************************************************************************)
(* The inductive invariant.  The timer of a server that is up stands at    *)
(* the night's hour, give or take the hour of a change; a night it ran is  *)
(* behind it, and none is that it should have run and did not.             *)
(***************************************************************************)
NightRows == [status : {"lead", "queued", "closed"}, due : Deadlines, cv : BOOLEAN, pending : Nat]
NightEntries == [date : Int, jobs : SUBSET Jobs, byTimer : BOOLEAN]
Servers == [up : BOOLEAN, timer : Int, swept : Int, first : Int]

NightTyped ==
  /\ change \in {"none", "spring", "fall"} /\ now \in Int
  /\ server \in Servers /\ jobs \in [Jobs -> NightRows] /\ log \in Seq(NightEntries)

\* On the night of a change the hour may come twice, or not at all.
Plain(day) == day # ChangeDay \/ change = "none"
NightHour(day) == FireAt(day, IF day < ChangeDay THEN Before ELSE After)

\* Where a timer may stand.
OnTheHour(t) ==
  /\ WallClock(t) \in (24 * TodayET(t) + 1)..(24 * TodayET(t) + 3)
  /\ Plain(TodayET(t)) => t = NightHour(TodayET(t))

TimerStands == server.up => now <= server.timer /\ OnTheHour(server.timer)

NightsAreBehind ==
  \A n \in DOMAIN log :
    log[n].byTimer /\ Plain(log[n].date) =>
      /\ NightHour(log[n].date) <= now
      /\ server.up => NightHour(log[n].date) < server.timer

OncePerNight ==
  \A m, n \in DOMAIN log :
    log[m].byTimer /\ log[n].byTimer /\ log[m].date = log[n].date /\ Plain(log[n].date) => m = n

NoneMissed ==
  server.up => \A day \in Int :
    server.first <= day /\ 24 * day + 3 < WallClock(server.timer) => Nights(day) # {}

NightInv ==
  /\ NightTyped /\ OneDraftPending
  /\ TimerStands /\ NightsAreBehind /\ OncePerNight /\ NoneMissed
=============================================================================

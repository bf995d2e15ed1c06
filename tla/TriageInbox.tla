------------------------------- MODULE TriageInbox -------------------------------
(***************************************************************************)
(* The triage of discovery finds: the list of one browser tab              *)
(* (src/components/TriageInbox.tsx, DiscoveryView.tsx, src/lib/pursue.ts), *)
(* which shows a decision at once and sends it after, and the server that  *)
(* keeps the finds (listFinds, addFind, decideFind, pruneFinds of          *)
(* server/pg-store.js; /api/discovery, /decide and /pursue).               *)
(*                                                                         *)
(* Abstractions.  A find is its key (title and link); `tracked` is the     *)
(* join with the jobs.  The calls of a tab overtake each other; a call is  *)
(* served when its answer comes or is lost.  A refused call (the workbook  *)
(* is locked) fails like one that is lost before it is served.             *)
(***************************************************************************)
EXTENDS Naturals, FiniteSets

CONSTANTS
  Finds, NoFind,
  MaxCalls, MaxClicks, MaxFails, MaxEvents   \* bounds

VARIABLES
  finds,      \* discovery_finds: the rows and their decisions
  jobs,       \* finds that a job tracks
  data,       \* DiscoveryView's discoveryData
  inbox,      \* TriageInbox's overrides, rowMsg, undo, busyKey; mounted or not; its bulk
  requests,   \* calls under way
  history,    \* (ghost) drafts launched and jobs made per find; finds whose calls
              \* overlapped, whose undo was lost, or which were decided and then found anew
  clicks      \* bounds: clicks, failures, events of the world

triageVars == <<finds, jobs, data, inbox, requests, history, clicks>>

Undecided == "none"
Decisions == {Undecided, "skip", "maybe"}      \* what is stored
NoOverride == "stored"

Count(what) == clicks' = [clicks EXCEPT ![what] = @ + 1]

Fresh == [override |-> [f \in Finds |-> NoOverride], told |-> {}, toast |-> NoFind,
          prior |-> Undecided, busy |-> NoFind, bulk |-> {}, verb |-> "skip", mounted |-> TRUE]

\* effDecision, and the rows that can be decided.
Eff(f) == IF inbox.override[f] = NoOverride THEN data[f].decision ELSE inbox.override[f]
Listed(f) == data[f].here /\ ~data[f].tracked

Call(kind, f, verb) == [kind |-> kind, find |-> f, verb |-> verb, prior |-> Eff(f)]
Load == [kind |-> "load", find |-> NoFind, verb |-> Undecided, prior |-> Undecided]
DraftOf(f) == [kind |-> "draft", find |-> f, verb |-> Undecided, prior |-> Undecided]

UnderWay(f) == \E r \in requests : r.find = f

\* A call goes out beside those under way.
Sends(c) ==
  /\ Cardinality(requests) < MaxCalls /\ c \notin requests
  /\ requests' = requests \cup {c}
  /\ history' = IF UnderWay(c.find) \/ (c.kind # "bulk" /\ c.find \in inbox.bulk)
                THEN [history EXCEPT !.excused = @ \cup {c.find}] ELSE history

-----------------------------------------------------------------------------
(***************************************************************************)
(* The finds.                                                              *)
(***************************************************************************)
\* addFind, at the end of a run: not a find nor a job already.  A row that is still on
\* the screen keeps what was decided of the find that was removed.
AddFind(f) ==
  /\ clicks.events < MaxEvents /\ ~finds[f].here /\ f \notin jobs
  /\ finds' = [finds EXCEPT ![f] = [here |-> TRUE, decision |-> Undecided]]
  /\ history' = IF inbox.override[f] = NoOverride THEN history
                ELSE [history EXCEPT !.excused = @ \cup {f}]
  /\ Count("events")
  /\ UNCHANGED <<jobs, data, inbox, requests>>

\* pruneFinds, before a run: the deadline is over, not tracked (nor decided "pursue",
\* which no client sends).
PruneFinds ==
  /\ clicks.events < MaxEvents
  /\ \E late \in SUBSET {f \in Finds : finds[f].here} :
       finds' = [f \in Finds |->
         [finds[f] EXCEPT !.here = @ /\ ~(f \in late /\ f \notin jobs)]]
  /\ Count("events")
  /\ UNCHANGED <<jobs, data, inbox, requests, history>>

\* decideFind.
DecideFind(f, verb) ==
  finds' = [finds EXCEPT ![f].decision = IF finds[f].here THEN verb ELSE @]

\* createJob: 409 when a job of that name is there.
CreateJob(f) ==
  /\ f \notin jobs
  /\ jobs' = jobs \cup {f}
  /\ history' = [history EXCEPT !.made[f] = @ + 1]

-----------------------------------------------------------------------------
(***************************************************************************)
(* The list.                                                               *)
(***************************************************************************)
\* applyDecision, by a button (not while the row is busy) or a key (even then).
ApplyDecision(f, verb) ==
  /\ clicks.clicks < MaxClicks
  /\ inbox.mounted /\ Listed(f)
  /\ Sends(Call("apply", f, verb))
  /\ inbox' = [inbox EXCEPT !.override[f] = verb, !.told = @ \ {f}, !.toast = f,
                            !.prior = Eff(f), !.busy = f]
  /\ Count("clicks")
  /\ UNCHANGED <<finds, jobs, data>>

\* undoDecision: the prior decision is sent, or "clear"; nobody waits for the answer.
UndoDecision ==
  LET f == inbox.toast
  IN  /\ inbox.mounted /\ f # NoFind
      /\ Sends(Call("undo", f, inbox.prior))
      /\ inbox' = [inbox EXCEPT !.override[f] = inbox.prior, !.toast = NoFind]
      /\ UNCHANGED <<finds, jobs, data, clicks>>

ToastExpires ==
  /\ inbox.toast # NoFind
  /\ inbox' = [inbox EXCEPT !.toast = NoFind]
  /\ UNCHANGED <<finds, jobs, data, requests, history, clicks>>

\* bulkDecide: all rows at once on the screen, one call after the other.
BulkDecide(chosen, verb) ==
  /\ clicks.clicks < MaxClicks
  /\ inbox.mounted /\ inbox.bulk = {}
  /\ inbox' = [inbox EXCEPT
       !.override = [f \in Finds |-> IF f \in chosen THEN verb ELSE @[f]],
       !.bulk = chosen, !.verb = verb]
  /\ history' = [history EXCEPT
       !.excused = @ \cup {f \in chosen : UnderWay(f)}]
  /\ Count("clicks")
  /\ UNCHANGED <<finds, jobs, data, requests>>

BulkSends(f) ==
  /\ f \in inbox.bulk /\ \A r \in requests : r.kind # "bulk"
  /\ Sends(Call("bulk", f, inbox.verb))
  /\ inbox' = [inbox EXCEPT !.bulk = @ \ {f}]
  /\ UNCHANGED <<finds, jobs, data, clicks>>

\* pursue.
Pursue(f) ==
  /\ clicks.clicks < MaxClicks
  /\ inbox.mounted /\ Listed(f)
  /\ Sends(Call("pursue", f, Undecided))
  /\ inbox' = [inbox EXCEPT !.busy = f, !.told = @ \ {f}]
  /\ Count("clicks")
  /\ UNCHANGED <<finds, jobs, data>>

\* Sources, and Finds again: the inbox is mounted anew over the data that is there.
\* A bulk under way goes on.
ToSources ==
  /\ inbox.mounted
  /\ inbox' = [Fresh EXCEPT !.mounted = FALSE, !.bulk = inbox.bulk, !.verb = inbox.verb]
  /\ UNCHANGED <<finds, jobs, data, requests, history, clicks>>
ToFinds ==
  /\ ~inbox.mounted
  /\ inbox' = [inbox EXCEPT !.mounted = TRUE]
  /\ UNCHANGED <<finds, jobs, data, requests, history, clicks>>

\* reloadDiscovery: Refresh, or a source run has finished.
Refresh ==
  /\ clicks.events < MaxEvents /\ Load \notin requests
  /\ requests' = requests \cup {Load}
  /\ Count("events")
  /\ UNCHANGED <<finds, jobs, data, inbox, history>>

-----------------------------------------------------------------------------
(***************************************************************************)
(* Answers.                                                                *)
(***************************************************************************)
Done(c) == requests' = requests \ {c}
NotBusy(f) == IF inbox.busy = f THEN NoFind ELSE inbox.busy

\* decide is served, and found the row.
Decided(c) ==
  /\ c.kind \in {"apply", "undo", "bulk"} /\ finds[c.find].here
  /\ Done(c) /\ DecideFind(c.find, c.verb)
  /\ inbox' = IF c.kind = "apply" THEN [inbox EXCEPT !.busy = NotBusy(c.find)] ELSE inbox
  /\ UNCHANGED <<jobs, data, history, clicks>>

\* applyDecision's failure: the message, the prior decision, no toast.
TakenBack(c) ==
  [inbox EXCEPT !.told = @ \cup {c.find}, !.override[c.find] = c.prior,
                !.toast = IF @ = c.find THEN NoFind ELSE @, !.busy = NotBusy(c.find)]

\* What a failed decision, an undo or one of a bulk leaves on the screen.
Shown(c) ==
  IF ~inbox.mounted THEN inbox
  ELSE CASE c.kind = "apply" -> TakenBack(c)
         [] c.kind = "bulk"  -> [inbox EXCEPT !.told = @ \cup {c.find}]
         [] OTHER -> inbox

\* decide is refused (locked, 404, 500), or its answer lost after it was served.
NotDecided(c) ==
  /\ c.kind \in {"apply", "undo", "bulk"}
  /\ Done(c)
  /\ \/ ~finds[c.find].here /\ UNCHANGED <<finds, clicks>>
     \/ /\ clicks.fails < MaxFails /\ Count("fails")
        /\ DecideFind(c.find, c.verb) \/ UNCHANGED finds
  /\ inbox' = Shown(c)
  /\ history' = IF c.kind = "undo" THEN [history EXCEPT !.excused = @ \cup {c.find}] ELSE history
  /\ UNCHANGED <<jobs, data>>

\* The job is made; the draft is launched, if it can be; onPursued opens the job's
\* drawer, and the next visit to Discovery reads the finds again.
Pursued(c) ==
  /\ c.kind = "pursue" /\ CreateJob(c.find)
  /\ requests' = (requests \ {c}) \cup {Load, DraftOf(c.find)}
  /\ inbox' = [Fresh EXCEPT !.mounted = FALSE, !.bulk = inbox.bulk, !.verb = inbox.verb]
  /\ UNCHANGED <<finds, data, clicks>>

Draft(c) ==
  /\ c.kind = "draft" /\ Done(c)
  /\ history' = [history EXCEPT !.drafts[c.find] = @ + 1]
  /\ UNCHANGED <<finds, jobs, data, inbox, clicks>>

\* pursue fails: 409, or lost before or after it was served.
NotPursued(c) ==
  /\ c.kind = "pursue" /\ Done(c)
  /\ \/ c.find \in jobs /\ UNCHANGED <<jobs, history, clicks>>
     \/ /\ clicks.fails < MaxFails /\ Count("fails")
        /\ CreateJob(c.find) \/ UNCHANGED <<jobs, history>>
  /\ inbox' = IF ~inbox.mounted THEN inbox
              ELSE [inbox EXCEPT !.told = @ \cup {c.find}, !.busy = NotBusy(c.find)]
  /\ UNCHANGED <<finds, data>>

\* listFinds.
Loaded(c) ==
  /\ c.kind = "load" /\ Done(c)
  /\ data' = [f \in Finds |->
       [here |-> finds[f].here, decision |-> finds[f].decision, tracked |-> f \in jobs]]
  /\ UNCHANGED <<finds, jobs, inbox, history, clicks>>

-----------------------------------------------------------------------------
TriageInit ==
  /\ finds = [f \in Finds |-> [here |-> TRUE, decision |-> Undecided]]
  /\ jobs  = {}
  /\ data  = [f \in Finds |-> [here |-> TRUE, decision |-> Undecided, tracked |-> FALSE]]
  /\ inbox = Fresh
  /\ requests = {}
  /\ history = [drafts |-> [f \in Finds |-> 0], made |-> [f \in Finds |-> 0], excused |-> {}]
  /\ clicks = [clicks |-> 0, fails |-> 0, events |-> 0]

TriageNext ==
  \/ \E f \in Finds : AddFind(f) \/ BulkSends(f) \/ Pursue(f)
  \/ \E f \in Finds, verb \in {"skip", "maybe"} : ApplyDecision(f, verb)
  \/ \E chosen \in SUBSET {f \in Finds : Listed(f)} : chosen # {} /\ BulkDecide(chosen, "skip")
  \/ \E c \in requests :
       Decided(c) \/ NotDecided(c) \/ Pursued(c) \/ NotPursued(c) \/ Draft(c) \/ Loaded(c)
  \/ PruneFinds \/ UndoDecision \/ ToastExpires \/ ToSources \/ ToFinds \/ Refresh

TriageSpec == TriageInit /\ [][TriageNext]_triageVars

-----------------------------------------------------------------------------
(***************************************************************************)
(* Properties.                                                             *)
(***************************************************************************)
\* The types of the state.
TriageTypeOK ==
  /\ finds \in [Finds -> [here: BOOLEAN, decision: Decisions]]
  /\ jobs \subseteq Finds
  /\ data \in [Finds -> [here: BOOLEAN, decision: Decisions, tracked: BOOLEAN]]
  /\ inbox.override \in [Finds -> Decisions \cup {NoOverride}]
  /\ inbox.toast \in Finds \cup {NoFind} /\ inbox.busy \in Finds \cup {NoFind}

\* Keys pressed twice, a retry after a lost answer, a stale list: a find becomes one
\* job, and its draft is launched once at most (pursue.ts, the 409 of createJob).
PursuedOnce == \A f \in Finds : history.made[f] <= 1 /\ history.drafts[f] <= 1

\* When nothing is under way, a row shows the decision that is stored, or says what
\* went wrong; of the rows whose calls did not overlap, whose undo was not lost, and
\* whose find was not removed and found anew after the decision.
RowTellsStored ==
  requests = {} /\ inbox.bulk = {} =>
    \A f \in Finds \ history.excused :
      finds[f].here /\ inbox.override[f] # NoOverride =>
        inbox.override[f] = finds[f].decision \/ f \in inbox.told
=============================================================================

------------------------------ MODULE RunnerLane ------------------------------
(***************************************************************************)
(* The hybrid runner: laptop processes (ops/agent-runner.mjs) that poll    *)
(* the cloud for agent jobs over HTTPS, run the agent locally, post the    *)
(* artifacts it wrote and then the result; and the four endpoints of the   *)
(* cloud they call (server/index.js, mountRunnerRoutes).  The rows are     *)
(* those of AgentQueue.                                                    *)
(*                                                                         *)
(* A laptop waits for one call at a time.  A call can fail at the laptop   *)
(* while its request is under way: the request then arrives late or never, *)
(* and its response reaches nobody.  A laptop process can die at any       *)
(* moment and keeps nothing across a restart.  The lease of a row can run  *)
(* out under a laptop that lives (it slept, or takes long to upload).      *)
(*                                                                         *)
(* All agent jobs here are of the kinds that must deliver artifacts        *)
(* (first-draft-job, finalize-job); of an artifact only its kind, its      *)
(* writer and the verdict of the checks on it are kept.                    *)
(***************************************************************************)
EXTENDS AgentQueue, FiniteSets

CONSTANTS
  Laptops,        \* runner processes
  TokenOf,        \* the runner identity of each; processes sharing a token share it
  StaleLaptops,   \* processes of a runner build that reports the exit code alone
  Jobs,           \* tracked jobs (job folders)
  JobOf,          \* agent_jobs.job_id
  Kinds,          \* RUNNER_REQUIRED_ARTIFACT_KINDS of the agent jobs: cv, cover
  NoFile,         \* no artifact of the kind in job_files
  Earlier,        \* one that was there before any agent job of the model
  MaxFailures,    \* bound: calls that fail at a laptop
  MaxCrashes      \* bound: laptop processes that die

ASSUME LaneAssumption ==
  /\ TokenOf \in [Laptops -> Runners]
  /\ StaleLaptops \subseteq Laptops
  /\ JobOf \in [AgentJobs -> Jobs]
  /\ NoFile \notin AgentJobs \X (1 .. MaxAttempts) \cup {Earlier}
  /\ MaxFailures \in Nat /\ MaxCrashes \in Nat

VARIABLES
  laptop,     \* each process: program counter, claim, artifacts still to post and posted
  requests,   \* requests under way to the cloud
  files,      \* for each job and kind, who wrote the current artifact
  failures, crashes,
  stored      \* history: every <<agent job, nonce, kind>> the cloud stored

laneVars == <<laptop, requests, files, failures, crashes, stored>>
vars == <<queueVars, laneVars>>

-----------------------------------------------------------------------------
(***************************************************************************)
(* The laptop process.                                                     *)
(***************************************************************************)
NoClaim == [job |-> "none", nonce |-> 0]

Resting(pc) == [pc |-> pc, claim |-> NoClaim, exit0 |-> FALSE, todo |-> {}, posted |-> {}]

\* Requests whose response a laptop awaits; a heartbeat is fire-and-forget.
Request(op, p, detail) == [op |-> op, from |-> p, claim |-> laptop[p].claim,
                           detail |-> detail, awaited |-> op # "heartbeat"]

Awaiting == {"polling", "posting-one", "reporting", "reporting-error"}

Send(op, p, detail, pc) ==
  /\ requests' = requests \cup {Request(op, p, detail)}
  /\ laptop' = [laptop EXCEPT ![p].pc = pc]
  /\ UNCHANGED <<queueVars, files, failures, crashes, stored>>

PollNext(p) ==
  /\ laptop[p].pc = "idle"
  /\ Send("claim", p, "none", "polling")

\* setInterval: only while the agent runs, so not while artifacts are posted.
Heartbeat(p) ==
  /\ laptop[p].pc = "working"
  /\ Send("heartbeat", p, "none", "working")

\* runClaudeLocally resolves.  Only an exit with code 0 has its outputs collected;
\* of the required kinds it may have written any, each good enough to be accepted
\* or not (size, mime, page cap).
AgentExits(p) ==
  /\ laptop[p].pc = "working"
  /\ \E exit0 \in BOOLEAN, written \in SUBSET Kinds :
       laptop' = [laptop EXCEPT ![p].pc = "posting", ![p].exit0 = exit0,
                                ![p].todo = IF exit0 THEN written ELSE {}]
  /\ UNCHANGED <<queueVars, requests, files, failures, crashes, stored>>

PostArtifact(p) ==
  /\ laptop[p].pc = "posting"
  /\ \E k \in laptop[p].todo, passes \in BOOLEAN :
       Send("artifact", p, [kind |-> k, passes |-> passes], "posting-one")

\* Mutant: the exit code alone, in every build.
OutcomeOfExitCode(p) == IF laptop[p].exit0 THEN "done" ELSE "failed"

\* resolveRunOutcome: exit code 0 and every required kind answered with a 2xx.
\* The builds before that rule reported the exit code alone.
ResolveRunOutcome(p) ==
  IF ~laptop[p].exit0 THEN "failed"
  ELSE IF p \in StaleLaptops \/ Kinds \subseteq laptop[p].posted THEN "done" ELSE "failed"

PostResult(p) ==
  /\ laptop[p].pc = "posting"
  /\ laptop[p].todo = {}
  /\ Send("result", p, ResolveRunOutcome(p), "reporting")

\* The awaited call throws at the laptop.  A poll is repeated later; an artifact is
\* noted as not posted; a failed result report is followed by a report of failure,
\* and when that fails too the laptop moves on.
CallFails(p) ==
  /\ laptop[p].pc \in Awaiting
  /\ failures < MaxFailures
  /\ failures' = failures + 1
  /\ \E m \in requests :
       /\ m.from = p /\ m.awaited
       /\ LET orphaned == (requests \ {m}) \cup {[m EXCEPT !.awaited = FALSE]} IN
          \/ /\ laptop[p].pc \in {"polling", "reporting-error"}
             /\ laptop' = [laptop EXCEPT ![p] = Resting("idle")]
             /\ requests' = orphaned
          \/ /\ laptop[p].pc = "posting-one"
             /\ laptop' = [laptop EXCEPT ![p].pc = "posting", ![p].todo = @ \ {m.detail.kind}]
             /\ requests' = orphaned
          \/ /\ laptop[p].pc = "reporting"
             /\ laptop' = [laptop EXCEPT ![p].pc = "reporting-error"]
             /\ requests' = orphaned \cup {Request("result", p, "failed")}
  /\ UNCHANGED <<queueVars, files, crashes, stored>>

\* The process dies; what it sent may still arrive.
Crash(p) ==
  /\ laptop[p].pc # "down"
  /\ crashes < MaxCrashes
  /\ crashes' = crashes + 1
  /\ laptop' = [laptop EXCEPT ![p] = Resting("down")]
  /\ requests' = {IF m.from = p THEN [m EXCEPT !.awaited = FALSE] ELSE m : m \in requests}
  /\ UNCHANGED <<queueVars, files, failures, stored>>

Restart(p) ==
  /\ laptop[p].pc = "down"
  /\ laptop' = [laptop EXCEPT ![p] = Resting("idle")]
  /\ UNCHANGED <<queueVars, requests, files, failures, crashes, stored>>

-----------------------------------------------------------------------------
(***************************************************************************)
(* The endpoints.  The cloud handles a request and, if the laptop still    *)
(* waits for it, the laptop gets the response.                             *)
(***************************************************************************)
Handled(m) == requests' = requests \ {m}

\* Mutant: an answer reaches a process that has given up on the call.
AnswerAnyway(m, newState) == laptop' = [laptop EXCEPT ![m.from] = newState]

Answer(m, newState) ==
  laptop' = IF m.awaited THEN [laptop EXCEPT ![m.from] = newState] ELSE laptop

\* GET /api/runner/jobs/next.
ServeClaim(m) ==
  /\ m.op = "claim"
  /\ Handled(m)
  /\ \/ \E j \in AgentJobs :
          /\ ClaimAgentJob(TokenOf[m.from], j)
          /\ Answer(m, [Resting("working") EXCEPT !.claim = [job |-> j, nonce |-> nonce'[j]]])
     \/ /\ \A j \in AgentJobs : ~Claimable(j)
        /\ ClaimNothing \/ (~(\E j \in AgentJobs : LeaseExpired(j)) /\ UNCHANGED queueVars)
        /\ Answer(m, Resting("idle"))
  /\ UNCHANGED <<files, failures, crashes, stored>>

\* Mutant: a heartbeat for any row, in whatever state.
ServeHeartbeatBlindly(m) ==
  /\ m.op = "heartbeat"
  /\ Handled(m)
  /\ status' = [status EXCEPT ![m.claim.job] = "running"]
  /\ lease'  = [lease EXCEPT ![m.claim.job] = "live"]
  /\ UNCHANGED <<attempts, claimedBy, nonce, createdAt, position, stamp, histVars>>
  /\ UNCHANGED <<laptop, files, failures, crashes, stored>>

\* POST .../heartbeat: 409 when the row is not held in this token's name.
ServeHeartbeat(m) ==
  /\ m.op = "heartbeat"
  /\ Handled(m)
  /\ LET j == m.claim.job r == TokenOf[m.from] IN
     IF claimedBy[j] = r /\ status[j] \in Held
     THEN HeartbeatAgentJob(r, j) ELSE UNCHANGED queueVars
  /\ UNCHANGED <<laptop, files, failures, crashes, stored>>

\* Mutant: the holder is enough, whichever of its claims it uploads for.
ArtifactOfHolder(m) ==
  LET j == m.claim.job IN claimedBy[j] = TokenOf[m.from] /\ nonce[j] # 0 /\ m.detail.passes

\* POST .../artifact: 409 for another holder, 403 for another nonce, 400 for an
\* artifact over the page cap; neither the status nor the lease is looked at.  The
\* target is the job of the row, where the artifact replaces one of its name.
ArtifactAccepted(m) ==
  LET j == m.claim.job IN
  /\ claimedBy[j] = TokenOf[m.from]
  /\ nonce[j] # 0 /\ nonce[j] = m.claim.nonce
  /\ m.detail.passes

ServeArtifact(m) ==
  /\ m.op = "artifact"
  /\ Handled(m)
  /\ LET j == m.claim.job k == m.detail.kind p == m.from
         next(accepted) ==
           [laptop[p] EXCEPT !.pc = "posting", !.todo = @ \ {k},
                             !.posted = IF accepted THEN @ \cup {k} ELSE @]
     IN \/ /\ ArtifactAccepted(m)
           /\ files' = [files EXCEPT ![JobOf[j]][k] = <<j, m.claim.nonce>>]
           /\ stored' = stored \cup {<<j, m.claim.nonce, k>>}
           /\ Answer(m, next(TRUE))
        \/ /\ ~ArtifactAccepted(m)
           /\ UNCHANGED <<files, stored>>
           /\ Answer(m, next(FALSE))
  /\ UNCHANGED <<queueVars, failures, crashes>>

\* Mutant: no backstop.
NoBackstop(j, reported) == reported

\* The fail-closed backstop of POST .../result: a "done" without the required
\* artifacts in job_files is recorded as failed.
Backstop(j, reported) ==
  IF reported = "done" /\ \E k \in Kinds : files[JobOf[j]][k] = NoFile
  THEN "failed" ELSE reported

\* POST .../result: a settled job answers ok unchanged, a wrong holder or nonce 403;
\* the laptop looks at neither and moves on.
ServeResult(m) ==
  /\ m.op = "result"
  /\ Handled(m)
  /\ LET j == m.claim.job n == m.claim.nonce r == TokenOf[m.from] IN
     IF ResultAccepted(r, j, n)
     THEN CompleteAgentJob(r, j, n, Backstop(j, m.detail))
     ELSE UNCHANGED queueVars
  /\ Answer(m, Resting("idle"))
  /\ UNCHANGED <<files, failures, crashes, stored>>

\* A request nobody waits for any more gets lost.
LoseRequest(m) ==
  /\ ~m.awaited
  /\ Handled(m)
  /\ UNCHANGED <<queueVars, laptop, files, failures, crashes, stored>>

Serve(m) == ServeClaim(m) \/ ServeHeartbeat(m) \/ ServeArtifact(m) \/ ServeResult(m)

-----------------------------------------------------------------------------
\* The owner, and time.
OwnerEnqueues(j) == EnqueueAgentJob(j) /\ UNCHANGED laneVars
OwnerCancels(j)  == CancelAgentJob(j) /\ UNCHANGED laneVars
OwnerRequeues(j) == RequeueAgentJob(j) /\ UNCHANGED laneVars
TimePasses(j)    == LeaseLapses(j) /\ UNCHANGED laneVars

Init ==
  /\ QueueInit
  /\ laptop = [p \in Laptops |-> Resting("idle")]
  /\ requests = {}
  /\ files \in [Jobs -> [Kinds -> {NoFile, Earlier}]]
  /\ failures = 0 /\ crashes = 0
  /\ stored = {}

LaptopStep(p) ==
  PollNext(p) \/ AgentExits(p) \/ PostArtifact(p) \/ PostResult(p) \/ Restart(p)

Next ==
  \/ \E p \in Laptops : LaptopStep(p) \/ Heartbeat(p) \/ CallFails(p) \/ Crash(p)
  \/ \E m \in requests : Serve(m) \/ LoseRequest(m)
  \/ \E j \in AgentJobs : OwnerEnqueues(j) \/ OwnerCancels(j) \/ OwnerRequeues(j) \/ TimePasses(j)

\* A process that is up keeps going, its agent exits, a dead one is started again;
\* the cloud handles what it receives; a lease nobody renews runs out.  The owner,
\* heartbeats, failures and crashes owe nothing.
Fairness ==
  /\ \A p \in Laptops : WF_vars(LaptopStep(p))
  /\ \A p \in Laptops : WF_vars(\E m \in requests : m.from = p /\ m.awaited /\ Serve(m))
  /\ WF_vars(\E m \in requests : ~m.awaited /\ (Serve(m) \/ LoseRequest(m)))
  /\ \A j \in AgentJobs : WF_vars(TimePasses(j))

Spec == Init /\ [][Next]_vars
FairSpec == Spec /\ Fairness

-----------------------------------------------------------------------------
\* Laptops, requests and stored artifacts have the shape the protocol gives them:
\* a laptop that works holds a claim it was granted, and it waits for a response
\* exactly while one request of its own is awaited.
LaneTypeOK ==
  /\ QueueTypeOK
  /\ \A p \in Laptops :
       /\ laptop[p].pc \in {"down", "idle", "working", "posting"} \cup Awaiting
       /\ laptop[p].todo \subseteq Kinds /\ laptop[p].posted \subseteq Kinds
       /\ laptop[p].claim # NoClaim =>
            <<laptop[p].claim.job, TokenOf[p], laptop[p].claim.nonce>> \in granted
       /\ Cardinality({m \in requests : m.from = p /\ m.awaited}) = 
            (IF laptop[p].pc \in Awaiting THEN 1 ELSE 0)
  /\ files \in [Jobs -> [Kinds -> {NoFile, Earlier} \cup (AgentJobs \X (1 .. MaxAttempts))]]

\* An agent job is done only when the very run that reported it had every
\* required artifact stored: "the process exited 0" is not "the work succeeded",
\* and neither is an artifact left by an earlier attempt, an earlier agent job or
\* before.  runner-lib.js says so of the required kinds, and index.js says the
\* backstop holds it against a stale or buggy runner build too.
DoneMeansDelivered ==
  \A j \in AgentJobs : status[j] = "done" =>
    \A k \in Kinds : <<j, winner[j], k>> \in stored

\* What the backstop does guarantee when a build reports "done" wrongly: a done job has
\* every required kind in its folder, though any run may have put it there.
DoneHasEveryKind ==
  \A j \in AgentJobs : status[j] = "done" =>
    \A k \in Kinds : files[JobOf[j]][k] # NoFile

\* An artifact reaches a job's folder only from the run that holds the newest
\* claim of an unsettled agent job for that job: a slept laptop's late upload, a
\* second process with the same token or a run whose job was settled or handed to
\* another cannot overwrite what the folder holds.
ArtifactOnlyUnderNewestClaim ==
  [][\A t \in Jobs, k \in Kinds :
       files'[t][k] # files[t][k] =>
         \E j \in AgentJobs : /\ JobOf[j] = t /\ status[j] \in Held
                              /\ files'[t][k] = <<j, attempts[j]>>]_vars

\* The endpoints drive the queue as AgentQueue assumes: above all, a nonce is only
\* ever presented by a runner that was granted it.
DrivesQueue == QueueSpec

\* Whatever crashes, gets lost, is late or runs out, every agent job that was
\* queued is settled in the end: done, failed, cancelled or dead.
EveryJobSettles ==
  \A j \in AgentJobs : status[j] = "queued" ~> status[j] \in Terminal
=============================================================================

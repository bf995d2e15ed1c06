------------------------------ MODULE AgentQueue ------------------------------
(***************************************************************************)
(* The agent_jobs queue of the cloud instance (server/pg-store.js, table   *)
(* agent_jobs; server/store.js, agent-jobs.json): the rows the laptop      *)
(* runner polls, claims under a lease with a single-use nonce, keeps alive *)
(* with heartbeats and settles with a result.                              *)
(*                                                                         *)
(* Each action is one store call.  The calls of one server process do not  *)
(* interleave (both stores are synchronous), so an action is atomic.  A    *)
(* call the code refuses changes no row and is not an action.              *)
(*                                                                         *)
(* Abstractions.  Wall-clock leases are "live" or "expired"; LeaseLapses   *)
(* lets any lease run out at any moment.  A nonce is a fresh random value  *)
(* of one claim, so the number of the claim stands for it (0 for null).    *)
(* Timestamps are the values of a counter, `stamp`.  Payload, progress     *)
(* lines and the texts of errors are left out.                             *)
(***************************************************************************)
EXTENDS Integers, TLC

CONSTANTS
  AgentJobs,     \* ids of agent_jobs rows
  Runners,       \* runner identities, runnerIdFromToken(token)
  NoRunner,      \* claimed_by = null
  MaxAttempts,   \* RUNNER_MAX_ATTEMPTS
  ByCreatedAt,   \* TRUE: PgStore (order by created_at); FALSE: FileStore (array order)
  MaxStamp       \* bound: how many enqueues and re-queues a behaviour may have

ASSUME QueueAssumption ==
  /\ NoRunner \notin Runners
  /\ MaxAttempts \in Nat \ {0}
  /\ ByCreatedAt \in BOOLEAN
  /\ MaxStamp \in Nat

VARIABLES
  status,      \* "absent" before the row exists
  attempts,
  claimedBy,
  nonce,
  lease,       \* leaseExpiresAt: "null", or in the future ("live") or past ("expired")
  createdAt,   \* the "queued since" clock
  position,    \* the row's place in agent-jobs.json
  stamp,       \* the clock behind createdAt and position
  \* history, read by no action:
  granted,     \* the <<job, runner, nonce>> handed out by claims
  applied,     \* how many results were applied to the job
  winner       \* the nonce of the last applied result, 0 for none

rowVars == <<status, attempts, claimedBy, nonce, lease, createdAt, position>>
histVars == <<granted, applied, winner>>
queueVars == <<rowVars, stamp, histVars>>

Held == {"claimed", "running"}
Terminal == {"done", "failed", "dead"}
Statuses == {"absent", "queued"} \cup Held \cup Terminal
Outcomes == {"done", "failed"}
Nonces == 0 .. MaxAttempts

QueueInit ==
  /\ status    = [j \in AgentJobs |-> "absent"]
  /\ attempts  = [j \in AgentJobs |-> 0]
  /\ claimedBy = [j \in AgentJobs |-> NoRunner]
  /\ nonce     = [j \in AgentJobs |-> 0]
  /\ lease     = [j \in AgentJobs |-> "null"]
  /\ createdAt = [j \in AgentJobs |-> 0]
  /\ position  = [j \in AgentJobs |-> 0]
  /\ stamp = 0
  /\ granted = {}
  /\ applied = [j \in AgentJobs |-> 0]
  /\ winner  = [j \in AgentJobs |-> 0]

(***************************************************************************)
(* The sweep every claim starts with.                                      *)
(***************************************************************************)
\* Mutant: a row whose runner has sent a heartbeat is not swept.
ClaimedLeaseExpired(j) == status[j] = "claimed" /\ lease[j] = "expired"

LeaseExpired(j) == status[j] \in Held /\ lease[j] = "expired"

\* Mutant: the sweep forgets the attempts cap.
SweptToQueue(j) == IF LeaseExpired(j) THEN "queued" ELSE status[j]

Swept(j) ==
  IF ~LeaseExpired(j) THEN status[j]
  ELSE IF attempts[j] >= MaxAttempts THEN "dead" ELSE "queued"

\* A column of the rows after the sweep, which nulls it in the rows it releases.
Cleared(column, null) ==
  [j \in AgentJobs |-> IF LeaseExpired(j) THEN null ELSE column[j]]

Claimable(j) == Swept(j) = "queued" /\ attempts[j] < MaxAttempts

\* PgStore takes the row with the least created_at, FileStore the first of the array.
Rank(j) == IF ByCreatedAt THEN createdAt[j] ELSE position[j]

FirstInLine(j) == Claimable(j) /\ \A k \in AgentJobs : Claimable(k) => Rank(j) <= Rank(k)

(***************************************************************************)
(* The store calls.                                                        *)
(***************************************************************************)
EnqueueAgentJob(j) ==
  /\ status[j] = "absent"
  /\ stamp < MaxStamp
  /\ status' = [status EXCEPT ![j] = "queued"]
  /\ stamp' = stamp + 1
  /\ createdAt' = [createdAt EXCEPT ![j] = stamp']
  /\ position' = [position EXCEPT ![j] = stamp']
  /\ UNCHANGED <<attempts, claimedBy, nonce, lease, histVars>>

\* claimAgentJob returns row j, with a fresh nonce and lease.
ClaimAgentJob(r, j) ==
  /\ FirstInLine(j)
  /\ status'    = [[k \in AgentJobs |-> Swept(k)] EXCEPT ![j] = "claimed"]
  /\ attempts'  = [attempts EXCEPT ![j] = @ + 1]
  /\ claimedBy' = [Cleared(claimedBy, NoRunner) EXCEPT ![j] = r]
  /\ nonce'     = [Cleared(nonce, 0) EXCEPT ![j] = attempts'[j]]
  /\ lease'     = [Cleared(lease, "null") EXCEPT ![j] = "live"]
  /\ granted' = granted \cup {<<j, r, attempts'[j]>>}
  /\ UNCHANGED <<createdAt, position, stamp, applied, winner>>

\* claimAgentJob finds nothing to hand out; its sweep is saved all the same.
ClaimNothing ==
  /\ \A j \in AgentJobs : ~Claimable(j)
  /\ \E j \in AgentJobs : LeaseExpired(j)
  /\ status'    = [k \in AgentJobs |-> Swept(k)]
  /\ claimedBy' = Cleared(claimedBy, NoRunner)
  /\ nonce'     = Cleared(nonce, 0)
  /\ lease'     = Cleared(lease, "null")
  /\ UNCHANGED <<attempts, createdAt, position, stamp, histVars>>

\* Mutant: a heartbeat of the last holder is taken whatever the status.
HeartbeatOfHolder(r, j) ==
  /\ claimedBy[j] = r
  /\ status' = [status EXCEPT ![j] = "running"]
  /\ lease'  = [lease EXCEPT ![j] = "live"]
  /\ UNCHANGED <<attempts, claimedBy, nonce, createdAt, position, stamp, histVars>>

\* Neither the nonce nor the lease is looked at: a late heartbeat revives a
\* lease that has expired, as long as no claim has swept the row.
HeartbeatAgentJob(r, j) ==
  /\ claimedBy[j] = r
  /\ status[j] \in Held
  /\ status' = [status EXCEPT ![j] = "running"]
  /\ lease'  = [lease EXCEPT ![j] = "live"]
  /\ UNCHANGED <<attempts, claimedBy, nonce, createdAt, position, stamp, histVars>>

\* Mutant: the holder is enough, whichever of its claims it answers for.
ResultOfHolder(r, j, n) == status[j] \in Held /\ claimedBy[j] = r

\* The conditions under which completeAgentJob applies a result; a job that is
\* already settled answers ok without change, anything else is refused.
ResultAccepted(r, j, n) ==
  /\ status[j] \in Held
  /\ claimedBy[j] = r
  /\ nonce[j] # 0 /\ nonce[j] = n

\* Mutant: the nonce is not consumed.
CompleteKeepsNonce(r, j, n, outcome) ==
  /\ ResultAccepted(r, j, n)
  /\ status' = [status EXCEPT ![j] = outcome]
  /\ applied' = [applied EXCEPT ![j] = @ + 1]
  /\ winner'  = [winner EXCEPT ![j] = n]
  /\ UNCHANGED <<attempts, claimedBy, nonce, lease, createdAt, position, stamp, granted>>

\* claimed_by and the lease stay as they are; the nonce is consumed.
CompleteAgentJob(r, j, n, outcome) ==
  /\ ResultAccepted(r, j, n)
  /\ status' = [status EXCEPT ![j] = outcome]
  /\ nonce'  = [nonce EXCEPT ![j] = 0]
  /\ applied' = [applied EXCEPT ![j] = @ + 1]
  /\ winner'  = [winner EXCEPT ![j] = n]
  /\ UNCHANGED <<attempts, claimedBy, lease, createdAt, position, stamp, granted>>

\* Mutant: a cancel takes a row from the runner that holds it.
CancelUnlessSettled(j) ==
  /\ status[j] \in {"queued"} \cup Held
  /\ status' = [status EXCEPT ![j] = "failed"]
  /\ nonce'  = [nonce EXCEPT ![j] = 0]
  /\ UNCHANGED <<attempts, claimedBy, lease, createdAt, position, stamp, histVars>>

\* Mutant: a status of its own, which the rest of the code does not know.
CancelWithNewStatus(j) ==
  /\ status[j] = "queued"
  /\ status' = [status EXCEPT ![j] = "canceled"]
  /\ nonce'  = [nonce EXCEPT ![j] = 0]
  /\ UNCHANGED <<attempts, claimedBy, lease, createdAt, position, stamp, histVars>>

CancelAgentJob(j) ==
  /\ status[j] = "queued"
  /\ status' = [status EXCEPT ![j] = "failed"]
  /\ nonce'  = [nonce EXCEPT ![j] = 0]
  /\ UNCHANGED <<attempts, claimedBy, lease, createdAt, position, stamp, histVars>>

\* The row keeps its place in the array but gets a new created_at.
RequeueAgentJob(j) ==
  /\ status[j] = "queued"
  /\ stamp < MaxStamp
  /\ stamp' = stamp + 1
  /\ createdAt' = [createdAt EXCEPT ![j] = stamp']
  /\ UNCHANGED <<status, attempts, claimedBy, nonce, lease, position, histVars>>

\* Not a call: ten minutes pass without a heartbeat.
LeaseLapses(j) ==
  /\ status[j] \in Held
  /\ lease[j] = "live"
  /\ lease' = [lease EXCEPT ![j] = "expired"]
  /\ UNCHANGED <<status, attempts, claimedBy, nonce, createdAt, position, stamp, histVars>>

\* A runner can present any nonce it was ever given, however late.
LateOrTimelyResult(r, j) ==
  \E n \in 1 .. MaxAttempts, outcome \in Outcomes :
    /\ <<j, r, n>> \in granted
    /\ CompleteAgentJob(r, j, n, outcome)

QueueNext ==
  \/ ClaimNothing
  \/ \E j \in AgentJobs :
       \/ EnqueueAgentJob(j)
       \/ CancelAgentJob(j)
       \/ RequeueAgentJob(j)
       \/ LeaseLapses(j)
       \/ \E r \in Runners :
            \/ ClaimAgentJob(r, j)
            \/ HeartbeatAgentJob(r, j)
            \/ LateOrTimelyResult(r, j)

QueueSpec == QueueInit /\ [][QueueNext]_queueVars

-----------------------------------------------------------------------------
(***************************************************************************)
(* Properties.                                                             *)
(***************************************************************************)

\* The rows and the history have the columns' types.
QueueTypeOK ==
  /\ status    \in [AgentJobs -> Statuses]
  /\ attempts  \in [AgentJobs -> Nonces]
  /\ claimedBy \in [AgentJobs -> Runners \cup {NoRunner}]
  /\ nonce     \in [AgentJobs -> Nonces]
  /\ lease     \in [AgentJobs -> {"null", "live", "expired"}]
  /\ createdAt \in [AgentJobs -> Nat]
  /\ position  \in [AgentJobs -> Nat]
  /\ stamp     \in Nat
  /\ granted   \subseteq AgentJobs \X Runners \X (1 .. MaxAttempts)
  /\ applied   \in [AgentJobs -> Nat]
  /\ winner    \in [AgentJobs -> Nonces]

\* A nonce is on a row exactly while the row is held, and it is the one the
\* newest claim gave to the runner the row names.  So no artifact or result of
\* an earlier claim can pass the nonce check, not even one the same runner made
\* (the token gives both claims the same claimed_by).
NonceIsNewestGrant ==
  \A j \in AgentJobs :
    /\ nonce[j] # 0 <=> status[j] \in Held
    /\ nonce[j] # 0 => /\ nonce[j] = attempts[j]
                       /\ <<j, claimedBy[j], nonce[j]>> \in granted

\* A queued row can still be claimed: the sweep, the cancel and the re-queue
\* never leave a row "queued" with its attempts used up, which no claim would
\* ever take and no sweep would ever bury.
QueuedRowIsClaimable ==
  \A j \in AgentJobs :
    status[j] = "queued" => attempts[j] < MaxAttempts /\ claimedBy[j] = NoRunner /\ lease[j] = "null"

\* A job gets at most one result whatever is retried, replayed or late, and
\* that result is the newest grant's.  A job is done only by such a result;
\* it is dead only when every attempt was handed out and none delivered.
ResultAppliedOnce ==
  \A j \in AgentJobs :
    /\ applied[j] \in {0, 1}
    /\ applied[j] = 1 => status[j] \in Outcomes /\ winner[j] = attempts[j]
    /\ applied[j] = 0 => winner[j] = 0
    /\ status[j] = "done" => applied[j] = 1
    /\ status[j] = "dead" => applied[j] = 0 /\ attempts[j] = MaxAttempts

\* No claim was ever handed out beyond the attempts column, a held row has a
\* lease to lose and an owner, and a row not yet inserted is blank: with the
\* invariants above this is inductive (RunnerLane_proofs).
GrantsMatchAttempts ==
  /\ \A g \in granted : g[3] <= attempts[g[1]]
  /\ \A j \in AgentJobs : status[j] \in Held => lease[j] # "null" /\ claimedBy[j] \in Runners
  /\ \A j \in AgentJobs : status[j] = "absent" => attempts[j] = 0 /\ claimedBy[j] = NoRunner /\ lease[j] = "null"

\* A settled row is final: no late heartbeat, result, cancel or re-queue, and no
\* sweep, changes its status or makes it claimable again.
SettledIsFinal ==
  [][\A j \in AgentJobs : status[j] \in Terminal => status'[j] = status[j]]_queueVars

\* The queue keeps the contract its clients rely on.
Phase ==
  [j \in AgentJobs |->
     IF status[j] \in Held THEN "granted"
     ELSE IF status[j] \in Terminal THEN "settled"
     ELSE IF status[j] = "queued" THEN "waiting" ELSE "absent"]

Contract == INSTANCE AgentJobContract
  WITH Jobs <- AgentJobs, MaxGrants <- MaxAttempts,
       phase <- Phase, grants <- attempts, winner <- winner

\* Every behaviour of the queue is one of AgentJobContract.
ImplementsContract == Contract!Spec

\* For TLC: rows, and runner identities, differ only by name.
QueueSymmetry == Permutations(AgentJobs) \cup Permutations(Runners)
=============================================================================

--------------------------- MODULE RunnerLane_proofs ---------------------------
(***************************************************************************)
(* Proofs about AgentQueue, for any rows, runners and attempts cap, and    *)
(* about RunnerLane, for any laptops, tokens, agent jobs and kinds.        *)
(*                                                                         *)
(* The endpoints drive the queue as AgentQueue assumes, so the lane has    *)
(* the invariant of the queue for its rows.  What the lane adds is         *)
(* about calls: a laptop and the requests it sent speak of one claim it    *)
(* was granted, it awaits at most one of them, and what it takes for       *)
(* posted, and reports as done, the cloud has stored.  All of it survives  *)
(* lost answers, crashes and requests that arrive when nobody waits.       *)
(***************************************************************************)
EXTENDS RunnerLane, FiniteSetTheorems, TLAPS

-----------------------------------------------------------------------------
(***************************************************************************)
(* The queue.  QueueInv is its inductive invariant.  A result is accepted  *)
(* on the nonce alone, so ResultAppliedOnce needs to know which grant the  *)
(* nonce on the row belongs to (NonceIsNewestGrant), and that needs to     *)
(* know that claims and sweeps keep the nonce, the holder and the lease of *)
(* a row together (GrantsMatchAttempts, QueuedRowIsClaimable).             *)
(***************************************************************************)
QueueInv ==
  /\ QueueTypeOK
  /\ NonceIsNewestGrant
  /\ QueuedRowIsClaimable
  /\ ResultAppliedOnce
  /\ GrantsMatchAttempts

\* Shorthand for the definitions every step of the proofs expands.
USE DEF rowVars, histVars, queueVars, Held, Terminal, Statuses, Outcomes, Nonces

\* The empty queue satisfies the invariant.
LEMMA QueueInitInv == QueueInit => QueueInv
  <1> SUFFICES ASSUME QueueInit PROVE QueueInv
    OBVIOUS
  <1> USE QueueAssumption DEF QueueInit
  <1>1. QueueTypeOK
    BY DEF QueueTypeOK
  <1>2. NonceIsNewestGrant
    BY DEF NonceIsNewestGrant
  <1>3. QueuedRowIsClaimable
    BY DEF QueuedRowIsClaimable
  <1>4. ResultAppliedOnce
    <2>1. \A j \in AgentJobs : status[j] = "absent" /\ applied[j] = 0 /\ winner[j] = 0
      OBVIOUS
    <2> HIDE DEF QueueInit
    <2> SUFFICES ASSUME NEW j \in AgentJobs
                 PROVE  /\ applied[j] \in {0, 1}
                        /\ applied[j] = 1 => status[j] \in Outcomes /\ winner[j] = attempts[j]
                        /\ applied[j] = 0 => winner[j] = 0
                        /\ status[j] = "done" => applied[j] = 1
                        /\ status[j] = "dead" => applied[j] = 0 /\ attempts[j] = MaxAttempts
      BY DEF ResultAppliedOnce
    <2> QED BY <2>1
  <1>5. GrantsMatchAttempts
    BY DEF GrantsMatchAttempts
  <1> QED BY <1>1, <1>2, <1>3, <1>4, <1>5 DEF QueueInv

\* The sweep releases or buries held rows only, and touches no other row.
LEMMA SweptCases ==
  ASSUME QueueTypeOK, NEW j \in AgentJobs
  PROVE  /\ Swept(j) \in Statuses
         /\ ~LeaseExpired(j) => Swept(j) = status[j]
         /\ LeaseExpired(j) => /\ status[j] \in Held
                               /\ Swept(j) \in {"queued", "dead"}
                               /\ Swept(j) = "queued" <=> attempts[j] < MaxAttempts
  BY QueueAssumption DEF QueueTypeOK, Swept, LeaseExpired

\* A call that leaves the claim columns of a row alone, or only renews or ends
\* its lease, preserves the invariant.
LEMMA EnqueueInv ==
  ASSUME QueueInv, NEW j \in AgentJobs, EnqueueAgentJob(j)
  PROVE  QueueInv'
  <1> USE QueueAssumption DEF QueueInv, QueueTypeOK, EnqueueAgentJob
  <1>1. QueueTypeOK'
    OBVIOUS
  <1>2. NonceIsNewestGrant'
    BY DEF NonceIsNewestGrant
  <1>3. QueuedRowIsClaimable'
    BY DEF QueuedRowIsClaimable, GrantsMatchAttempts
  <1>4. ResultAppliedOnce'
    BY DEF ResultAppliedOnce
  <1>5. GrantsMatchAttempts'
    BY DEF GrantsMatchAttempts
  <1> QED BY <1>1, <1>2, <1>3, <1>4, <1>5

\* A heartbeat moves the lease of a held row and nothing the invariant speaks of.
LEMMA HeartbeatInv ==
  ASSUME QueueInv, NEW j \in AgentJobs, NEW r \in Runners, HeartbeatAgentJob(r, j)
  PROVE  QueueInv'
  <1> USE QueueAssumption DEF QueueInv, QueueTypeOK, HeartbeatAgentJob
  <1>1. QueueTypeOK'
    OBVIOUS
  <1>2. NonceIsNewestGrant'
    BY DEF NonceIsNewestGrant
  <1>3. QueuedRowIsClaimable'
    BY DEF QueuedRowIsClaimable
  <1>4. ResultAppliedOnce'
    BY DEF ResultAppliedOnce
  <1>5. GrantsMatchAttempts'
    BY DEF GrantsMatchAttempts
  <1> QED BY <1>1, <1>2, <1>3, <1>4, <1>5

\* A result settles the row of its claim, and is refused from an older claim.
LEMMA CompleteInv ==
  ASSUME QueueInv, NEW j \in AgentJobs, NEW r \in Runners,
         NEW n \in 1 .. MaxAttempts, NEW outcome \in Outcomes,
         CompleteAgentJob(r, j, n, outcome)
  PROVE  QueueInv'
  <1> USE QueueAssumption DEF QueueInv, QueueTypeOK, CompleteAgentJob, ResultAccepted
  <1>1. QueueTypeOK'
    OBVIOUS
  <1>2. NonceIsNewestGrant'
    BY DEF NonceIsNewestGrant
  <1>3. QueuedRowIsClaimable'
    BY DEF QueuedRowIsClaimable
  <1>4. ResultAppliedOnce'
    <2>1. attempts' = attempts
      OBVIOUS
    <2>2. applied[j] = 0
      BY DEF ResultAppliedOnce
    <2>3. winner'[j] = attempts[j]
      BY DEF NonceIsNewestGrant
    <2>4. applied'[j] = 1 /\ status'[j] \in Outcomes
      BY <2>2
    <2>5. ASSUME NEW k \in AgentJobs, k # j
          PROVE  applied'[k] = applied[k] /\ winner'[k] = winner[k] /\ status'[k] = status[k]
      BY <2>5
    <2> QED BY <2>1, <2>3, <2>4, <2>5 DEF ResultAppliedOnce
  <1>5. GrantsMatchAttempts'
    BY DEF GrantsMatchAttempts
  <1> QED BY <1>1, <1>2, <1>3, <1>4, <1>5

\* The owner's cancel takes the claim from the row.
LEMMA CancelInv ==
  ASSUME QueueInv, NEW j \in AgentJobs, CancelAgentJob(j)
  PROVE  QueueInv'
  <1> USE QueueAssumption DEF QueueInv, QueueTypeOK, CancelAgentJob
  <1>1. QueueTypeOK'
    OBVIOUS
  <1>2. NonceIsNewestGrant'
    BY DEF NonceIsNewestGrant
  <1>3. QueuedRowIsClaimable'
    BY DEF QueuedRowIsClaimable
  <1>4. ResultAppliedOnce'
    BY DEF ResultAppliedOnce
  <1>5. GrantsMatchAttempts'
    BY DEF GrantsMatchAttempts
  <1> QED BY <1>1, <1>2, <1>3, <1>4, <1>5

\* A requeued row may be claimed afresh.
LEMMA RequeueInv ==
  ASSUME QueueInv, NEW j \in AgentJobs, RequeueAgentJob(j)
  PROVE  QueueInv'
  <1> USE QueueAssumption
          DEF QueueInv, QueueTypeOK, RequeueAgentJob
  <1>1. QueueTypeOK'
    OBVIOUS
  <1> QED BY <1>1 DEF NonceIsNewestGrant, QueuedRowIsClaimable, ResultAppliedOnce, GrantsMatchAttempts

\* A lease that lapses changes neither status nor claim.
LEMMA LapseInv ==
  ASSUME QueueInv, NEW j \in AgentJobs, LeaseLapses(j)
  PROVE  QueueInv'
  <1> USE QueueAssumption DEF QueueInv, QueueTypeOK, LeaseLapses
  <1>1. QueueTypeOK'
    OBVIOUS
  <1>2. NonceIsNewestGrant' /\ QueuedRowIsClaimable' /\ ResultAppliedOnce'
    BY DEF NonceIsNewestGrant, QueuedRowIsClaimable, ResultAppliedOnce
  <1>3. GrantsMatchAttempts'
    BY DEF GrantsMatchAttempts
  <1> QED BY <1>1, <1>2, <1>3

\* A claim that finds nothing buries the expired rows.
LEMMA ClaimNothingInv ==
  ASSUME QueueInv, ClaimNothing
  PROVE  QueueInv'
  <1> USE QueueAssumption DEF QueueInv, ClaimNothing
  <1>1. QueueTypeOK'
    BY SweptCases DEF QueueTypeOK, Cleared
  <1>2. NonceIsNewestGrant'
    BY SweptCases DEF NonceIsNewestGrant, QueueTypeOK, Cleared
  <1>3. QueuedRowIsClaimable'
    BY SweptCases DEF QueuedRowIsClaimable, QueueTypeOK, Cleared
  <1>4. ResultAppliedOnce'
    BY SweptCases DEF ResultAppliedOnce, QueueTypeOK
  <1>5. GrantsMatchAttempts'
    BY SweptCases DEF GrantsMatchAttempts, QueueTypeOK, Cleared, LeaseExpired
  <1> QED BY <1>1, <1>2, <1>3, <1>4, <1>5

\* A claim that hands out a row sweeps the others.
LEMMA ClaimInv ==
  ASSUME QueueInv, NEW j \in AgentJobs, NEW r \in Runners, ClaimAgentJob(r, j)
  PROVE  QueueInv'
  <1> USE QueueAssumption DEF QueueInv, ClaimAgentJob
  <1>0. Swept(j) = "queued" /\ attempts[j] < MaxAttempts
    BY DEF FirstInLine, Claimable
  <1>a. attempts' = [attempts EXCEPT ![j] = attempts[j] + 1] /\ attempts'[j] = attempts[j] + 1
    BY DEF QueueTypeOK
  <1>b. attempts[j] \in Nat /\ attempts'[j] \in 1 .. MaxAttempts
    BY <1>0, <1>a DEF QueueTypeOK
  <1>1. QueueTypeOK'
    BY <1>a, <1>b, SweptCases DEF QueueTypeOK, Cleared
  <1>2. NonceIsNewestGrant'
    BY SMTT(30), <1>a, <1>b, SweptCases DEF NonceIsNewestGrant, QueueTypeOK, Cleared
  <1>3. QueuedRowIsClaimable'
    BY <1>a, <1>b, SweptCases DEF QueuedRowIsClaimable, QueueTypeOK, Cleared
  <1>4. ResultAppliedOnce'
    <2>1. applied' = applied /\ winner' = winner
      OBVIOUS
    <2>2. status'[j] = "claimed" /\ applied[j] = 0 /\ winner[j] = 0
      BY <1>0, SweptCases DEF ResultAppliedOnce, QueueTypeOK
    <2>3. ASSUME NEW k \in AgentJobs, k # j
          PROVE  attempts'[k] = attempts[k] /\ status'[k] = Swept(k)
      BY <1>a, <2>3 DEF QueueTypeOK
    <2>4. ASSUME NEW k \in AgentJobs, k # j, LeaseExpired(k)
          PROVE  /\ applied[k] = 0 /\ winner[k] = 0
                 /\ \/ Swept(k) = "queued"
                    \/ Swept(k) = "dead" /\ attempts[k] = MaxAttempts
      BY SMTT(30), <2>4, SweptCases DEF ResultAppliedOnce, QueueTypeOK
    <2>5. ASSUME NEW k \in AgentJobs, k # j, ~LeaseExpired(k)
          PROVE  Swept(k) = status[k]
      BY <2>5, SweptCases
    <2> QED BY <2>1, <2>2, <2>3, <2>4, <2>5 DEF ResultAppliedOnce
  <1>5. GrantsMatchAttempts'
    BY <1>0, <1>a, <1>b, SweptCases DEF GrantsMatchAttempts, QueueTypeOK, Cleared, LeaseExpired
  <1> QED BY <1>1, <1>2, <1>3, <1>4, <1>5

\* Every store call, and the passing of time, preserves the invariant.
LEMMA QueueStepInv == QueueInv /\ [QueueNext]_queueVars => QueueInv'
  <1> SUFFICES ASSUME QueueInv, [QueueNext]_queueVars PROVE QueueInv'
    OBVIOUS
  <1>1. CASE UNCHANGED queueVars
    BY <1>1 DEF QueueInv, QueueTypeOK, NonceIsNewestGrant, QueuedRowIsClaimable,
                ResultAppliedOnce, GrantsMatchAttempts
  <1>2. CASE ClaimNothing
    BY <1>2, ClaimNothingInv
  <1>3. ASSUME NEW j \in AgentJobs,
               EnqueueAgentJob(j) \/ CancelAgentJob(j) \/ RequeueAgentJob(j) \/ LeaseLapses(j)
        PROVE  QueueInv'
    BY <1>3, EnqueueInv, CancelInv, RequeueInv, LapseInv
  <1>4. ASSUME NEW j \in AgentJobs, NEW r \in Runners,
               ClaimAgentJob(r, j) \/ HeartbeatAgentJob(r, j) \/ LateOrTimelyResult(r, j)
        PROVE  QueueInv'
    BY <1>4, ClaimInv, HeartbeatInv, CompleteInv DEF LateOrTimelyResult
  <1> QED BY <1>1, <1>2, <1>3, <1>4 DEF QueueNext

\* The invariant holds of every reachable state.
THEOREM QueueInvariant == QueueSpec => []QueueInv
  BY QueueInitInv, QueueStepInv, PTL DEF QueueSpec

\* The rows keep their types, whatever is claimed, late, swept or cancelled.
THEOREM QueueTypeCorrect == QueueSpec => []QueueTypeOK
  BY QueueInvariant, PTL DEF QueueInv

\* For any number of rows, runners and attempts: the only nonce the artifact and
\* the result endpoint accept is the one the newest claim of the row minted.
THEOREM NonceSafety == QueueSpec => []NonceIsNewestGrant
  BY QueueInvariant, PTL DEF QueueInv

\* No queued row is beyond the reach of the claim.
THEOREM NoStuckRow == QueueSpec => []QueuedRowIsClaimable
  BY QueueInvariant, PTL DEF QueueInv

\* However results are retried, replayed or delayed, a job gets at most one, from
\* its newest claim.
THEOREM ExactlyOnceResult == QueueSpec => []ResultAppliedOnce
  BY QueueInvariant, PTL DEF QueueInv

-----------------------------------------------------------------------------
\* No store call, and no lapse of a lease, changes a settled row's status.
LEMMA SettledStep ==
  ASSUME QueueInv, QueueNext, NEW j \in AgentJobs, status[j] \in Terminal
  PROVE  status'[j] = status[j]
  <1> USE DEF QueueInv, QueueTypeOK
  <1>0. Swept(j) = status[j]
    BY SweptCases
  <1>1. CASE ClaimNothing
    BY <1>0, <1>1 DEF ClaimNothing
  <1>2. ASSUME NEW k \in AgentJobs,
               EnqueueAgentJob(k) \/ CancelAgentJob(k) \/ RequeueAgentJob(k) \/ LeaseLapses(k)
        PROVE  status'[j] = status[j]
    BY <1>2 DEF EnqueueAgentJob, CancelAgentJob, RequeueAgentJob, LeaseLapses
  <1>3. ASSUME NEW k \in AgentJobs, NEW r \in Runners, ClaimAgentJob(r, k)
        PROVE  status'[j] = status[j]
    BY <1>0, <1>3 DEF ClaimAgentJob, FirstInLine, Claimable
  <1>4. ASSUME NEW k \in AgentJobs, NEW r \in Runners,
               HeartbeatAgentJob(r, k) \/ LateOrTimelyResult(r, k)
        PROVE  status'[j] = status[j]
    BY <1>4 DEF HeartbeatAgentJob, LateOrTimelyResult, CompleteAgentJob, ResultAccepted
  <1> QED BY <1>1, <1>2, <1>3, <1>4 DEF QueueNext

\* A settled row is final, for every instance of the queue.
THEOREM SettledFinal == QueueSpec => SettledIsFinal
  <1>1. QueueInv /\ [QueueNext]_queueVars
        => [\A j \in AgentJobs : status[j] \in Terminal => status'[j] = status[j]]_queueVars
    BY SettledStep
  <1> QED BY <1>1, QueueInvariant, PTL DEF QueueSpec, SettledIsFinal

-----------------------------------------------------------------------------
(***************************************************************************)
(* The queue implements AgentJobContract.  A claim with its sweep is one   *)
(* Reassign: the rows whose lease ran out are the lost grants, the row     *)
(* returned is the given one.                                              *)
(***************************************************************************)

\* Which phase a status is.
LEMMA PhaseOf ==
  ASSUME QueueTypeOK, NEW j \in AgentJobs
  PROVE  /\ Phase[j] = "granted" <=> status[j] \in Held
         /\ Phase[j] = "settled" <=> status[j] \in Terminal
         /\ Phase[j] = "waiting" <=> status[j] = "queued"
         /\ Phase[j] = "absent"  <=> status[j] = "absent"
  BY DEF Phase, QueueTypeOK

\* The phases after a call that changes the status of one row.
LEMMA PhaseChange ==
  ASSUME QueueTypeOK, NEW j \in AgentJobs, NEW s \in Statuses,
         status' = [status EXCEPT ![j] = s]
  PROVE  /\ s \in Held => Phase' = [Phase EXCEPT ![j] = "granted"]
         /\ s \in Terminal => Phase' = [Phase EXCEPT ![j] = "settled"]
         /\ s = "queued" => Phase' = [Phase EXCEPT ![j] = "waiting"]
  BY DEF Phase, QueueTypeOK

\* A claim is a Reassign: `given` is empty or the one row handed out.
LEMMA ClaimReassigns ==
  ASSUME QueueInv, NEW given \in SUBSET AgentJobs,
         \A j, k \in given : j = k,
         \A j \in given : Claimable(j),
         given = {} => \E j \in AgentJobs : LeaseExpired(j),
         status' = [j \in AgentJobs |-> IF j \in given THEN "claimed" ELSE Swept(j)],
         attempts' = [j \in AgentJobs |-> IF j \in given THEN attempts[j] + 1 ELSE attempts[j]],
         winner' = winner
  PROVE  Contract!Reassign
  <1> USE DEF QueueInv
  <1> DEFINE lost == {j \in AgentJobs : LeaseExpired(j)}
  <1>1. lost \in SUBSET {j \in AgentJobs : Phase[j] = "granted"}
    BY PhaseOf DEF LeaseExpired
  <1>2. lost \cup given # {}
    OBVIOUS
  <1>3. \A j \in given : (Phase[j] = "waiting" \/ j \in lost) /\ attempts[j] < MaxAttempts
    BY PhaseOf, SweptCases DEF Claimable
  <1>4. Phase' = [j \in AgentJobs |->
                    IF j \in given THEN "granted"
                    ELSE IF j \in lost
                         THEN IF attempts[j] < MaxAttempts THEN "waiting" ELSE "settled"
                         ELSE Phase[j]]
    <2>1. ASSUME NEW j \in AgentJobs
          PROVE  Phase'[j] = IF j \in given THEN "granted"
                             ELSE IF j \in lost
                                  THEN IF attempts[j] < MaxAttempts THEN "waiting" ELSE "settled"
                                  ELSE Phase[j]
      <3>1. CASE j \in given
        BY <3>1 DEF Phase
      <3>2. CASE j \notin given /\ LeaseExpired(j)
        BY <3>2, SweptCases DEF Phase
      <3>3. CASE j \notin given /\ ~LeaseExpired(j)
        BY <3>3, SweptCases DEF Phase
      <3> QED BY <3>1, <3>2, <3>3
    <2> QED BY <2>1 DEF Phase
  <1> HIDE DEF lost
  <1> QED BY <1>1, <1>2, <1>3, <1>4 DEF Contract!Reassign

\* Every step of the queue is a step of the contract or leaves its state alone.
LEMMA ContractStep ==
  ASSUME QueueInv, [QueueNext]_queueVars
  PROVE  [Contract!Next]_<<Phase, attempts, winner>>
  <1> USE QueueAssumption DEF QueueInv, Contract!Next
  <1>1. CASE UNCHANGED queueVars
    BY <1>1 DEF Phase
  <1>2. CASE ClaimNothing
    <2> DEFINE given == {j \in AgentJobs : FALSE}
    <2>1. /\ status' = [j \in AgentJobs |-> IF j \in given THEN "claimed" ELSE Swept(j)]
          /\ attempts' = [j \in AgentJobs |-> IF j \in given THEN attempts[j] + 1 ELSE attempts[j]]
      BY <1>2 DEF ClaimNothing, QueueTypeOK
    <2>2. /\ given \in SUBSET AgentJobs
          /\ \A j, k \in given : j = k
          /\ \A j \in given : Claimable(j)
      OBVIOUS
    <2>3. winner' = winner /\ \E j \in AgentJobs : LeaseExpired(j)
      BY <1>2 DEF ClaimNothing
    <2> HIDE DEF given, QueueInv
    <2>4. Contract!Reassign
      BY <2>1, <2>2, <2>3, ClaimReassigns
    <2> QED BY <2>4
  <1>3. ASSUME NEW j \in AgentJobs, EnqueueAgentJob(j)
        PROVE  Contract!Submit(j)
    BY <1>3, PhaseOf, PhaseChange DEF EnqueueAgentJob, Contract!Submit
  <1>4. ASSUME NEW j \in AgentJobs, CancelAgentJob(j)
        PROVE  Contract!Withdraw(j)
    BY <1>4, PhaseOf, PhaseChange DEF CancelAgentJob, Contract!Withdraw
  <1>5. ASSUME NEW j \in AgentJobs, RequeueAgentJob(j) \/ LeaseLapses(j)
        PROVE  UNCHANGED <<Phase, attempts, winner>>
    BY <1>5 DEF RequeueAgentJob, LeaseLapses, Phase
  <1>6. ASSUME NEW j \in AgentJobs, NEW r \in Runners, ClaimAgentJob(r, j)
        PROVE  Contract!Reassign
    <2>1. /\ Claimable(j) /\ winner' = winner
          /\ attempts' = [attempts EXCEPT ![j] = attempts[j] + 1]
          /\ status' = [[k \in AgentJobs |-> Swept(k)] EXCEPT ![j] = "claimed"]
      BY <1>6 DEF ClaimAgentJob, FirstInLine
    <2>2. status' = [k \in AgentJobs |-> IF k \in {j} THEN "claimed" ELSE Swept(k)]
      BY <2>1
    <2>3. attempts' = [k \in AgentJobs |-> IF k \in {j} THEN attempts[k] + 1 ELSE attempts[k]]
      BY <2>1 DEF QueueTypeOK
    <2>4. /\ {j} \in SUBSET AgentJobs /\ {j} # {}
          /\ \A k, l \in {j} : k = l
          /\ \A k \in {j} : Claimable(k)
      BY <2>1
    <2> HIDE DEF QueueInv
    <2> QED BY <2>1, <2>2, <2>3, <2>4, ClaimReassigns
  <1>7. ASSUME NEW j \in AgentJobs, NEW r \in Runners, HeartbeatAgentJob(r, j)
        PROVE  UNCHANGED <<Phase, attempts, winner>>
    BY <1>7 DEF HeartbeatAgentJob, Phase, QueueTypeOK
  <1>8. ASSUME NEW j \in AgentJobs, NEW r \in Runners, LateOrTimelyResult(r, j)
        PROVE  Contract!Deliver(j)
    <2>1. PICK n \in 1 .. MaxAttempts, outcome \in Outcomes : CompleteAgentJob(r, j, n, outcome)
      BY <1>8 DEF LateOrTimelyResult
    <2>2. winner' = [winner EXCEPT ![j] = attempts[j]]
      BY <2>1 DEF CompleteAgentJob, ResultAccepted, NonceIsNewestGrant
    <2>3. Phase[j] = "granted" /\ Phase' = [Phase EXCEPT ![j] = "settled"] /\ attempts' = attempts
      BY <2>1, PhaseOf, PhaseChange DEF CompleteAgentJob, ResultAccepted
    <2> QED BY <2>2, <2>3 DEF Contract!Deliver
  <1> QED BY <1>1, <1>2, <1>3, <1>4, <1>5, <1>6, <1>7, <1>8 DEF QueueNext

\* Whatever the runners, their lateness and the owner do, every agent job goes
\* through the life AgentJobContract describes.
THEOREM QueueImplementsContract == QueueSpec => ImplementsContract
  <1>1. QueueInit => Contract!Init
    BY DEF QueueInit, Contract!Init, Phase
  <1>2. QueueInv /\ [QueueNext]_queueVars => [Contract!Next]_<<Phase, attempts, winner>>
    BY ContractStep
  <1> QED BY <1>1, <1>2, QueueInvariant, PTL
          DEF QueueSpec, ImplementsContract, Contract!Spec, Contract!contractVars

HIDE DEF rowVars, histVars, queueVars, Held, Terminal, Statuses, Outcomes, Nonces

-----------------------------------------------------------------------------
(***************************************************************************)
(* The lane, and its inductive invariant.                                  *)
(***************************************************************************)
\* Program counters of a laptop that holds a claim, and of one that does not.
Claimless == {"down", "idle", "polling"}
Busy == {"working", "posting", "posting-one", "reporting", "reporting-error"}

Claims == [job : AgentJobs, nonce : 1 .. MaxAttempts]


LaptopStates ==
  [pc : Claimless \cup Busy, claim : Claims \cup {NoClaim}, exit0 : BOOLEAN,
   todo : SUBSET Kinds, posted : SUBSET Kinds]

RequestsOf(ops, claims, details) ==
  [op : ops, from : Laptops, claim : claims, detail : details, awaited : BOOLEAN]

AllRequests ==
  RequestsOf({"claim"}, {NoClaim}, {"none"})
    \cup RequestsOf({"heartbeat"}, Claims, {"none"})
    \cup RequestsOf({"artifact"}, Claims, [kind : Kinds, passes : BOOLEAN])
    \cup RequestsOf({"result"}, Claims, Outcomes)

LaneShape ==
  /\ laptop \in [Laptops -> LaptopStates]
  /\ requests \subseteq AllRequests
  /\ files \in [Jobs -> [Kinds -> {NoFile, Earlier} \cup (AgentJobs \X (1 .. MaxAttempts))]]

Granted(p, claim) == <<claim.job, TokenOf[p], claim.nonce>> \in granted

\* A laptop speaks, and spoke, only of claims it was granted.
ClaimsAreGranted ==
  /\ \A p \in Laptops :
       IF laptop[p].pc \in Claimless THEN laptop[p].claim = NoClaim
       ELSE laptop[p].claim \in Claims /\ Granted(p, laptop[p].claim)
  /\ \A m \in requests : m.op # "claim" => Granted(m.from, m.claim)

\* Where a laptop is while it awaits the answer to a request.
AwaitsAt(op, pc) ==
  \/ op = "claim" /\ pc = "polling"
  \/ op = "artifact" /\ pc = "posting-one"
  \/ op = "result" /\ pc \in {"reporting", "reporting-error"}

\* One call at a time, about the claim the laptop holds.
OneCall ==
  /\ \A m \in requests : m.awaited =>
       AwaitsAt(m.op, laptop[m.from].pc) /\ m.claim = laptop[m.from].claim
  /\ \A m, n \in requests : m.awaited /\ n.awaited /\ m.from = n.from => m = n
  /\ \A p \in Laptops : laptop[p].pc \in Awaiting =>
       \E m \in requests : m.awaited /\ m.from = p

\* What a laptop has as posted is stored, under the claim it posts for.
PostedIsStored ==
  \A p \in Laptops : \A k \in laptop[p].posted :
    <<laptop[p].claim.job, laptop[p].claim.nonce, k>> \in stored

LaneInv ==
  /\ QueueInv
  /\ LaneShape
  /\ ClaimsAreGranted
  /\ OneCall
  /\ PostedIsStored

\* A report of "done" from a build that looks at what was posted, however late it
\* arrives, is about a run whose every required artifact is stored.
DoneReportsAreTrue ==
  \A m \in requests :
    m.op = "result" /\ m.detail = "done" /\ m.from \notin StaleLaptops =>
      \A k \in Kinds : <<m.claim.job, m.claim.nonce, k>> \in stored

\* Shorthand for the definitions every step of the proofs expands.
USE DEF rowVars, histVars, queueVars, laneVars, vars, Held, Terminal, Statuses, Outcomes, Nonces,
        Claimless, Busy, Awaiting

-----------------------------------------------------------------------------
(***************************************************************************)
(* The rows.                                                               *)
(***************************************************************************)
\* Every step of the lane is a step of the queue, or leaves its rows alone: what a
\* request asks for is always what its sender was granted.
LEMMA LaneDrivesQueue == LaneInv /\ [Next]_vars => [QueueNext]_queueVars
  <1> SUFFICES ASSUME LaneInv, Next PROVE QueueNext \/ UNCHANGED queueVars
    OBVIOUS
  <1> USE LaneAssumption DEF LaneInv, LaneShape
  <1>1. ASSUME NEW p \in Laptops, LaptopStep(p) \/ Heartbeat(p) \/ CallFails(p) \/ Crash(p)
        PROVE  UNCHANGED queueVars
    <2>1. CASE LaptopStep(p) \/ Heartbeat(p)
      BY <2>1 DEF LaptopStep, PollNext, AgentExits, PostArtifact, PostResult, Restart,
                  Heartbeat, Send
    <2>2. CASE CallFails(p) \/ Crash(p)
      BY <2>2 DEF CallFails, Crash
    <2> QED BY <1>1, <2>1, <2>2
  <1>2. CASE \E j \in AgentJobs :
               OwnerEnqueues(j) \/ OwnerCancels(j) \/ OwnerRequeues(j) \/ TimePasses(j)
    BY <1>2 DEF OwnerEnqueues, OwnerCancels, OwnerRequeues, TimePasses, QueueNext
  <1>3. ASSUME NEW m \in requests, Serve(m) \/ LoseRequest(m)
        PROVE  QueueNext \/ UNCHANGED queueVars
    <2>0. m.from \in Laptops /\ TokenOf[m.from] \in Runners
      BY DEF AllRequests, RequestsOf
    <2>1. CASE ServeClaim(m)
      BY <2>0, <2>1 DEF ServeClaim, QueueNext
    <2>2. CASE ServeHeartbeat(m)
      <3>1. m.claim.job \in AgentJobs
        BY <2>2 DEF ServeHeartbeat, AllRequests, RequestsOf, Claims
      <3> QED BY <2>0, <2>2, <3>1 DEF ServeHeartbeat, QueueNext
    <2>3. CASE ServeArtifact(m) \/ LoseRequest(m)
      BY <2>3 DEF ServeArtifact, LoseRequest
    <2>4. CASE ServeResult(m)
      <3>1. m.op = "result" /\ m.claim \in Claims /\ m.detail \in Outcomes
        BY <2>4 DEF ServeResult, AllRequests, RequestsOf
      <3>2. <<m.claim.job, TokenOf[m.from], m.claim.nonce>> \in granted
        BY <3>1 DEF ClaimsAreGranted, Granted
      <3>3. Backstop(m.claim.job, m.detail) \in Outcomes
        BY <3>1 DEF Backstop
      <3>4. m.claim.job \in AgentJobs /\ m.claim.nonce \in 1 .. MaxAttempts
        BY <3>1 DEF Claims
      <3>5. \/ CompleteAgentJob(TokenOf[m.from], m.claim.job, m.claim.nonce,
                                Backstop(m.claim.job, m.detail))
            \/ UNCHANGED queueVars
        BY <2>4 DEF ServeResult
      <3>6. LateOrTimelyResult(TokenOf[m.from], m.claim.job) \/ UNCHANGED queueVars
        BY <3>2, <3>3, <3>4, <3>5 DEF LateOrTimelyResult
      <3> QED BY <2>0, <3>4, <3>6 DEF QueueNext
    <2> QED BY <1>3, <2>1, <2>2, <2>3, <2>4 DEF Serve
  <1> QED BY <1>1, <1>2, <1>3 DEF Next

\* A grant once made stays in the history.
LEMMA GrantsStay == [QueueNext]_queueVars => granted \subseteq granted'
  BY ZenonT(60) DEF QueueNext, ClaimNothing, EnqueueAgentJob, CancelAgentJob, RequeueAgentJob, LeaseLapses,
         ClaimAgentJob, HeartbeatAgentJob, LateOrTimelyResult, CompleteAgentJob

-----------------------------------------------------------------------------
(***************************************************************************)
(* The laptops.                                                            *)
(***************************************************************************)
\* What a laptop sends is about its claim, and it waits for nothing else.
LEMMA SendInv ==
  ASSUME LaneInv, NEW p \in Laptops, NEW op, NEW detail, NEW pc \in Claimless \cup Busy,
         Send(op, p, detail, pc),
         laptop[p].pc \notin Awaiting,
         Request(op, p, detail) \in AllRequests,
         op # "heartbeat" => AwaitsAt(op, pc),
         op = "heartbeat" => pc \notin Awaiting,
         pc \in Claimless <=> laptop[p].pc \in Claimless,
         op # "claim" => laptop[p].pc \notin Claimless
  PROVE  LaneShape' /\ ClaimsAreGranted' /\ OneCall' /\ PostedIsStored'
  <1> USE DEF LaneInv, LaneShape, Send
  <1> DEFINE sent == Request(op, p, detail)
  <1>0. /\ sent.from = p /\ sent.op = op /\ sent.claim = laptop[p].claim
        /\ sent.awaited <=> op # "heartbeat"
        /\ sent \in AllRequests
    BY DEF Request
  <1>a. requests' = requests \cup {sent}
    OBVIOUS
  <1> HIDE DEF sent
  <1>b. /\ laptop' \in [Laptops -> LaptopStates]
        /\ laptop'[p].pc = pc /\ laptop'[p].claim = laptop[p].claim
        /\ laptop'[p].posted = laptop[p].posted
        /\ \A q \in Laptops : q # p => laptop'[q] = laptop[q]
    BY SMTT(30) DEF LaptopStates
  <1>c. \A m \in requests : m.from \in Laptops
    BY DEF AllRequests, RequestsOf
  <1>1. LaneShape'
    BY <1>0, <1>a, <1>b
  <1>2. ClaimsAreGranted'
    <2>1. granted' = granted
      OBVIOUS
    <2>2. ASSUME NEW q \in Laptops
          PROVE  IF laptop'[q].pc \in Claimless THEN laptop'[q].claim = NoClaim
                 ELSE laptop'[q].claim \in Claims /\ Granted(q, laptop'[q].claim)
      BY <1>b DEF ClaimsAreGranted
    <2>3. ASSUME NEW m \in requests', m.op # "claim"
          PROVE  Granted(m.from, m.claim)
      BY <2>3, <1>0, <1>a DEF ClaimsAreGranted
    <2> QED BY <2>1, <2>2, <2>3 DEF ClaimsAreGranted, Granted
  <1>3. OneCall'
    <2>1. \A m \in requests : m.awaited => m.from # p
      BY <1>c DEF OneCall, AwaitsAt
    <2>2. \A m \in requests' : m.awaited =>
            AwaitsAt(m.op, laptop'[m.from].pc) /\ m.claim = laptop'[m.from].claim
      BY <2>1, <1>0, <1>a, <1>b, <1>c DEF OneCall
    <2>3. \A m, n \in requests' : m.awaited /\ n.awaited /\ m.from = n.from => m = n
      BY <2>1, <1>0, <1>a, <1>c DEF OneCall
    <2>4. ASSUME NEW q \in Laptops, laptop'[q].pc \in Awaiting
          PROVE  \E m \in requests' : m.awaited /\ m.from = q
      <3>1. CASE q = p
        BY <3>1, <2>4, <1>0, <1>a, <1>b DEF AwaitsAt
      <3>2. CASE q # p
        BY <3>2, <2>4, <1>a, <1>b DEF OneCall
      <3> QED BY <3>1, <3>2
    <2> QED BY <2>2, <2>3, <2>4 DEF OneCall
  <1>4. PostedIsStored'
    BY <1>b DEF PostedIsStored
  <1> QED BY <1>1, <1>2, <1>3, <1>4

\* A poll, a heartbeat, an artifact and a result are such requests.
LEMMA SendsInv ==
  ASSUME LaneInv, NEW p \in Laptops,
         PollNext(p) \/ Heartbeat(p) \/ PostArtifact(p) \/ PostResult(p)
  PROVE  LaneShape' /\ ClaimsAreGranted' /\ OneCall' /\ PostedIsStored'
  <1> USE DEF LaneInv, LaneShape
  <1>0. laptop[p] \in LaptopStates
    OBVIOUS
  <1>1. CASE PollNext(p)
    <2>1. laptop[p].pc = "idle" /\ laptop[p].claim = NoClaim /\ Send("claim", p, "none", "polling")
      BY <1>1 DEF PollNext, ClaimsAreGranted
    <2>2. Request("claim", p, "none") \in AllRequests
      BY <2>1 DEF Request, AllRequests, RequestsOf
    <2> QED BY <2>1, <2>2, SendInv DEF AwaitsAt
  <1>2. CASE Heartbeat(p)
    <2>1. /\ laptop[p].pc = "working" /\ laptop[p].claim \in Claims
          /\ Send("heartbeat", p, "none", "working")
      BY <1>2 DEF Heartbeat, ClaimsAreGranted
    <2>2. Request("heartbeat", p, "none") \in AllRequests
      BY <2>1 DEF Request, AllRequests, RequestsOf
    <2> QED BY <2>1, <2>2, SendInv DEF AwaitsAt
  <1>3. CASE PostArtifact(p)
    <2>1. PICK k \in laptop[p].todo, passes \in BOOLEAN :
            Send("artifact", p, [kind |-> k, passes |-> passes], "posting-one")
      BY <1>3 DEF PostArtifact
    <2>2. laptop[p].pc = "posting" /\ laptop[p].claim \in Claims
      BY <1>3 DEF PostArtifact, ClaimsAreGranted
    <2>3. k \in Kinds
      BY <1>0 DEF LaptopStates
    <2>4. Request("artifact", p, [kind |-> k, passes |-> passes]) \in AllRequests
      BY <2>2, <2>3 DEF Request, AllRequests, RequestsOf
    <2> QED BY <2>1, <2>2, <2>4, SendInv DEF AwaitsAt
  <1>4. CASE PostResult(p)
    <2>1. /\ laptop[p].pc = "posting" /\ laptop[p].claim \in Claims
          /\ Send("result", p, ResolveRunOutcome(p), "reporting")
      BY <1>4 DEF PostResult, ClaimsAreGranted
    <2>2. ResolveRunOutcome(p) \in Outcomes
      BY DEF ResolveRunOutcome
    <2>3. Request("result", p, ResolveRunOutcome(p)) \in AllRequests
      BY <2>1, <2>2 DEF Request, AllRequests, RequestsOf
    <2> QED BY <2>1, <2>3, SendInv DEF AwaitsAt
  <1> QED BY <1>1, <1>2, <1>3, <1>4

\* The agent ends, or the process comes up again: nothing is sent.
LEMMA QuietStepInv ==
  ASSUME LaneInv, NEW p \in Laptops, AgentExits(p) \/ Restart(p)
  PROVE  LaneShape' /\ ClaimsAreGranted' /\ OneCall' /\ PostedIsStored'
  <1> USE DEF LaneInv, LaneShape
  <1>c. \A m \in requests : m.from \in Laptops
    BY DEF AllRequests, RequestsOf
  <1>0. requests' = requests /\ files' = files /\ granted' = granted /\ stored' = stored
    BY DEF AgentExits, Restart
  <1>1. /\ laptop' \in [Laptops -> LaptopStates]
        /\ laptop[p].pc \notin Awaiting /\ laptop'[p].pc \notin Awaiting
        /\ laptop'[p].posted \subseteq laptop[p].posted
        /\ laptop'[p].claim = laptop[p].claim
        /\ laptop'[p].pc \in Claimless <=> laptop[p].pc \in Claimless
        /\ \A q \in Laptops : q # p => laptop'[q] = laptop[q]
    <2>1. CASE AgentExits(p)
      <3>1. PICK exit0 \in BOOLEAN, written \in SUBSET Kinds :
              laptop' = [laptop EXCEPT ![p].pc = "posting", ![p].exit0 = exit0,
                                       ![p].todo = IF exit0 THEN written ELSE {}]
        BY <2>1 DEF AgentExits
      <3>2. laptop[p].pc = "working" /\ laptop[p] \in LaptopStates
        BY <2>1 DEF AgentExits
      <3>3. laptop'[p] = [laptop[p] EXCEPT !.pc = "posting", !.exit0 = exit0,
                                           !.todo = IF exit0 THEN written ELSE {}]
        BY <3>1
      <3>4. laptop'[p] \in LaptopStates
        BY <3>2, <3>3 DEF LaptopStates
      <3> QED BY <3>1, <3>2, <3>3, <3>4 DEF LaptopStates
    <2>2. CASE Restart(p)
      BY <2>2 DEF Restart, LaptopStates, Resting, ClaimsAreGranted
    <2> QED BY <2>1, <2>2
  <1>2. ClaimsAreGranted'
    BY <1>0, <1>1 DEF ClaimsAreGranted, Granted
  <1>3. OneCall'
    BY <1>0, <1>1, <1>c DEF OneCall, AwaitsAt
  <1>4. PostedIsStored'
    BY <1>0, <1>1 DEF PostedIsStored
  <1> QED BY <1>0, <1>1, <1>2, <1>3, <1>4

\* Requests given up on: the ones left are those there were, awaited by fewer.
GivenUp(m) == [m EXCEPT !.awaited = FALSE]

\* A request given up on is still a request, about the same claim.
LEMMA GivenUpFacts ==
  ASSUME NEW m \in AllRequests
  PROVE  /\ GivenUp(m) \in AllRequests /\ ~GivenUp(m).awaited
         /\ GivenUp(m).from = m.from /\ GivenUp(m).op = m.op
         /\ GivenUp(m).claim = m.claim /\ GivenUp(m).detail = m.detail
  BY DEF GivenUp, AllRequests, RequestsOf

\* A call fails at the laptop, which goes on without its answer: whatever the
\* request still does, its response concerns nobody.
LEMMA CallFailsInv ==
  ASSUME LaneInv, NEW p \in Laptops, CallFails(p)
  PROVE  LaneShape' /\ ClaimsAreGranted' /\ OneCall' /\ PostedIsStored'
  <1> USE DEF LaneInv, LaneShape
  <1>0. PICK m \in requests :
          /\ m.from = p /\ m.awaited
          /\ LET orphaned == (requests \ {m}) \cup {GivenUp(m)} IN
             \/ /\ laptop[p].pc \in {"polling", "reporting-error"}
                /\ laptop' = [laptop EXCEPT ![p] = Resting("idle")]
                /\ requests' = orphaned
             \/ /\ laptop[p].pc = "posting-one"
                /\ laptop' = [laptop EXCEPT ![p].pc = "posting", ![p].todo = @ \ {m.detail.kind}]
                /\ requests' = orphaned
             \/ /\ laptop[p].pc = "reporting"
                /\ laptop' = [laptop EXCEPT ![p].pc = "reporting-error"]
                /\ requests' = orphaned \cup {Request("result", p, "failed")}
    BY DEF CallFails, GivenUp
  <1>a. /\ m \in AllRequests /\ \A n \in requests : n.from \in Laptops
        /\ files' = files /\ granted' = granted /\ stored' = stored
    BY DEF CallFails, AllRequests, RequestsOf
  <1>b. /\ GivenUp(m) \in AllRequests /\ ~GivenUp(m).awaited
        /\ GivenUp(m).from = p /\ GivenUp(m).op = m.op /\ GivenUp(m).claim = m.claim
    BY <1>0, <1>a, GivenUpFacts
  <1>c. \A n \in requests : n.awaited /\ n.from = p => n = m
    BY <1>0 DEF OneCall
  <1>d. laptop[p] \in LaptopStates
    OBVIOUS
  <1>1. CASE laptop[p].pc # "reporting"
    <2>1. requests' = (requests \ {m}) \cup {GivenUp(m)}
      BY <1>0, <1>1
    <2>2. /\ laptop' \in [Laptops -> LaptopStates] /\ laptop'[p].pc \in {"idle", "posting"}
          /\ \/ laptop'[p].pc = "idle" /\ laptop'[p].claim = NoClaim /\ laptop'[p].posted = {}
             \/ /\ laptop'[p].pc = "posting" /\ laptop[p].pc = "posting-one"
                /\ laptop'[p].claim = laptop[p].claim /\ laptop'[p].posted = laptop[p].posted
          /\ \A q \in Laptops : q # p => laptop'[q] = laptop[q]
      <3>1. CASE laptop' = [laptop EXCEPT ![p] = Resting("idle")]
        BY <3>1 DEF LaptopStates, Resting
      <3>2. CASE /\ laptop[p].pc = "posting-one"
                 /\ laptop' = [laptop EXCEPT ![p].pc = "posting", ![p].todo = @ \ {m.detail.kind}]
        BY <3>2, <1>d DEF LaptopStates
      <3> QED BY <1>0, <1>1, <3>1, <3>2
    <2>3. LaneShape'
      BY <1>a, <1>b, <2>1, <2>2
    <2>4. ClaimsAreGranted'
      <3>1. ASSUME NEW q \in Laptops
            PROVE  IF laptop'[q].pc \in Claimless THEN laptop'[q].claim = NoClaim
                   ELSE laptop'[q].claim \in Claims /\ Granted(q, laptop'[q].claim)
        BY <2>2 DEF ClaimsAreGranted
      <3>2. ASSUME NEW n \in requests', n.op # "claim"
            PROVE  Granted(n.from, n.claim)
        BY <3>2, <1>0, <1>b, <2>1 DEF ClaimsAreGranted
      <3> QED BY <1>a, <3>1, <3>2 DEF ClaimsAreGranted, Granted
    <2>5. OneCall'
      BY <1>0, <1>a, <1>b, <1>c, <2>1, <2>2 DEF OneCall
    <2>6. PostedIsStored'
      BY <1>a, <2>2 DEF PostedIsStored
    <2> QED BY <2>3, <2>4, <2>5, <2>6
  <1>2. CASE laptop[p].pc = "reporting"
    <2> DEFINE report == Request("result", p, "failed")
    <2>1. requests' = (requests \ {m}) \cup {GivenUp(m)} \cup {report}
      BY <1>0, <1>2
    <2>2. /\ laptop' \in [Laptops -> LaptopStates] /\ laptop'[p].pc = "reporting-error"
          /\ laptop'[p].claim = laptop[p].claim /\ laptop'[p].posted = laptop[p].posted
          /\ \A q \in Laptops : q # p => laptop'[q] = laptop[q]
      BY SMTT(60), <1>0, <1>2, <1>d DEF LaptopStates
    <2>3. laptop[p].claim \in Claims /\ Granted(p, laptop[p].claim)
      BY <1>2 DEF ClaimsAreGranted
    <2>4. /\ report.from = p /\ report.op = "result" /\ report.claim = laptop[p].claim
          /\ report.awaited /\ report \in AllRequests
      BY <2>3 DEF Request, AllRequests, RequestsOf
    <2> HIDE DEF report
    <2>5. LaneShape'
      BY <1>a, <1>b, <2>1, <2>2, <2>4
    <2>6. ClaimsAreGranted'
      <3>1. ASSUME NEW q \in Laptops
            PROVE  IF laptop'[q].pc \in Claimless THEN laptop'[q].claim = NoClaim
                   ELSE laptop'[q].claim \in Claims /\ Granted(q, laptop'[q].claim)
        BY <1>2, <2>2, <2>3 DEF ClaimsAreGranted
      <3>2. ASSUME NEW n \in requests', n.op # "claim"
            PROVE  Granted(n.from, n.claim)
        BY <3>2, <1>0, <1>b, <2>1, <2>3, <2>4 DEF ClaimsAreGranted
      <3> QED BY <1>a, <3>1, <3>2 DEF ClaimsAreGranted, Granted
    <2>7. OneCall'
      BY <1>0, <1>a, <1>b, <1>c, <2>1, <2>2, <2>4 DEF OneCall, AwaitsAt
    <2>8. PostedIsStored'
      BY <1>a, <2>2 DEF PostedIsStored
    <2> QED BY <2>5, <2>6, <2>7, <2>8
  <1> QED BY <1>1, <1>2

\* A process that dies waits for nothing.
LEMMA CrashInv ==
  ASSUME LaneInv, NEW p \in Laptops, Crash(p)
  PROVE  LaneShape' /\ ClaimsAreGranted' /\ OneCall' /\ PostedIsStored'
  <1> USE DEF LaneInv, LaneShape
  <1>0. /\ laptop' = [laptop EXCEPT ![p] = Resting("down")]
        /\ requests' = {IF m.from = p THEN GivenUp(m) ELSE m : m \in requests}
        /\ files' = files /\ granted' = granted /\ stored' = stored
    BY DEF Crash, GivenUp
  <1>1. \A m \in requests :
          /\ m.from \in Laptops
          /\ GivenUp(m) \in AllRequests /\ ~GivenUp(m).awaited
          /\ GivenUp(m).from = m.from /\ GivenUp(m).op = m.op /\ GivenUp(m).claim = m.claim
    BY GivenUpFacts DEF AllRequests, RequestsOf
  <1>2. /\ \A n \in requests' : \E m \in requests :
             /\ n.from = m.from /\ n.op = m.op /\ n.claim = m.claim /\ n \in AllRequests
             /\ n.awaited => n = m /\ m.from # p
        /\ \A m \in requests : m.from # p => m \in requests'
    BY <1>0, <1>1
  <1>3. /\ laptop' \in [Laptops -> LaptopStates]
        /\ laptop'[p].pc = "down" /\ laptop'[p].claim = NoClaim /\ laptop'[p].posted = {}
        /\ \A q \in Laptops : q # p => laptop'[q] = laptop[q]
    BY <1>0 DEF LaptopStates, Resting
  <1>4. LaneShape'
    BY <1>0, <1>2, <1>3
  <1>5. ClaimsAreGranted'
    BY <1>0, <1>2, <1>3 DEF ClaimsAreGranted, Granted
  <1>6. OneCall'
    BY <1>1, <1>2, <1>3 DEF OneCall
  <1>7. PostedIsStored'
    BY <1>0, <1>3 DEF PostedIsStored
  <1> QED BY <1>4, <1>5, <1>6, <1>7

-----------------------------------------------------------------------------
(***************************************************************************)
(* The endpoints.                                                          *)
(***************************************************************************)
\* A request is handled, and its sender, if it still waits, learns of it.
LEMMA AnswerInv ==
  ASSUME LaneInv, NEW m \in requests, NEW newState \in LaptopStates,
         Handled(m), Answer(m, newState),
         granted \subseteq granted', stored \subseteq stored',
         m.awaited => newState.pc \notin Awaiting,
         m.awaited => IF newState.pc \in Claimless THEN newState.claim = NoClaim
                      ELSE /\ newState.claim \in Claims
                           /\ <<newState.claim.job, TokenOf[m.from], newState.claim.nonce>> \in granted',
         m.awaited => \A k \in newState.posted :
                        <<newState.claim.job, newState.claim.nonce, k>> \in stored'
  PROVE  /\ laptop' \in [Laptops -> LaptopStates] /\ requests' \subseteq AllRequests
         /\ ClaimsAreGranted' /\ OneCall' /\ PostedIsStored'
  <1> USE DEF LaneInv, LaneShape
  <1>0. requests' = requests \ {m} /\ \A n \in requests : n.from \in Laptops
    BY DEF Handled, AllRequests, RequestsOf
  <1>1. CASE ~m.awaited
    <2>1. laptop' = laptop
      BY <1>1 DEF Answer
    <2>2. ClaimsAreGranted'
      BY <1>0, <2>1 DEF ClaimsAreGranted, Granted
    <2>3. OneCall'
      BY <1>0, <1>1, <2>1 DEF OneCall
    <2>4. PostedIsStored'
      BY <2>1 DEF PostedIsStored
    <2> QED BY <1>0, <2>1, <2>2, <2>3, <2>4
  <1>2. CASE m.awaited
    <2>1. /\ laptop' \in [Laptops -> LaptopStates] /\ laptop'[m.from] = newState
          /\ \A q \in Laptops : q # m.from => laptop'[q] = laptop[q]
      BY <1>0, <1>2 DEF Answer
    <2>2. \A n \in requests' : n.awaited => n.from # m.from
      BY <1>0, <1>2 DEF OneCall
    <2>3. ClaimsAreGranted'
      <3>1. ASSUME NEW q \in Laptops
            PROVE  IF laptop'[q].pc \in Claimless THEN laptop'[q].claim = NoClaim
                   ELSE /\ laptop'[q].claim \in Claims
                      /\ <<laptop'[q].claim.job, TokenOf[q], laptop'[q].claim.nonce>> \in granted'
        <4>1. CASE q = m.from
          BY <1>2, <2>1, <4>1
        <4>2. CASE q # m.from
          BY <2>1, <4>2 DEF ClaimsAreGranted, Granted
        <4> QED BY <4>1, <4>2
      <3>2. ASSUME NEW n \in requests', n.op # "claim"
            PROVE  <<n.claim.job, TokenOf[n.from], n.claim.nonce>> \in granted'
        BY <3>2, <1>0 DEF ClaimsAreGranted, Granted
      <3> QED BY <3>1, <3>2 DEF ClaimsAreGranted, Granted
    <2>4. OneCall'
      BY <1>0, <1>2, <2>1, <2>2 DEF OneCall
    <2>5. PostedIsStored'
      BY <1>2, <2>1 DEF PostedIsStored
    <2> QED BY <1>0, <2>1, <2>3, <2>4, <2>5
  <1> QED BY <1>1, <1>2

\* A claim: a laptop that still waits gets the row that was granted to it.
LEMMA ServeClaimInv ==
  ASSUME LaneInv, NEW m \in requests, ServeClaim(m), granted \subseteq granted', QueueInv'
  PROVE  LaneShape' /\ ClaimsAreGranted' /\ OneCall' /\ PostedIsStored'
  <1> USE DEF LaneInv
  <1>0. Handled(m) /\ files' = files /\ stored' = stored
    BY DEF ServeClaim
  <1>1. ASSUME NEW j \in AgentJobs, ClaimAgentJob(TokenOf[m.from], j),
               Answer(m, [Resting("working") EXCEPT !.claim = [job |-> j, nonce |-> nonce'[j]]])
        PROVE  LaneShape' /\ ClaimsAreGranted' /\ OneCall' /\ PostedIsStored'
    <2> DEFINE claim == [job |-> j, nonce |-> nonce'[j]]
               newState == [Resting("working") EXCEPT !.claim = claim]
    <2>1. /\ nonce'[j] = attempts'[j] /\ <<j, TokenOf[m.from], attempts'[j]>> \in granted'
          /\ nonce'[j] \in 1 .. MaxAttempts
      <3>1. nonce' = [Cleared(nonce, 0) EXCEPT ![j] = attempts'[j]]
        BY <1>1 DEF ClaimAgentJob
      <3>2. nonce'[j] = attempts'[j]
        BY <3>1 DEF Cleared
      <3>3. <<j, TokenOf[m.from], attempts'[j]>> \in granted'
        BY <1>1 DEF ClaimAgentJob
      <3>4. granted' \subseteq AgentJobs \X Runners \X (1 .. MaxAttempts)
        BY DEF QueueInv, QueueTypeOK
      <3> QED BY <3>2, <3>3, <3>4
    <2>2. claim \in Claims /\ <<claim.job, TokenOf[m.from], claim.nonce>> \in granted'
      BY <2>1 DEF Claims
    <2>3. newState \in LaptopStates /\ newState.pc = "working"
          /\ newState.claim = claim /\ newState.posted = {}
      BY <2>2 DEF LaptopStates, Resting
    <2> HIDE DEF claim, newState
    <2>4. Answer(m, newState)
      BY <1>1 DEF newState, claim
    <2>5. /\ laptop' \in [Laptops -> LaptopStates] /\ requests' \subseteq AllRequests
          /\ ClaimsAreGranted' /\ OneCall' /\ PostedIsStored'
      BY <1>0, <2>2, <2>3, <2>4, AnswerInv
    <2> QED BY <1>0, <2>5 DEF LaneShape
  <1>2. ASSUME Answer(m, Resting("idle"))
        PROVE  LaneShape' /\ ClaimsAreGranted' /\ OneCall' /\ PostedIsStored'
    <2>1. /\ Resting("idle") \in LaptopStates /\ Resting("idle").pc = "idle"
          /\ Resting("idle").claim = NoClaim /\ Resting("idle").posted = {}
      BY DEF LaptopStates, Resting
    <2>2. /\ laptop' \in [Laptops -> LaptopStates] /\ requests' \subseteq AllRequests
          /\ ClaimsAreGranted' /\ OneCall' /\ PostedIsStored'
      BY <1>0, <1>2, <2>1, AnswerInv
    <2> QED BY <1>0, <2>2 DEF LaneShape
  <1> QED BY <1>1, <1>2 DEF ServeClaim

\* A heartbeat, or a request that is lost: nobody waits for an answer.
LEMMA UnansweredInv ==
  ASSUME LaneInv, NEW m \in requests, ServeHeartbeat(m) \/ LoseRequest(m),
         granted \subseteq granted'
  PROVE  LaneShape' /\ ClaimsAreGranted' /\ OneCall' /\ PostedIsStored'
  <1> USE DEF LaneInv, LaneShape
  <1>0. Handled(m) /\ laptop' = laptop /\ files' = files /\ stored' = stored
    BY DEF ServeHeartbeat, LoseRequest
  <1>1. ~m.awaited
    BY DEF ServeHeartbeat, LoseRequest, OneCall, AwaitsAt
  <1>2. laptop[m.from] \in LaptopStates /\ Answer(m, laptop[m.from])
    BY <1>0, <1>1 DEF Answer, AllRequests, RequestsOf
  <1>3. /\ laptop' \in [Laptops -> LaptopStates] /\ requests' \subseteq AllRequests
        /\ ClaimsAreGranted' /\ OneCall' /\ PostedIsStored'
    BY <1>0, <1>1, <1>2, AnswerInv
  <1> QED BY <1>0, <1>3

\* An artifact: the laptop takes for posted what was stored under its own claim.
LEMMA ServeArtifactInv ==
  ASSUME LaneInv, NEW m \in requests, ServeArtifact(m), granted \subseteq granted'
  PROVE  LaneShape' /\ ClaimsAreGranted' /\ OneCall' /\ PostedIsStored'
  <1> USE DEF LaneInv, LaneShape
  <1> DEFINE j == m.claim.job
             k == m.detail.kind
             p == m.from
             next(accepted) ==
               [laptop[p] EXCEPT !.pc = "posting", !.todo = @ \ {k},
                                 !.posted = IF accepted THEN @ \cup {k} ELSE @]
  <1>0. /\ p \in Laptops /\ m.claim \in Claims /\ k \in Kinds
        /\ j \in AgentJobs /\ m.claim.nonce \in 1 .. MaxAttempts
    BY DEF ServeArtifact, AllRequests, RequestsOf, Claims
  <1>1. \A accepted \in BOOLEAN :
          /\ next(accepted) \in LaptopStates /\ next(accepted).pc = "posting"
          /\ next(accepted).claim = laptop[p].claim
          /\ next(accepted).posted = IF accepted THEN laptop[p].posted \cup {k} ELSE laptop[p].posted
    BY ZenonT(60), <1>0 DEF LaptopStates
  <1>2. m.awaited => /\ laptop[p].claim = m.claim /\ laptop[p].pc = "posting-one"
                     /\ laptop[p].claim \in Claims /\ Granted(p, laptop[p].claim)
    BY <1>0 DEF ServeArtifact, OneCall, AwaitsAt, ClaimsAreGranted
  <1>3. \/ /\ ArtifactAccepted(m)
           /\ files' = [files EXCEPT ![JobOf[j]][k] = <<j, m.claim.nonce>>]
           /\ stored' = stored \cup {<<j, m.claim.nonce, k>>}
           /\ Answer(m, next(TRUE))
        \/ files' = files /\ stored' = stored /\ Answer(m, next(FALSE))
    BY DEF ServeArtifact
  <1>4. Handled(m) /\ stored \subseteq stored'
    BY <1>3 DEF ServeArtifact
  <1>5. files' \in [Jobs -> [Kinds -> {NoFile, Earlier} \cup (AgentJobs \X (1 .. MaxAttempts))]]
    <2>1. JobOf[j] \in Jobs
      BY <1>0, LaneAssumption
    <2>2. <<j, m.claim.nonce>> \in AgentJobs \X (1 .. MaxAttempts)
      BY <1>0
    <2>3. CASE files' = [files EXCEPT ![JobOf[j]][k] = <<j, m.claim.nonce>>]
      <3>1. files'[JobOf[j]] \in [Kinds -> {NoFile, Earlier} \cup (AgentJobs \X (1 .. MaxAttempts))]
        BY <1>0, <2>1, <2>2, <2>3
      <3> QED BY <2>1, <2>3, <3>1
    <2> QED BY <1>3, <2>3
  <1>6. PICK accepted \in BOOLEAN :
          Answer(m, next(accepted)) /\ (accepted => <<j, m.claim.nonce, k>> \in stored')
    BY <1>3
  <1>7. m.awaited => \A x \in next(accepted).posted :
                       <<next(accepted).claim.job, next(accepted).claim.nonce, x>> \in stored'
    <2> SUFFICES ASSUME m.awaited, NEW x \in next(accepted).posted
                 PROVE  <<m.claim.job, m.claim.nonce, x>> \in stored'
      BY <1>1, <1>2
    <2>1. CASE x \in laptop[p].posted
      BY <1>0, <1>2, <1>4, <2>1 DEF PostedIsStored
    <2>2. CASE accepted /\ x = k
      BY <1>6, <2>2
    <2> HIDE DEF next
    <2> QED BY <1>1, <2>1, <2>2
  <1>8. m.awaited =>
          /\ next(accepted).claim \in Claims
          /\ <<next(accepted).claim.job, TokenOf[m.from], next(accepted).claim.nonce>> \in granted'
    BY <1>1, <1>2 DEF Granted
  <1> HIDE DEF next
  <1>9. /\ laptop' \in [Laptops -> LaptopStates] /\ requests' \subseteq AllRequests
        /\ ClaimsAreGranted' /\ OneCall' /\ PostedIsStored'
    BY <1>1, <1>4, <1>6, <1>7, <1>8, AnswerInv
  <1> QED BY <1>5, <1>9

\* A result: the laptop moves on.
LEMMA ServeResultInv ==
  ASSUME LaneInv, NEW m \in requests, ServeResult(m), granted \subseteq granted'
  PROVE  LaneShape' /\ ClaimsAreGranted' /\ OneCall' /\ PostedIsStored'
  <1> USE DEF LaneInv
  <1>0. Handled(m) /\ files' = files /\ stored' = stored /\ Answer(m, Resting("idle"))
    BY DEF ServeResult
  <1>1. /\ Resting("idle") \in LaptopStates /\ Resting("idle").pc = "idle"
        /\ Resting("idle").claim = NoClaim /\ Resting("idle").posted = {}
    BY DEF LaptopStates, Resting
  <1>2. /\ laptop' \in [Laptops -> LaptopStates] /\ requests' \subseteq AllRequests
        /\ ClaimsAreGranted' /\ OneCall' /\ PostedIsStored'
    BY <1>0, <1>1, AnswerInv
  <1> QED BY <1>0, <1>2 DEF LaneShape

-----------------------------------------------------------------------------
(***************************************************************************)
(* The invariant, and what follows from it.                                *)
(***************************************************************************)
LEMMA LaneInitInv == Init => LaneInv
  <1> SUFFICES ASSUME Init PROVE LaneInv
    OBVIOUS
  <1> USE DEF Init
  <1>1. QueueInv
    BY QueueInitInv
  <1>2. \A p \in Laptops : laptop[p] = Resting("idle")
    OBVIOUS
  <1>3. LaneShape
    BY <1>2 DEF LaneShape, LaptopStates, Resting
  <1>4. ClaimsAreGranted /\ OneCall /\ PostedIsStored
    BY <1>2 DEF ClaimsAreGranted, OneCall, PostedIsStored, Resting
  <1> QED BY <1>1, <1>3, <1>4 DEF LaneInv

\* Every step of the lane preserves the invariant.
LEMMA LaneStepInv == LaneInv /\ [Next]_vars => LaneInv'
  <1> SUFFICES ASSUME LaneInv, [Next]_vars PROVE LaneInv'
    OBVIOUS
  <1>0. QueueInv' /\ granted \subseteq granted'
    BY LaneDrivesQueue, QueueStepInv, GrantsStay DEF LaneInv
  <1>1. CASE UNCHANGED laneVars
    <2>1. LaneShape' /\ PostedIsStored' /\ OneCall'
      BY <1>1 DEF LaneInv, LaneShape, PostedIsStored, OneCall
    <2>2. ClaimsAreGranted'
      BY <1>0, <1>1 DEF LaneInv, ClaimsAreGranted, Granted
    <2> QED BY <1>0, <2>1, <2>2 DEF LaneInv
  <1>2. ASSUME NEW p \in Laptops, LaptopStep(p) \/ Heartbeat(p) \/ CallFails(p) \/ Crash(p)
        PROVE  LaneShape' /\ ClaimsAreGranted' /\ OneCall' /\ PostedIsStored'
    BY <1>2, SendsInv, QuietStepInv, CallFailsInv, CrashInv DEF LaptopStep
  <1>3. ASSUME NEW m \in requests, Serve(m) \/ LoseRequest(m)
        PROVE  LaneShape' /\ ClaimsAreGranted' /\ OneCall' /\ PostedIsStored'
    BY <1>0, <1>3, ServeClaimInv, UnansweredInv, ServeArtifactInv, ServeResultInv DEF Serve
  <1>4. (\E j \in AgentJobs : OwnerEnqueues(j) \/ OwnerCancels(j) \/ OwnerRequeues(j) \/ TimePasses(j))
        => UNCHANGED laneVars
    BY DEF OwnerEnqueues, OwnerCancels, OwnerRequeues, TimePasses
  <1>5. UNCHANGED vars => UNCHANGED laneVars
    OBVIOUS
  <1> QED BY <1>0, <1>1, <1>2, <1>3, <1>4, <1>5 DEF Next, LaneInv

\* The invariant holds of every reachable state, whatever crashes or gets lost.
THEOREM LaneInvariant == Spec => []LaneInv
  BY LaneInitInv, LaneStepInv, PTL DEF Spec

\* The endpoints and the laptops are a client the queue can be proved about: each of
\* their behaviours is one of AgentQueue, so a nonce is only ever presented by a
\* runner that was granted it.
THEOREM LaneImplementsQueue == Spec => DrivesQueue
  <1>1. Init => QueueInit
    BY DEF Init
  <1> QED BY <1>1, LaneInvariant, LaneDrivesQueue, PTL DEF Spec, DrivesQueue, QueueSpec

\* With what the queue promises, every agent job the laptops work
\* on goes through the life of AgentJobContract.
THEOREM LaneImplementsContract == Spec => ImplementsContract
  BY LaneImplementsQueue, QueueImplementsContract, PTL DEF DrivesQueue

-----------------------------------------------------------------------------
(***************************************************************************)
(* Types.                                                                  *)
(***************************************************************************)
\* The awaited requests of a laptop are one or none, as its program counter says.
LEMMA AwaitedCount ==
  ASSUME LaneInv, NEW p \in Laptops
  PROVE  Cardinality({m \in requests : m.from = p /\ m.awaited})
           = (IF laptop[p].pc \in Awaiting THEN 1 ELSE 0)
  <1> DEFINE own == {m \in requests : m.from = p /\ m.awaited}
  <1> USE DEF LaneInv
  <1>1. CASE laptop[p].pc \in Awaiting
    <2>1. PICK m \in requests : m.awaited /\ m.from = p
      BY <1>1 DEF OneCall
    <2>2. own = {m}
      BY <2>1 DEF OneCall
    <2> HIDE DEF own
    <2>3. Cardinality(own) = 1
      BY <2>2, FS_Singleton
    <2> QED BY <1>1, <2>3 DEF own
  <1>2. CASE laptop[p].pc \notin Awaiting
    <2>1. own = {}
      BY <1>2 DEF OneCall, AwaitsAt
    <2> HIDE DEF own
    <2>2. Cardinality(own) = 0
      BY <2>1, FS_EmptySet
    <2> QED BY <1>2, <2>2 DEF own
  <1> QED BY <1>1, <1>2

\* The lane keeps the shape the protocol gives it: a laptop awaits one call at a time,
\* and speaks only of a claim it was granted.
THEOREM LaneTypeCorrect == Spec => []LaneTypeOK
  <1>1. LaneInv => LaneTypeOK
    <2> SUFFICES ASSUME LaneInv PROVE LaneTypeOK
      OBVIOUS
    <2>1. ASSUME NEW p \in Laptops
          PROVE  /\ laptop[p].pc \in {"down", "idle", "working", "posting"} \cup Awaiting
                 /\ laptop[p].todo \subseteq Kinds /\ laptop[p].posted \subseteq Kinds
                 /\ laptop[p].claim # NoClaim =>
                      <<laptop[p].claim.job, TokenOf[p], laptop[p].claim.nonce>> \in granted
      <3>1. laptop[p] \in LaptopStates
        BY DEF LaneInv, LaneShape
      <3>2. laptop[p].claim # NoClaim => Granted(p, laptop[p].claim)
        BY DEF LaneInv, ClaimsAreGranted
      <3> QED BY <3>1, <3>2 DEF LaptopStates, Granted
    <2> QED BY <2>1, AwaitedCount DEF LaneTypeOK, LaneInv, LaneShape, QueueInv
  <1> QED BY <1>1, LaneInvariant, PTL

-----------------------------------------------------------------------------
(***************************************************************************)
(* What "done" means.                                                      *)
(***************************************************************************)
\* Of the queue's calls only a result makes a job done, or changes who won it.
LEMMA OnlyResultsFinish ==
  ASSUME QueueInv, NEW j \in AgentJobs, status'[j] = "done",
         \/ ClaimNothing
         \/ \E k \in AgentJobs : \/ EnqueueAgentJob(k) \/ CancelAgentJob(k)
                                 \/ RequeueAgentJob(k) \/ LeaseLapses(k)
         \/ \E k \in AgentJobs, r \in Runners : ClaimAgentJob(r, k) \/ HeartbeatAgentJob(r, k)
         \/ UNCHANGED queueVars
  PROVE  status[j] = "done" /\ winner'[j] = winner[j]
  <1> USE DEF QueueInv
  <1>0. Swept(j) = "done" => status[j] = "done"
    BY SweptCases
  <1>1. CASE ClaimNothing
    BY <1>0, <1>1 DEF ClaimNothing
  <1>2. ASSUME NEW k \in AgentJobs,
               EnqueueAgentJob(k) \/ CancelAgentJob(k) \/ RequeueAgentJob(k) \/ LeaseLapses(k)
        PROVE  status[j] = "done" /\ winner'[j] = winner[j]
    BY <1>2 DEF EnqueueAgentJob, CancelAgentJob, RequeueAgentJob, LeaseLapses, QueueTypeOK
  <1>3. ASSUME NEW k \in AgentJobs, NEW r \in Runners, ClaimAgentJob(r, k)
        PROVE  status[j] = "done" /\ winner'[j] = winner[j]
    BY <1>0, <1>3 DEF ClaimAgentJob
  <1>4. ASSUME NEW k \in AgentJobs, NEW r \in Runners, HeartbeatAgentJob(r, k)
        PROVE  status[j] = "done" /\ winner'[j] = winner[j]
    BY <1>4 DEF HeartbeatAgentJob, QueueTypeOK
  <1> QED BY <1>1, <1>2, <1>3, <1>4

\* A job that is done after a step was done before it, by the same claim, or the step
\* accepted a report of "done" that passed the backstop.
LEMMA DoneByReport ==
  ASSUME LaneInv, [Next]_vars, NEW j \in AgentJobs, status'[j] = "done"
  PROVE  \/ status[j] = "done" /\ winner'[j] = winner[j]
         \/ \E m \in requests :
              /\ m.op = "result" /\ m.claim.job = j /\ m.detail = "done"
              /\ winner'[j] = m.claim.nonce /\ files' = files
              /\ \A k \in Kinds : files[JobOf[j]][k] # NoFile
  <1> USE DEF LaneInv
  <1>1. CASE UNCHANGED queueVars
    BY <1>1, OnlyResultsFinish
  <1>2. CASE \E p \in Laptops : LaptopStep(p) \/ Heartbeat(p) \/ CallFails(p) \/ Crash(p)
    <2>1. UNCHANGED queueVars
      BY <1>2 DEF LaptopStep, PollNext, AgentExits, PostArtifact, PostResult, Restart,
                  Heartbeat, Send, CallFails, Crash
    <2> QED BY <1>1, <2>1
  <1>3. CASE \E k \in AgentJobs :
               OwnerEnqueues(k) \/ OwnerCancels(k) \/ OwnerRequeues(k) \/ TimePasses(k)
    BY <1>3, OnlyResultsFinish DEF OwnerEnqueues, OwnerCancels, OwnerRequeues, TimePasses
  <1>4. ASSUME NEW m \in requests, ServeClaim(m)
        PROVE  status[j] = "done" /\ winner'[j] = winner[j]
    <2>1. TokenOf[m.from] \in Runners
      BY LaneAssumption DEF LaneShape, AllRequests, RequestsOf
    <2> QED BY <1>4, <2>1, OnlyResultsFinish DEF ServeClaim
  <1>5. ASSUME NEW m \in requests, ServeHeartbeat(m)
        PROVE  status[j] = "done" /\ winner'[j] = winner[j]
    <2>1. TokenOf[m.from] \in Runners /\ m.claim.job \in AgentJobs
      BY <1>5, LaneAssumption DEF ServeHeartbeat, LaneShape, AllRequests, RequestsOf, Claims
    <2> QED BY <1>5, <2>1, OnlyResultsFinish DEF ServeHeartbeat
  <1>6. ASSUME NEW m \in requests, ServeArtifact(m) \/ LoseRequest(m)
        PROVE  UNCHANGED queueVars
    BY <1>6 DEF ServeArtifact, LoseRequest
  <1>7. ASSUME NEW m \in requests, ServeResult(m)
        PROVE  \/ status[j] = "done" /\ winner'[j] = winner[j]
               \/ /\ m.op = "result" /\ m.claim.job = j /\ m.detail = "done"
                  /\ winner'[j] = m.claim.nonce /\ files' = files
                  /\ \A k \in Kinds : files[JobOf[j]][k] # NoFile
    <2>1. m.op = "result" /\ files' = files /\ m.detail \in Outcomes
      BY <1>7 DEF ServeResult, LaneShape, AllRequests, RequestsOf
    <2>2. CASE CompleteAgentJob(TokenOf[m.from], m.claim.job, m.claim.nonce,
                                Backstop(m.claim.job, m.detail))
      <3>1. CASE m.claim.job = j
        <4>1. Backstop(j, m.detail) = "done" /\ winner'[j] = m.claim.nonce
          BY <2>2, <3>1 DEF CompleteAgentJob, QueueInv, QueueTypeOK
        <4> QED BY <2>1, <3>1, <4>1 DEF Backstop
      <3>2. CASE m.claim.job # j
        BY <2>2, <3>2 DEF CompleteAgentJob, QueueInv, QueueTypeOK
      <3> QED BY <3>1, <3>2
    <2>3. CASE UNCHANGED queueVars
      BY <1>1, <2>3
    <2> QED BY <1>7, <2>2, <2>3 DEF ServeResult
  <1> QED BY <1>1, <1>2, <1>3, <1>4, <1>5, <1>6, <1>7 DEF Next, Serve

\* The folders change only by an artifact that is accepted; nothing empties them.
LEMMA FilesChange ==
  ASSUME LaneInv, [Next]_vars
  PROVE  \/ files' = files /\ stored \subseteq stored'
         \/ \E m \in requests :
              /\ ArtifactAccepted(m) /\ m.claim \in Claims /\ m.detail.kind \in Kinds
              /\ files' = [files EXCEPT ![JobOf[m.claim.job]][m.detail.kind] =
                                          <<m.claim.job, m.claim.nonce>>]
              /\ stored \subseteq stored'
  <1>1. CASE UNCHANGED vars
    BY <1>1
  <1>2. CASE \E p \in Laptops : LaptopStep(p) \/ Heartbeat(p) \/ CallFails(p) \/ Crash(p)
    BY <1>2 DEF LaptopStep, PollNext, AgentExits, PostArtifact, PostResult, Restart,
                Heartbeat, Send, CallFails, Crash
  <1>3. CASE \E k \in AgentJobs :
               OwnerEnqueues(k) \/ OwnerCancels(k) \/ OwnerRequeues(k) \/ TimePasses(k)
    BY <1>3 DEF OwnerEnqueues, OwnerCancels, OwnerRequeues, TimePasses
  <1>4. ASSUME NEW m \in requests,
               ServeClaim(m) \/ ServeHeartbeat(m) \/ ServeResult(m) \/ LoseRequest(m)
        PROVE  files' = files /\ stored' = stored
    BY <1>4 DEF ServeClaim, ServeHeartbeat, ServeResult, LoseRequest
  <1>5. ASSUME NEW m \in requests, ServeArtifact(m)
        PROVE  \/ files' = files /\ stored \subseteq stored'
               \/ /\ ArtifactAccepted(m) /\ m.claim \in Claims /\ m.detail.kind \in Kinds
                  /\ files' = [files EXCEPT ![JobOf[m.claim.job]][m.detail.kind] =
                                              <<m.claim.job, m.claim.nonce>>]
                  /\ stored \subseteq stored'
    <2>1. m.claim \in Claims /\ m.detail.kind \in Kinds
      BY <1>5 DEF ServeArtifact, LaneInv, LaneShape, AllRequests, RequestsOf
    <2> QED BY <1>5, <2>1 DEF ServeArtifact
  <1> QED BY <1>1, <1>2, <1>3, <1>4, <1>5 DEF Next, Serve

\* Whatever a runner build reports, a job is done only with every required kind in its
\* folder: the backstop holds it against a stale build, and nothing takes a file away.
THEOREM DoneHasFiles == Spec => []DoneHasEveryKind
  <1>1. Init => DoneHasEveryKind
    BY DEF Init, QueueInit, DoneHasEveryKind
  <1>2. LaneInv /\ DoneHasEveryKind /\ [Next]_vars => DoneHasEveryKind'
    <2> SUFFICES ASSUME LaneInv, DoneHasEveryKind, [Next]_vars,
                        NEW j \in AgentJobs, status'[j] = "done", NEW k \in Kinds
                 PROVE  files'[JobOf[j]][k] # NoFile
      BY DEF DoneHasEveryKind
    <2>1. files[JobOf[j]][k] # NoFile
      BY DoneByReport DEF DoneHasEveryKind
    <2>2. CASE files' = files
      BY <2>1, <2>2
    <2>3. ASSUME NEW m \in requests, m.claim \in Claims, m.detail.kind \in Kinds,
                 files' = [files EXCEPT ![JobOf[m.claim.job]][m.detail.kind] =
                                          <<m.claim.job, m.claim.nonce>>]
          PROVE  files'[JobOf[j]][k] # NoFile
      <3>1. <<m.claim.job, m.claim.nonce>> # NoFile
        BY <2>3, LaneAssumption DEF Claims
      <3>2. files \in [Jobs -> [Kinds -> {NoFile, Earlier} \cup (AgentJobs \X (1 .. MaxAttempts))]]
        BY DEF LaneInv, LaneShape
      <3>3. JobOf[j] \in Jobs /\ JobOf[m.claim.job] \in Jobs
        BY <2>3, LaneAssumption DEF Claims
      <3> QED BY <2>1, <2>3, <3>1, <3>2, <3>3
    <2> QED BY <2>2, <2>3, FilesChange
  <1> QED BY <1>1, <1>2, LaneInvariant, PTL DEF Spec

\* The reports of "done" under way are old ones, or one a laptop posts in this step.
LEMMA NewReports ==
  ASSUME LaneInv, [Next]_vars, NEW m \in requests', m.op = "result", m.detail = "done"
  PROVE  \/ \E n \in requests : /\ n.op = "result" /\ n.detail = "done"
                                /\ n.claim = m.claim /\ n.from = m.from
         \/ \E p \in Laptops : PostResult(p) /\ m = Request("result", p, ResolveRunOutcome(p))
  <1> USE DEF LaneInv, LaneShape
  <1>1. CASE m \in requests
    BY <1>1
  <1>2. ASSUME m \notin requests, NEW p \in Laptops, LaptopStep(p) \/ Heartbeat(p)
        PROVE  PostResult(p) /\ m = Request("result", p, ResolveRunOutcome(p))
    <2>1. ASSUME NEW op, NEW detail, NEW pc, Send(op, p, detail, pc)
          PROVE  m = Request(op, p, detail) /\ op = "result"
      BY <1>2, <2>1 DEF Send, Request
    <2>2. ~PollNext(p) /\ ~Heartbeat(p)
      BY <2>1 DEF PollNext, Heartbeat
    <2>3. ~PostArtifact(p)
      <3>1. \A detail : ~Send("artifact", p, detail, "posting-one")
        BY <2>1
      <3> QED BY <3>1 DEF PostArtifact
    <2>4. ~AgentExits(p) /\ ~Restart(p)
      BY <1>2 DEF AgentExits, Restart
    <2>5. PostResult(p)
      BY <1>2, <2>2, <2>3, <2>4 DEF LaptopStep
    <2> QED BY <2>1, <2>5 DEF PostResult
  <1>3. ASSUME NEW p \in Laptops, CallFails(p)
        PROVE  \E n \in requests : /\ n.op = "result" /\ n.detail = "done"
                                   /\ n.claim = m.claim /\ n.from = m.from
    <2>1. PICK n \in requests :
            requests' \subseteq requests \cup {GivenUp(n), Request("result", p, "failed")}
      BY <1>3 DEF CallFails, GivenUp
    <2>2. n \in AllRequests
      OBVIOUS
    <2>3. Request("result", p, "failed").detail = "failed"
      BY DEF Request
    <2> QED BY <2>1, <2>2, <2>3, GivenUpFacts
  <1>4. ASSUME NEW p \in Laptops, Crash(p)
        PROVE  \E n \in requests : /\ n.op = "result" /\ n.detail = "done"
                                   /\ n.claim = m.claim /\ n.from = m.from
    <2>1. requests' = {IF n.from = p THEN GivenUp(n) ELSE n : n \in requests}
      BY <1>4 DEF Crash, GivenUp
    <2>2. \A n \in requests : n \in AllRequests
      BY SMTT(30)
    <2> QED BY <2>1, <2>2, GivenUpFacts
  <1>5. ASSUME NEW n \in requests, Serve(n) \/ LoseRequest(n)
        PROVE  m \in requests
    BY <1>5 DEF Serve, ServeClaim, ServeHeartbeat, ServeArtifact, ServeResult, LoseRequest, Handled
  <1>6. ASSUME NEW j \in AgentJobs,
               OwnerEnqueues(j) \/ OwnerCancels(j) \/ OwnerRequeues(j) \/ TimePasses(j)
        PROVE  m \in requests
    BY <1>6 DEF OwnerEnqueues, OwnerCancels, OwnerRequeues, TimePasses
  <1> QED BY <1>1, <1>2, <1>3, <1>4, <1>5, <1>6 DEF Next

\* A report of success keeps the files it speaks of: files are only ever added.
LEMMA DoneReportsStayTrue ==
  LaneInv /\ DoneReportsAreTrue /\ [Next]_vars => DoneReportsAreTrue'
  <1> SUFFICES ASSUME LaneInv, DoneReportsAreTrue, [Next]_vars,
                      NEW m \in requests', m.op = "result", m.detail = "done",
                      m.from \notin StaleLaptops, NEW k \in Kinds
               PROVE  <<m.claim.job, m.claim.nonce, k>> \in stored'
    BY DEF DoneReportsAreTrue
  <1>0. stored \subseteq stored'
    BY FilesChange
  <1>1. ASSUME NEW n \in requests, n.op = "result", n.detail = "done",
               n.claim = m.claim, n.from = m.from
        PROVE  <<m.claim.job, m.claim.nonce, k>> \in stored'
    BY <1>0, <1>1 DEF DoneReportsAreTrue
  <1>2. ASSUME NEW p \in Laptops, PostResult(p), m = Request("result", p, ResolveRunOutcome(p))
        PROVE  <<m.claim.job, m.claim.nonce, k>> \in stored'
    <2>1. m.claim = laptop[p].claim /\ m.from = p /\ ResolveRunOutcome(p) = "done"
      BY <1>2 DEF Request
    <2>2. k \in laptop[p].posted
      BY <2>1 DEF ResolveRunOutcome
    <2> QED BY <1>0, <2>1, <2>2 DEF LaneInv, PostedIsStored
  <1> QED BY <1>1, <1>2, NewReports

\* Where every laptop runs a build that looks at what was posted, a job is done only
\* when the very run that reported it had every required artifact stored, however its
\* lease, its calls and its process fared.
THEOREM DoneIsDelivered == StaleLaptops = {} => (Spec => []DoneMeansDelivered)
  <1> SUFFICES ASSUME StaleLaptops = {} PROVE Spec => []DoneMeansDelivered
    OBVIOUS
  <1> DEFINE Inv == DoneReportsAreTrue /\ DoneMeansDelivered
  <1>1. Init => Inv
    BY DEF Init, QueueInit, DoneReportsAreTrue, DoneMeansDelivered
  <1>2. LaneInv /\ Inv /\ [Next]_vars => Inv'
    <2> SUFFICES ASSUME LaneInv, Inv, [Next]_vars PROVE Inv'
      OBVIOUS
    <2>1. DoneReportsAreTrue'
      BY DoneReportsStayTrue
    <2>2. ASSUME NEW j \in AgentJobs, status'[j] = "done", NEW k \in Kinds
          PROVE  <<j, winner'[j], k>> \in stored'
      <3>0. stored \subseteq stored'
        BY FilesChange
      <3>1. CASE status[j] = "done" /\ winner'[j] = winner[j]
        BY <3>0, <3>1 DEF DoneMeansDelivered
      <3>2. ASSUME NEW m \in requests, m.op = "result", m.claim.job = j, m.detail = "done",
                   winner'[j] = m.claim.nonce
            PROVE  <<j, winner'[j], k>> \in stored'
        BY <3>0, <3>2 DEF DoneReportsAreTrue
      <3> QED BY <2>2, <3>1, <3>2, DoneByReport
    <2> QED BY <2>1, <2>2 DEF DoneMeansDelivered
  <1>3. Inv => DoneMeansDelivered
    OBVIOUS
  <1> HIDE DEF Inv
  <1> QED BY <1>1, <1>2, <1>3, LaneInvariant, PTL DEF Spec

\* An artifact reaches a folder only from the run that holds the newest claim of an
\* unsettled agent job for it: a slept laptop's late upload, a second process with the
\* same token, a run whose job was settled or handed on overwrites nothing.
THEOREM OnlyNewestClaimWrites == Spec => ArtifactOnlyUnderNewestClaim
  <1> DEFINE Claimed ==
        \A t \in Jobs, k \in Kinds :
          files'[t][k] # files[t][k] =>
            \E j \in AgentJobs : /\ JobOf[j] = t /\ status[j] \in Held
                                 /\ files'[t][k] = <<j, attempts[j]>>
  <1>1. LaneInv /\ [Next]_vars => [Claimed]_vars
    <2> SUFFICES ASSUME LaneInv, [Next]_vars,
                        NEW t \in Jobs, NEW k \in Kinds, files'[t][k] # files[t][k]
                 PROVE  \E j \in AgentJobs : /\ JobOf[j] = t /\ status[j] \in Held
                                             /\ files'[t][k] = <<j, attempts[j]>>
      OBVIOUS
    <2>1. PICK m \in requests :
            /\ ArtifactAccepted(m) /\ m.claim \in Claims /\ m.detail.kind \in Kinds
            /\ files' = [files EXCEPT ![JobOf[m.claim.job]][m.detail.kind] =
                                        <<m.claim.job, m.claim.nonce>>]
      BY FilesChange
    <2>2. m.claim.job \in AgentJobs
      BY <2>1 DEF Claims
    <2>3. status[m.claim.job] \in Held /\ attempts[m.claim.job] = m.claim.nonce
      BY <2>1, <2>2 DEF ArtifactAccepted, LaneInv, QueueInv, NonceIsNewestGrant
    <2>4. files \in [Jobs -> [Kinds -> {NoFile, Earlier} \cup (AgentJobs \X (1 .. MaxAttempts))]]
      BY DEF LaneInv, LaneShape
    <2>5. JobOf[m.claim.job] = t /\ files'[t][k] = <<m.claim.job, m.claim.nonce>>
      BY <2>1, <2>4
    <2> QED BY <2>2, <2>3, <2>5
  <1> QED BY <1>1, LaneInvariant, PTL DEF Spec, ArtifactOnlyUnderNewestClaim

=============================================================================

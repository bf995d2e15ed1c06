--------------------------- MODULE AgentJobContract ---------------------------
(***************************************************************************)
(* What the agent_jobs queue promises its two clients, the owner who       *)
(* enqueues a job and the laptop runners that execute it, with nothing     *)
(* said of leases, nonces, timestamps or storage:                          *)
(*                                                                         *)
(*   - a job is handed out at most MaxGrants times;                        *)
(*   - while it is handed out, one grant counts: the newest;               *)
(*   - only the newest grant can give the job its result, once;            *)
(*   - a settled job is never handed out, reopened or settled again.       *)
(*                                                                         *)
(* AgentQueue implements this specification.                               *)
(***************************************************************************)
EXTENDS Integers

CONSTANTS
  Jobs,       \* the ids agent jobs may get
  MaxGrants   \* how often one job may be handed out

VARIABLES
  phase,      \* where each job stands
  grants,     \* how often each job was handed out
  winner      \* the grant whose result settled the job, 0 for none

contractVars == <<phase, grants, winner>>

Init ==
  /\ phase  = [j \in Jobs |-> "absent"]
  /\ grants = [j \in Jobs |-> 0]
  /\ winner = [j \in Jobs |-> 0]

Submit(j) ==
  /\ phase[j] = "absent"
  /\ phase' = [phase EXCEPT ![j] = "waiting"]
  /\ UNCHANGED <<grants, winner>>

\* Grants that are given up go back to waiting, or settle unsuccessfully when
\* the job has been handed out as often as it may be; in the same step one job
\* that waits, or has just been given up, may be handed out.
Reassign ==
  \E lost \in SUBSET {j \in Jobs : phase[j] = "granted"},
     given \in SUBSET Jobs :
    /\ lost \cup given # {}
    /\ \A j, k \in given : j = k
    /\ \A j \in given : /\ phase[j] = "waiting" \/ j \in lost
                        /\ grants[j] < MaxGrants
    /\ phase' = [j \in Jobs |->
                   IF j \in given THEN "granted"
                   ELSE IF j \in lost
                        THEN IF grants[j] < MaxGrants THEN "waiting" ELSE "settled"
                        ELSE phase[j]]
    /\ grants' = [j \in Jobs |-> IF j \in given THEN grants[j] + 1 ELSE grants[j]]
    /\ UNCHANGED winner

\* The holder of the newest grant delivers the result.
Deliver(j) ==
  /\ phase[j] = "granted"
  /\ phase' = [phase EXCEPT ![j] = "settled"]
  /\ winner' = [winner EXCEPT ![j] = grants[j]]
  /\ UNCHANGED grants

\* The owner withdraws a job nobody holds.
Withdraw(j) ==
  /\ phase[j] = "waiting"
  /\ phase' = [phase EXCEPT ![j] = "settled"]
  /\ UNCHANGED <<grants, winner>>

Next ==
  \/ \E j \in Jobs : Submit(j) \/ Deliver(j) \/ Withdraw(j)
  \/ Reassign

Spec == Init /\ [][Next]_contractVars
=============================================================================

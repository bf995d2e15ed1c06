----------------------------- MODULE MCRunnerLane -----------------------------
(***************************************************************************)
(* Instances of RunnerLane for TLC.                                        *)
(***************************************************************************)
EXTENDS RunnerLane, TLC

CONSTANTS r1, app

\* Two processes started with one RUNNER_TOKEN.
OneToken == [p \in Laptops |-> r1]

\* Every agent job works on the one tracked job.
OneTarget == [j \in AgentJobs |-> app]

\* Laptops that share a token and a build, and agent jobs with one target, differ
\* only by name.
LaneSymmetry == Permutations(Laptops) \cup Permutations(AgentJobs)
=============================================================================

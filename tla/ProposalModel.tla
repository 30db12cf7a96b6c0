---------------------------- MODULE ProposalModel ----------------------------
(***************************************************************************)
(* The vocabulary of the approval pipeline: proposal statuses, risk-gate   *)
(* verdicts and what blocks an approval (app/models/proposal.py).          *)
(***************************************************************************)
EXTENDS StrategyModel

CONSTANTS
  Proposals,    \* ids of proposals rows that may ever exist
  NoStrategy    \* proposals.strategy_id IS NULL (an agent-only suggestion)

ASSUME NoStrategyAssumption == NoStrategy \notin Strategies

\* What Chef can decide about a pending proposal; each is also the status the
\* proposal then has and, prefixed, the event_type of its audit row.
Decisions == {"approved", "rejected", "revision"}

ProposalStatuses == {"none", "pending"} \cup Decisions

\* risk_gate_result: NULL until the gate has run, then a 3-stage enum.
Verdicts == {"null", "green", "yellow", "red"}

\* Proposal.is_red: RED blocks an approval, and so does a missing verdict.
IsRed(verdict) == verdict \in {"null", "red"}

\* run_risk_gate never raises: a client that is absent, times out or fails
\* yields UNREACHABLE, an answer it cannot parse yields RED.
Levels == {"green", "yellow", "red", "unreachable"}

\* Mutant: the level is stored as it is.
DbLevelUnmapped(level) == level

\* The DB enum has three stages: UNREACHABLE is stored as red.
DbLevel(level) == IF level = "unreachable" THEN "red" ELSE level
==============================================================================

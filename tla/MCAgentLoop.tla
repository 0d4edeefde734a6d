----------------------------- MODULE MCAgentLoop -----------------------------
(***************************************************************************)
(* A guarded agent, a loop of two items over an unguarded one with a       *)
(* structured answer, and a loop over a guarded one; two agents in a row.  *)
(***************************************************************************)
EXTENDS AgentLoop, TLC
CONSTANTS a, b, c, t, u

MCPlan ==
    << [agent |-> a, items |-> 0],
       [agent |-> b, items |-> 2],
       [agent |-> c, items |-> 1] >>

=============================================================================

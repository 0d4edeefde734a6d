----------------------------- MODULE MCExecutor -----------------------------
(***************************************************************************)
(* A graph with what is hard for the walk: a cycle (a, b), a join (j)      *)
(* behind both outcomes of b, a for_each (f) whose body (x) is also the    *)
(* target of an error edge of the walk, and an edge to no node (u).        *)
(***************************************************************************)
EXTENDS Executor, TLC
CONSTANTS t, a, b, f, j, x, u

Edge(n, h, m) == [from |-> n, handle |-> h, to |-> m]

MCEdges ==
    { Edge(t, "any", a), Edge(t, "any", f),
      Edge(a, "success", b), Edge(a, "error", x),
      Edge(b, "success", a), Edge(b, "any", j), Edge(b, "error", u),
      Edge(f, "item", x), Edge(f, "success", j) }
=============================================================================

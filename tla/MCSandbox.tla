----------------------------- MODULE MCSandbox -----------------------------
(***************************************************************************)
(* The pool of sandboxes with its requests, and the debug sessions: two    *)
(* parts that share nothing, so a behaviour moves one of them.             *)
(***************************************************************************)
EXTENDS SandboxPool, DebugSession

CONSTANTS k1, k2

VARIABLE sandboxPart     \* the part that moves

allSandboxVars == <<sandboxPart, sandboxVars, debugVars>>

Languages == <<k1>>      \* Warm fills the pool of one language

Init ==
    \/ sandboxPart = "pool" /\ SandboxInit /\ DebugInit /\ adapterKind = "dap"
       /\ debugBackend = "docker"
    \/ sandboxPart = "debug" /\ SandboxInit /\ DebugInit /\ backend = "docker"
       /\ (adapterKind = "dap" <=> debugBackend = "docker")

Pool == sandboxPart = "pool" /\ UNCHANGED <<sandboxPart, debugVars>>
Debug == sandboxPart = "debug" /\ UNCHANGED <<sandboxPart, sandboxVars>>

Debugged(s) == Debug /\ (HandlerStep(s) \/ ClientStep(s) \/ Relay(s))

Driven(s) ==
    /\ Debug
    /\ \/ \E p \in Ports : AcquirePort(s, p)
       \/ AdapterStep(s) \/ UserStep(s)

Next ==
    \/ Pool /\ (Replenishment \/ Lifecycle)
    \/ \E r \in Requests : Pool /\ (Requested(r) \/ Served(r))
    \/ \E s \in Sessions : Debugged(s) \/ Driven(s)

Spec == Init /\ [][Next]_allSandboxVars

(***************************************************************************)
(* A request that has its container goes on; so do the goroutines of a     *)
(* debug session.  Users, programs and the daemon owe nothing.             *)
(***************************************************************************)
FairSpec ==
    /\ Spec
    /\ \A r \in Requests : WF_allSandboxVars(Pool /\ Served(r))
    /\ \A s \in Sessions : WF_allSandboxVars(Debugged(s))
=============================================================================

---------------------------- MODULE MCPlatform ----------------------------
(***************************************************************************)
(* Eleven parts that share nothing: the members of a tenant, an account, a *)
(* for_each, a pass with sub-runs, a pass with gates, the documents of     *)
(* workflows, an eval, a connection, a run that is waited for, a fan_out,  *)
(* and the memory of a chat.  A behaviour moves one of them.               *)
(***************************************************************************)
EXTENDS Tenancy, Accounts, LoopBody, SubRuns, LiveGate,
        WorkflowDocs, EvalRuns, Connections, RunWatch, ToolFan, ChatMemory, TLC

VARIABLE platformPart    \* the part that moves

platformVars == <<platformPart, tenancyVars, accountVars, loopVars, subVars, gateVars,
                  docVars, evalVars, connectionVars, watchVars, fanVars, chatVars>>

OAuthLinks == {<<"google", 1>>, <<"google", 2>>, <<"github", 1>>}

ItemTargets == <<"a", "h">>
Edge(from, handle, to) == [from |-> from, handle |-> handle, to |-> to]
Body == <<Edge("a", "success", "b"), Edge("a", "error", "h"), Edge("b", "", "h")>>

Agents == {"gA", "gB", "gC"}
Nodes == [w \in Workflows |-> CASE w = "A" -> <<"tA", "gA">>
                                [] w = "B" -> <<"tB", "gB">>
                                [] w = "C" -> <<"tC", "gC">>
                                [] w = "D" -> <<"tD", "gD">>]
Tenants == [w \in Workflows |-> IF w = "D" THEN 2 ELSE 1]

Draft(name, returns, wired, config, target) ==
    [enabled |-> TRUE, name |-> name, returns |-> returns, wired |-> wired,
     config |-> config, target |-> target]
SentDrafts == {Draft("m", 1, TRUE, "default", "x"), Draft("m", 1, FALSE, "given", NoTarget)}
Bundled == {Draft("m", 0, FALSE, "given", NoTarget)}

ToolEdge(node, name, optedIn) == [node |-> node, name |-> name, optedIn |-> optedIn]
OpenAgent == [edges |-> <<ToolEdge("nX", "x", TRUE), ToolEdge("nY", "y", TRUE),
                          ToolEdge("nY", "x", TRUE), ToolEdge("nZ", "z", FALSE)>>,
              skills |-> <<"s">>, allowed |-> {}]
BoundAgent == [OpenAgent EXCEPT !.allowed = {"x", "fan_out"}]
ToolCall(tool, fits) == [tool |-> tool, fits |-> fits]
Fans == {<<ToolCall("x", TRUE), ToolCall("y", TRUE), ToolCall("s", TRUE)>>,
         <<ToolCall("y", FALSE), ToolCall("", TRUE), ToolCall("y", TRUE)>>,
         <<ToolCall("z", TRUE), ToolCall("s", FALSE), ToolCall("x", FALSE)>>}
AgentsThatFan == {OpenAgent, BoundAgent}
AnyFan == [agent |-> OpenAgent, calls |-> CHOOSE calls \in Fans : TRUE, parallelism |-> 2,
           mode |-> "live", next |-> 1, returned |-> FALSE]

Interchangeable == Permutations(Savers) \cup Permutations(WorkflowTenants)

Init ==
    /\ platformPart \in {"tenancy", "accounts", "loop", "subruns", "gates", "docs", "eval",
                        "connections", "watch", "fan", "chat"}
    /\ TenancyInit /\ AccountsInit /\ LoopInit /\ SubInit /\ GateInit
    /\ DocsInit /\ EvalInit /\ ConnectionsInit /\ WatchInit /\ FanInit /\ ChatInit
    /\ platformPart # "tenancy" => \A u \in Joined : member[u] = "none"
    /\ platformPart # "loop" => ~abortOnErr /\ parallelism = 1
    /\ platformPart # "fan" => fan = AnyFan

TenancyPart ==
    /\ platformPart = "tenancy" /\ TenancyNext
    /\ UNCHANGED <<platformPart, accountVars, loopVars, subVars, gateVars,
                   docVars, evalVars, connectionVars, watchVars, fanVars, chatVars>>
AccountsPart ==
    /\ platformPart = "accounts" /\ AccountsNext
    /\ UNCHANGED <<platformPart, tenancyVars, loopVars, subVars, gateVars,
                   docVars, evalVars, connectionVars, watchVars, fanVars, chatVars>>
LoopPart ==
    /\ platformPart = "loop" /\ LoopNext
    /\ UNCHANGED <<platformPart, tenancyVars, accountVars, subVars, gateVars,
                   docVars, evalVars, connectionVars, watchVars, fanVars, chatVars>>
SubRunsPart ==
    /\ platformPart = "subruns" /\ SubNext
    /\ UNCHANGED <<platformPart, tenancyVars, accountVars, loopVars, gateVars,
                   docVars, evalVars, connectionVars, watchVars, fanVars, chatVars>>
GatesPart ==
    /\ platformPart = "gates" /\ GateNext
    /\ UNCHANGED <<platformPart, tenancyVars, accountVars, loopVars, subVars,
                   docVars, evalVars, connectionVars, watchVars, fanVars, chatVars>>
DocsPart ==
    /\ platformPart = "docs" /\ DocsNext
    /\ UNCHANGED <<platformPart, tenancyVars, accountVars, loopVars, subVars,
                   gateVars, evalVars, connectionVars, watchVars, fanVars, chatVars>>
EvalPart ==
    /\ platformPart = "eval" /\ EvalNext
    /\ UNCHANGED <<platformPart, tenancyVars, accountVars, loopVars, subVars,
                   gateVars, docVars, connectionVars, watchVars, fanVars, chatVars>>
ConnectionsPart ==
    /\ platformPart = "connections" /\ ConnectionsNext
    /\ UNCHANGED <<platformPart, tenancyVars, accountVars, loopVars, subVars,
                   gateVars, docVars, evalVars, watchVars, fanVars, chatVars>>
WatchPart ==
    /\ platformPart = "watch" /\ WatchNext
    /\ UNCHANGED <<platformPart, tenancyVars, accountVars, loopVars, subVars,
                   gateVars, docVars, evalVars, connectionVars, fanVars, chatVars>>

FanPart ==
    /\ platformPart = "fan" /\ FanNext
    /\ UNCHANGED <<platformPart, tenancyVars, accountVars, loopVars, subVars,
                   gateVars, docVars, evalVars, connectionVars, watchVars, chatVars>>
ChatPart ==
    /\ platformPart = "chat" /\ ChatNext
    /\ UNCHANGED <<platformPart, tenancyVars, accountVars, loopVars, subVars,
                   gateVars, docVars, evalVars, connectionVars, watchVars, fanVars>>

Next ==
    \/ TenancyPart \/ AccountsPart \/ LoopPart \/ SubRunsPart \/ GatesPart
    \/ DocsPart \/ EvalPart \/ ConnectionsPart \/ WatchPart
    \/ FanPart \/ ChatPart

Spec == Init /\ [][Next]_platformVars

EvalOnly == Init /\ platformPart = "eval" /\ [][Next]_platformVars
SubRunsOnly == Init /\ platformPart = "subruns" /\ [][Next]_platformVars
FanOnly == Init /\ platformPart = "fan" /\ [][Next]_platformVars
=============================================================================

------------------------------- MODULE MCNode -------------------------------
(***************************************************************************)
(* The processes of one directory, Startup, and the bridge an agent talks  *)
(* to, Mcp.  They share no state, so part, chosen once, says which of them *)
(* moves, and the run is the two state spaces side by side.  Startup has   *)
(* two daemons, the second of which has its token from the operator, and   *)
(* one command.                                                            *)
(***************************************************************************)
EXTENDS Startup, Mcp

CONSTANTS
  d1, d2, q1, q2,
  MaxLines  \* of Mcp: bound on the lines of a script

OnePeer == [d \in Daemons |-> IF d = d1 THEN {q1, q2} ELSE {}]

AllScripts == UNION {[1..n -> Kinds] : n \in 0..MaxLines}

VARIABLE part  \* the component that moves

ASSUME PartsAssumption == MaxLines \in Nat

all == <<part, vars, mcpVars>>

NodeInit ==
  /\ part \in {"startup", "mcp"}
  /\ Init /\ (part # "startup" => port = Nobody /\ key = Absent)
  /\ McpInit /\ (part # "mcp" => script = <<>> /\ wakes)

OnlyStartup == part = "startup" /\ UNCHANGED <<part, mcpVars>>
OnlyMcp == part = "mcp" /\ UNCHANGED <<part, vars>>

NodeNext ==
  \/ OnlyStartup /\ Next
  \/ OnlyMcp /\ McpNext

\* The fairness of each specification, for the part that moves.
NodeFairness ==
  /\ \A d \in Daemons : WF_all(OnlyStartup /\ Progress(d)) /\ WF_all(OnlyStartup /\ Dialing(d))
  /\ WF_all(OnlyMcp /\ Reader) /\ WF_all(OnlyMcp /\ Server)

NodeSpec == NodeInit /\ [][NodeNext]_all /\ NodeFairness

-----------------------------------------------------------------------------
\* A daemon gives its lock back, and reaches the peers it was named: the two
\* liveness properties of Startup.
StartupLives == LockComesFree /\ NamedPeersReached

=============================================================================

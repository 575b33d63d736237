-------------------------- MODULE MCPairingCommands --------------------------
(* Instances of PairingCommands for TLC. *)
EXTENDS PairingCommands, FiniteSets, TLC

CONSTANTS c1, c2, p1, r1, r2

Run == {c \in Commands : cmd[c] # FirstCall}
Arrived == {r \in Requests : stage[r] # "none"}

(* Bound: three of the commands and requests take part: two commands and a *)
(* request, or one command and two requests, in the order of their names.  *)
ThreeParts ==
  /\ Cardinality(Run) + Cardinality(Arrived) <= 3
  /\ Run # {} => c1 \in Run
  /\ Arrived # {} => r1 \in Arrived
=============================================================================

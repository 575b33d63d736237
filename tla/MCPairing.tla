------------------------------ MODULE MCPairing ------------------------------
(* Instances of Pairing for TLC. *)
EXTENDS Pairing, TLC

CONSTANTS s1, s2, s3, i1, j1, j2, j3

(* Two joiners on one ticket. *)
OneTicket == s1 :> i1 @@ s2 :> i1
TwoJoiners == s1 :> j1 @@ s2 :> j2

(* A third on the same ticket. *)
SharedTicket == OneTicket @@ s3 :> i1
ThreeJoiners == TwoJoiners @@ s3 :> j3

(* One session. *)
SoleTicket == s1 :> i1
SoleJoiner == s1 :> j1

(* The joiners' sessions can be exchanged when they are alike. *)
Alike == {(s1 :> s1 @@ s2 :> s2 @@ j1 :> j1 @@ j2 :> j2),
          (s1 :> s2 @@ s2 :> s1 @@ j1 :> j2 @@ j2 :> j1)}

(* Bound of the runs with several sessions: behaviours are followed until  *)
(* the first disturbance or failed save; the one-session run explores      *)
(* those.                                                                  *)
Calm == disk = trusted /\ \A s \in Sessions : ~disturbed[s]

(* Bound of the three-session run: the third session is followed until its *)
(* request has been checked.                                               *)
ThirdStops == pc[Ivr(s3)] \in {"idle", "admitted", "done"} /\ pc[Jnr(s3)] # "done"
=============================================================================

----------------------------- MODULE MCMessaging -----------------------------
(* Instances of Messaging for TLC. *)
EXTENDS Messaging, TLC

CONSTANTS k1, k2

(* Bound: the first send to start is k1; the sends can be exchanged. *)
InOrder == pc[k2] # "idle" => pc[k1] # "idle"

(* Bound: after one hit another comes only to a daemon whose unpairing was *)
(* not saved, to bring the trust back.                                     *)
AgainUnsaved == hits' = 2 /\ hits = 1 => \E n \in Daemons : trusted'[n] /\ ~trusted[n]
=============================================================================

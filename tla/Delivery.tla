------------------------------ MODULE Delivery ------------------------------
(***************************************************************************)
(* What sending a text promises, without connections, streams, timers or   *)
(* tasks.  Whoever sends a text is told once how it went, unless the       *)
(* daemon that would tell stops first.  "Sent" is told only of a text that *)
(* its receiver has recorded; "failed" promises nothing: the text may have *)
(* been recorded, or still be.  What is revoked is never recorded.         *)
(***************************************************************************)
CONSTANTS Texts

VARIABLES
  told,      \* told[k]: what the sender of text k knows of it
  recorded,  \* texts their receivers have recorded
  revoked    \* texts their receivers will not take any more

vars == <<told, recorded, revoked>>

Init ==
  /\ told = [k \in Texts |-> "nothing"]
  /\ recorded = {} /\ revoked = {}

Begin(k) ==
  /\ told[k] = "nothing"
  /\ told' = [told EXCEPT ![k] = "sending"]
  /\ UNCHANGED <<recorded, revoked>>

(* A text is recorded once, also after its sender was told of a failure. *)
Record(k) ==
  /\ told[k] # "nothing"
  /\ k \notin recorded \cup revoked
  /\ recorded' = recorded \cup {k}
  /\ UNCHANGED <<told, revoked>>

Tell(k, outcome) ==
  /\ told[k] = "sending"
  /\ outcome = "sent" => k \in recorded
  /\ told' = [told EXCEPT ![k] = outcome]
  /\ UNCHANGED <<recorded, revoked>>

(* A daemon stops: it will not tell the outcome of the texts in K. *)
Forget(K) ==
  /\ \A k \in K : told[k] = "sending"
  /\ told' = [k \in Texts |-> IF k \in K THEN "forgotten" ELSE told[k]]
  /\ UNCHANGED <<recorded, revoked>>

(* A receiver withdraws its trust: none of K has been recorded. *)
Revoke(K) ==
  /\ K \cap recorded = {}
  /\ revoked' = revoked \cup K
  /\ UNCHANGED <<told, recorded>>

Next ==
  \/ \E k \in Texts : Begin(k) \/ Record(k) \/ Tell(k, "sent") \/ Tell(k, "failed")
  \/ \E K \in SUBSET Texts : Forget(K) \/ Revoke(K)

Spec == Init /\ [][Next]_vars
=============================================================================

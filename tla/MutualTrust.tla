----------------------------- MODULE MutualTrust -----------------------------
(***************************************************************************)
(* What pairing promises, without tickets, connections, timers or pending  *)
(* tables.  In every session two sides each announce one decision; a side  *)
(* may end the session as paired only if both announced "yes", as rejected *)
(* only if somebody announced "no", and may end it as failed at any time.  *)
(* The comment on run_confirmation_exchange says it in one sentence:       *)
(* "Trust only ever commits when both sides said yes".                     *)
(***************************************************************************)
CONSTANTS Sessions

Sides == {"inviter", "joiner"}

Ends == Sides \X Sessions

VARIABLES
  said,    \* said[p]: what end p, <<side, session>>, announced
  ending   \* ending[p]: how the session ended for it, "open" until then

vars == <<said, ending>>

Init ==
  /\ said = [p \in Ends |-> "none"]
  /\ ending = [p \in Ends |-> "open"]

(* A side announces its decision, once, while its session is open. *)
Say(p, v) ==
  /\ said[p] = "none"
  /\ ending[p] = "open"
  /\ said' = [said EXCEPT ![p] = v]
  /\ UNCHANGED ending

(* Whether ending e is allowed in session s by what has been announced. *)
Allowed(s, e) ==
  CASE e = "paired"   -> \A y \in Sides : said[<<y, s>>] = "yes"
    [] e = "rejected" -> \E y \in Sides : said[<<y, s>>] = "no"
    [] OTHER          -> TRUE

(* The endings of a set of sides happen together when a process that runs *)
(* several of them stops; one side ending alone is the usual case.        *)
End(P, e) ==
  /\ P # {}
  /\ \A p \in P : ending[p] = "open" /\ Allowed(p[2], e)
  /\ ending' = [p \in Ends |-> IF p \in P THEN e ELSE ending[p]]
  /\ UNCHANGED said

Next ==
  \/ \E p \in Ends, v \in {"yes", "no"} : Say(p, v)
  \/ \E p \in Ends, e \in {"paired", "rejected"} : End({p}, e)
  \/ \E P \in SUBSET Ends : End(P, "failed")

Spec == Init /\ [][Next]_vars
=============================================================================

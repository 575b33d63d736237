------------------------------ MODULE MCProfile ------------------------------
(* Instances of Profile for TLC. *)
EXTENDS Profile, TLC

(* Two endpoints whose users announce the same name, which is cut to make  *)
(* an alias; the user renames to a numbered alias in another case, and to  *)
(* a text that is a prefix of both endpoint ids.                           *)
MCIds == {"ab01", "ab02"}
MCName == "bob, the first and only one of that name"
MCNames == {MCName}
MCNumbered == <<"bob", 2>> :> "bob-2" @@ <<"bob", 3>> :> "bob-3" @@
              <<"bob", 4>> :> "bob-4"
MCNewAliases == {"Bob-2", "ab0"}
MCValid == {"bob"} \cup Range(MCNumbered) \cup MCNewAliases
MCTexts == MCValid \cup {MCName}
MCFold == [t \in MCTexts |-> IF t = "Bob-2" THEN "bob-2" ELSE t]
MCShort == MCName :> "bob"
MCStartsWith == {"ab0"} \X MCIds

(* A process that starts while a daemon runs, and what comes of a start    *)
(* that was overtaken, is followed up to the first pairing.                *)
OverlapsEarly ==
  (overtaken \/ (running /\ \E n \in Starters : stage[n] \in Underway)) => pairings <= 1

(* A third process starts only after the other two raced. *)
ThirdAfterRace == starts = 3 => overtaken /\ \A n \in {1, 2} : stage[n] = "over"
=============================================================================

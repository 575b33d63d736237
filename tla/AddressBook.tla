----------------------------- MODULE AddressBook -----------------------------
(***************************************************************************)
(* What the trusted peers of a daemon promise, without records, texts,     *)
(* files and keys.  A name means one endpoint; an endpoint may have        *)
(* several.  A change is in force at once and on the disk at once or not   *)
(* at all.  A start reads the disk, perhaps while a daemon runs, and       *)
(* brings back what it has read once none does.  The removal of an         *)
(* endpoint takes all its names, and is reported done only when it is on   *)
(* the disk.                                                               *)
(***************************************************************************)
CONSTANTS
  Ids,    \* endpoints
  Names   \* names, up to case

VARIABLES
  up,      \* the daemon runs
  known,   \* the pairs <<name, endpoint>> it trusts
  safe,    \* those on the disk
  removed, \* endpoints whose removal was reported done, not added since
  read     \* what starts under way have read

vars == <<up, known, safe, removed, read>>

Init == up = FALSE /\ known = {} /\ safe = {} /\ removed = {} /\ read = {}

Read == read' = read \cup {safe} /\ UNCHANGED <<up, known, safe, removed>>

(* A start that has read nothing may write that nothing is there. *)
Clear == {} \in read /\ safe' = {} /\ UNCHANGED <<up, known, removed, read>>

(* A start is over; another may have read the same. *)
Drop(k) == k \in read /\ read' \in {read, read \ {k}}

Start ==
  /\ ~up
  /\ up' = TRUE
  /\ Drop(known')
  /\ UNCHANGED <<safe, removed>>

Fail == \E k \in read : Drop(k) /\ UNCHANGED <<up, known, safe, removed>>

Stop ==
  /\ up
  /\ up' = FALSE
  /\ known' = {}
  /\ UNCHANGED <<safe, removed, read>>

(* The book becomes k, in memory and possibly on the disk. *)
Change(k) ==
  /\ up
  /\ known' = k
  /\ safe' \in {safe, k}
  /\ UNCHANGED <<up, read>>

Add(n, id) ==
  /\ \A e \in known : e[1] # n
  /\ Change(known \cup {<<n, id>>})
  /\ removed' = removed \ {id}

(* Entry e gets the name n, which no other endpoint has.  The old name     *)
(* stays if the endpoint was known by it twice.                            *)
Rename(e, n) ==
  /\ \A f \in known : f[1] = n => f[2] = e[2]
  /\ \E old \in {{}, {e}} : Change((known \ old) \cup {<<n, e[2]>>})
  /\ UNCHANGED removed

Remove(id) ==
  /\ \E e \in known : e[2] = id
  /\ Change({e \in known : e[2] # id})
  /\ \/ safe' = known' /\ removed' = removed \cup {id}
     \/ safe' = safe /\ removed' = removed

(* Something else is saved, and the book with it. *)
Save == Change(known) /\ UNCHANGED removed

Next ==
  \/ Read \/ Clear \/ Start \/ Fail \/ Stop \/ Save
  \/ \E id \in Ids : Remove(id) \/ \E n \in Names : Add(n, id)
  \/ \E e \in known, n \in Names : Rename(e, n)

Spec == Init /\ [][Next]_vars
=============================================================================

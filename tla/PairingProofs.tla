---------------------------- MODULE PairingProofs ----------------------------
(* What holds of Pairing for every set of sessions, invites and daemons. *)
EXTENDS Pairing, FiniteSetTheorems, TLAPS

(* Case split of a step by the action that takes it. *)
LEMMA StepCases ==
  ASSUME Next
  PROVE  \/ \E i \in Invites : CreateInvite(i) \/ ExpireInvite(i)
         \/ CancelInvites
         \/ \E s \in Sessions :
              \/ Join(s) \/ Admit(s) \/ Refuse(s) \/ LoseConnection(s)
              \/ OpenPending(s) \/ Reply(s) \/ ReplyFails(s)
              \/ Accepted(s) \/ JoinFails(s)
         \/ \E p \in Ends :
              \/ \E v \in {"yes", "no"} : Answer(p, v)
              \/ Deliver(p) \/ Decide(p) \/ DecideFails(p)
              \/ Receive(p) \/ ReceiveFails(p) \/ ReceiveTimesOut(p)
              \/ FinishDelivered(p) \/ FinishUnacked(p)
         \/ \E d \in Daemons : Restart(d)
  BY DEF Next, InviteStep, InviterTask, JoinerTask, Exchange

(* The ends of a session face each other. *)
LEMMA EndFacts ==
  /\ \A s \in Sessions : /\ Ivr(s) \in Ends /\ Jnr(s) \in Ends
                          /\ Peer(Ivr(s)) = Jnr(s) /\ Peer(Jnr(s)) = Ivr(s)
                          /\ Ivr(s) # Jnr(s)
                          /\ Sess(Ivr(s)) = s /\ Sess(Jnr(s)) = s
  /\ \A p \in Ends : /\ Sess(p) \in Sessions
                     /\ p \in {Ivr(Sess(p)), Jnr(Sess(p))}
                     /\ Peer(p) \in Ends
                     /\ Peer(p) # p
                     /\ Peer(Peer(p)) = p
                     /\ Sess(Peer(p)) = Sess(p)
  BY DEF Ends, Sides, Ivr, Jnr, Peer, Sess, Side

(* Every end runs on a daemon and presents a ticket of an invite. *)
LEMMA HostFacts ==
  ASSUME NEW p \in Ends
  PROVE  /\ Host(p) \in Daemons
         /\ TrustOf(p) \in Daemons \X Daemons
         /\ TrustOf(p)[1] = Host(p)
         /\ TicketOf[Sess(p)] \in Invites
  <1>1. \A q \in Ends : Host(q) \in Daemons
    BY EndFacts, JoinerAssumption DEF Host, Daemons
  <1> QED
    BY <1>1, EndFacts, TicketAssumption DEF TrustOf

-----------------------------------------------------------------------------
(* A step of finish_pairing keeps the types. *)
LEMMA FinishType ==
  ASSUME TypeOK, NEW p \in Ends, Finish(p),
         disturbed' \in [Sessions -> BOOLEAN]
  PROVE  TypeOK'
  <1>1. pc' \in [Ends -> States] /\ pending' \in [Ends -> {"absent", "open", "taken"}]
    BY EndFacts, HostFacts DEF TypeOK, Finish, Forgotten, States
  <1>2. trusted' \subseteq Daemons \X Daemons /\ disk' \subseteq Daemons \X Daemons
    <2>1. trusted' \subseteq Daemons \X Daemons
      BY EndFacts, HostFacts DEF TypeOK, Finish, trustVars
    <2>2. disk' \subseteq disk \cup trusted'
      BY DEF Finish, trustVars
    <2> QED
      BY <2>1, <2>2 DEF TypeOK
  <1>3. active' \subseteq created' /\ conn' \in [Sessions -> {"none", "open", "closed"}]
    BY DEF TypeOK, Finish
  <1> QED
    BY <1>1, <1>2, <1>3 DEF TypeOK, Finish

(* A restart keeps the types. *)
LEMMA RestartType ==
  ASSUME TypeOK, NEW d \in Daemons, Restart(d)
  PROVE  TypeOK'
  <1>1. /\ pc' \in [Ends -> States]
        /\ verdict' \in [Ends -> Verdicts]
        /\ pending' \in [Ends -> {"absent", "open", "taken"}]
    BY DEF TypeOK, Restart, States, Verdicts
  <1>2. /\ conn' \in [Sessions -> {"none", "open", "closed"}]
        /\ disturbed' \in [Sessions -> BOOLEAN]
    BY DEF TypeOK, Restart
  <1>3. trusted' \subseteq Daemons \X Daemons /\ active' \subseteq created'
    BY DEF TypeOK, Restart
  <1>4. crashes' \in 0 .. MaxCrashes
    BY BoundAssumption DEF TypeOK, Restart
  <1> QED
    BY <1>1, <1>2, <1>3, <1>4 DEF TypeOK, Restart

(* Every step keeps the types. *)
LEMMA TypeStep ==
  ASSUME TypeOK, [Next]_vars
  PROVE  TypeOK'
  <1>1. CASE UNCHANGED vars
    BY <1>1 DEF vars, TypeOK
  <1>2. ASSUME NEW i \in Invites, CreateInvite(i) \/ ExpireInvite(i) PROVE TypeOK'
    BY <1>2 DEF TypeOK, CreateInvite, ExpireInvite, trustVars
  <1>3. CASE CancelInvites
    BY <1>3 DEF TypeOK, CancelInvites, trustVars
  <1>4. ASSUME NEW s \in Sessions, Join(s) PROVE TypeOK'
    BY <1>4, EndFacts DEF TypeOK, Join, trustVars, inviteVars, States
  <1>5. ASSUME NEW s \in Sessions, LoseConnection(s) PROVE TypeOK'
    BY <1>5 DEF TypeOK, LoseConnection, trustVars, inviteVars
  <1>6. ASSUME NEW s \in Sessions, Admit(s) PROVE TypeOK'
    <2>1. attempts' \in [Invites -> 0 .. MaxAttempts]
      BY <1>6, TicketAssumption, BoundAssumption
      DEF TypeOK, Admit, Admissible, Counted
    <2> QED
      BY <1>6, <2>1, EndFacts DEF TypeOK, Admit, trustVars, States
  <1>7. ASSUME NEW s \in Sessions, Refuse(s) PROVE TypeOK'
    BY <1>7, EndFacts DEF TypeOK, Refuse, trustVars, inviteVars, States, Verdicts
  <1>8. ASSUME NEW s \in Sessions, OpenPending(s) PROVE TypeOK'
    BY <1>8, EndFacts DEF TypeOK, OpenPending, trustVars, inviteVars, States
  <1>9. ASSUME NEW s \in Sessions, Reply(s) PROVE TypeOK'
    BY <1>9, EndFacts DEF TypeOK, Reply, trustVars, inviteVars, States
  <1>10. ASSUME NEW s \in Sessions, ReplyFails(s) PROVE TypeOK'
    BY <1>10, EndFacts DEF TypeOK, ReplyFails, trustVars, inviteVars, States, Verdicts
  <1>11. ASSUME NEW s \in Sessions, Accepted(s) PROVE TypeOK'
    BY <1>11, EndFacts DEF TypeOK, Accepted, trustVars, inviteVars, States
  <1>12. ASSUME NEW s \in Sessions, JoinFails(s) PROVE TypeOK'
    <2>1. disturbed' \in [Sessions -> BOOLEAN]
      BY <1>12 DEF TypeOK, JoinFails
    <2> QED
      BY <1>12, <2>1, EndFacts
      DEF TypeOK, JoinFails, trustVars, inviteVars, States, Verdicts
  <1>13. ASSUME NEW p \in Ends, NEW v \in {"yes", "no"}, Answer(p, v) PROVE TypeOK'
    BY <1>13 DEF TypeOK, Answer, trustVars, inviteVars
  <1>14. ASSUME NEW p \in Ends, Deliver(p) PROVE TypeOK'
    BY <1>14 DEF TypeOK, Deliver, trustVars, inviteVars
  <1>15. ASSUME NEW p \in Ends, Decide(p) PROVE TypeOK'
    BY <1>15 DEF TypeOK, Decide, LocalDecision, trustVars, inviteVars, States, Verdicts
  <1>16. ASSUME NEW p \in Ends, DecideFails(p) PROVE TypeOK'
    BY <1>16 DEF TypeOK, DecideFails, trustVars, inviteVars, States, Verdicts
  <1>17. ASSUME NEW p \in Ends, Receive(p) PROVE TypeOK'
    BY <1>17 DEF TypeOK, Receive, RemoteVerdict, trustVars, inviteVars, States, Verdicts
  <1>18. ASSUME NEW p \in Ends, ReceiveFails(p) PROVE TypeOK'
    BY <1>18 DEF TypeOK, ReceiveFails, trustVars, inviteVars, States, Verdicts
  <1>19. ASSUME NEW p \in Ends, ReceiveTimesOut(p) PROVE TypeOK'
    BY <1>19, EndFacts
    DEF TypeOK, ReceiveTimesOut, trustVars, inviteVars, States, Verdicts
  <1>20. ASSUME NEW p \in Ends, FinishDelivered(p) PROVE TypeOK'
    BY <1>20, FinishType DEF TypeOK, FinishDelivered
  <1>21. ASSUME NEW p \in Ends, FinishUnacked(p) PROVE TypeOK'
    <2>1. disturbed' \in [Sessions -> BOOLEAN]
      BY <1>21 DEF TypeOK, FinishUnacked
    <2> QED
      BY <1>21, <2>1, FinishType DEF FinishUnacked
  <1>22. ASSUME NEW d \in Daemons, Restart(d) PROVE TypeOK'
    BY <1>22, RestartType
  <1> QED
    BY <1>1, <1>2, <1>3, <1>4, <1>5, <1>6, <1>7, <1>8, <1>9, <1>10, <1>11,
       <1>12, <1>13, <1>14, <1>15, <1>16, <1>17, <1>18, <1>19, <1>20, <1>21,
       <1>22, StepCases

(* The state of the pairing code always has the shape TypeOK says; in      *)
(* particular no attempt counter passes its limit.                         *)
THEOREM TypeCorrect == Safety => []TypeOK
  <1>1. Init => TypeOK
    BY BoundAssumption DEF Init, TypeOK, States, Verdicts, Ends
  <1>2. TypeOK /\ [Next]_vars => TypeOK'
    BY TypeStep
  <1> QED
    BY <1>1, <1>2, PTL DEF Safety

-----------------------------------------------------------------------------
(* Why consent holds.  A decision is written once and only after the       *)
(* exchange began, a yes is written only if the human said yes, and an     *)
(* answer is never replaced because the pending entry gives up its sender. *)
EndInv(p) ==
  /\ pc[p] \in {"idle", "requesting", "admitted"}
       => pending[p] = "absent" /\ vote[p] = "none"
  /\ pending[p] = "open" => vote[p] = "none"
  /\ pc[p] \in {"idle", "requesting", "admitted", "opened", "deciding"}
       => sent[p] = "none"
  /\ pc[p] = "awaiting" => sent[p] = "yes"
  /\ sent[p] = "yes" => vote[p] = "yes"
  /\ arrived[p] => sent[p] # "none"
  /\ verdict[p] = "paired" => sent[p] = "yes" /\ sent[Peer(p)] = "yes"
  /\ verdict[p] = "rejected" => sent[p] = "no" \/ sent[Peer(p)] = "no"

EndsInv == \A p \in Ends : EndInv(p)

LEMMA EndsStep ==
  ASSUME TypeOK, EndsInv, [Next]_vars
  PROVE  EndsInv'
  <1> SUFFICES ASSUME NEW q \in Ends PROVE EndInv(q)'
    BY DEF EndsInv
  <1> USE DEF EndsInv
  <1>1. CASE UNCHANGED vars
    BY <1>1 DEF vars, EndInv
  <1>2. ASSUME NEW i \in Invites, CreateInvite(i) \/ ExpireInvite(i) PROVE EndInv(q)'
    BY <1>2, EndFacts DEF TypeOK, EndInv, CreateInvite, ExpireInvite
  <1>3. CASE CancelInvites
    BY <1>3, EndFacts DEF TypeOK, EndInv, CancelInvites
  <1>4. ASSUME NEW s \in Sessions, Join(s) PROVE EndInv(q)'
    BY <1>4, EndFacts DEF TypeOK, EndInv, Join
  <1>5. ASSUME NEW s \in Sessions, LoseConnection(s) PROVE EndInv(q)'
    BY <1>5, EndFacts DEF TypeOK, EndInv, LoseConnection
  <1>6. ASSUME NEW s \in Sessions, Admit(s) PROVE EndInv(q)'
    BY <1>6, EndFacts DEF TypeOK, EndInv, Admit
  <1>7. ASSUME NEW s \in Sessions, Refuse(s) PROVE EndInv(q)'
    BY <1>7, EndFacts DEF TypeOK, EndInv, Refuse
  <1>8. ASSUME NEW s \in Sessions, OpenPending(s) PROVE EndInv(q)'
    BY <1>8, EndFacts DEF TypeOK, EndInv, OpenPending
  <1>9. ASSUME NEW s \in Sessions, Reply(s) PROVE EndInv(q)'
    BY <1>9, EndFacts DEF TypeOK, EndInv, Reply
  <1>10. ASSUME NEW s \in Sessions, ReplyFails(s) PROVE EndInv(q)'
    BY <1>10, EndFacts DEF TypeOK, EndInv, ReplyFails
  <1>11. ASSUME NEW s \in Sessions, Accepted(s) PROVE EndInv(q)'
    BY <1>11, EndFacts DEF TypeOK, EndInv, Accepted
  <1>12. ASSUME NEW s \in Sessions, JoinFails(s) PROVE EndInv(q)'
    BY <1>12, EndFacts DEF TypeOK, EndInv, JoinFails
  <1>13. ASSUME NEW p \in Ends, NEW v \in {"yes", "no"}, Answer(p, v) PROVE EndInv(q)'
    BY <1>13, EndFacts DEF TypeOK, EndInv, Answer
  <1>14. ASSUME NEW p \in Ends, Deliver(p) PROVE EndInv(q)'
    BY <1>14, EndFacts DEF TypeOK, EndInv, Deliver
  <1>15. ASSUME NEW p \in Ends, Decide(p) PROVE EndInv(q)'
    BY <1>15, EndFacts DEF TypeOK, EndInv, Decide, LocalDecision
  <1>16. ASSUME NEW p \in Ends, DecideFails(p) PROVE EndInv(q)'
    BY <1>16, EndFacts DEF TypeOK, EndInv, DecideFails
  <1>17. ASSUME NEW p \in Ends, Receive(p) PROVE EndInv(q)'
    BY <1>17, EndFacts DEF TypeOK, EndInv, Receive, RemoteVerdict
  <1>18. ASSUME NEW p \in Ends, ReceiveFails(p) PROVE EndInv(q)'
    BY <1>18, EndFacts DEF TypeOK, EndInv, ReceiveFails
  <1>19. ASSUME NEW p \in Ends, ReceiveTimesOut(p) PROVE EndInv(q)'
    BY <1>19, EndFacts DEF TypeOK, EndInv, ReceiveTimesOut
  <1>20. ASSUME NEW p \in Ends, FinishDelivered(p) PROVE EndInv(q)'
    BY <1>20, EndFacts DEF TypeOK, EndInv, FinishDelivered, Finish, Forgotten
  <1>21. ASSUME NEW p \in Ends, FinishUnacked(p) PROVE EndInv(q)'
    BY <1>21, EndFacts DEF TypeOK, EndInv, FinishUnacked, Finish, Forgotten
  <1>22. ASSUME NEW d \in Daemons, Restart(d) PROVE EndInv(q)'
    BY <1>22, EndFacts DEF TypeOK, EndInv, Restart, RunningOn
  <1> QED
    BY <1>1, <1>2, <1>3, <1>4, <1>5, <1>6, <1>7, <1>8, <1>9, <1>10, <1>11,
       <1>12, <1>13, <1>14, <1>15, <1>16, <1>17, <1>18, <1>19, <1>20, <1>21,
       <1>22, StepCases

(* An accepted yes stays. *)
LEMMA YesStays ==
  ASSUME TypeOK, EndsInv, [Next]_vars, NEW q \in Ends, vote[q] = "yes"
  PROVE  vote'[q] = "yes"
  <1>1. CASE UNCHANGED vars
    BY <1>1 DEF vars
  <1>2. ASSUME NEW p \in Ends, NEW v \in {"yes", "no"}, Answer(p, v)
        PROVE vote'[q] = "yes"
    BY <1>2 DEF TypeOK, EndsInv, EndInv, Answer
  <1>3. ASSUME Next, ~\E p \in Ends, v \in {"yes", "no"} : Answer(p, v)
        PROVE vote' = vote
    BY <1>3, StepCases
    DEF CreateInvite, ExpireInvite, CancelInvites, Join, Admit, Refuse,
        LoseConnection, OpenPending, Reply, ReplyFails, Accepted, JoinFails,
        Deliver, Decide, DecideFails, Receive, ReceiveFails, ReceiveTimesOut,
        FinishDelivered, FinishUnacked, Finish, Restart
  <1> QED
    BY <1>1, <1>2, <1>3

(* Trust appears only when a paired session is finished. *)
LEMMA TrustStep ==
  ASSUME TypeOK, [Next]_vars, NEW e \in (trusted \cup disk)'
  PROVE  \/ e \in trusted \cup disk
         \/ \E p \in Ends : verdict[p] = "paired" /\ e = TrustOf(p)
  <1>1. CASE UNCHANGED vars
    BY <1>1 DEF vars
  <1>2. ASSUME NEW p \in Ends, Finish(p)
        PROVE e \in trusted \cup disk \/ (verdict[p] = "paired" /\ e = TrustOf(p))
    <2>1. CASE verdict[p] = "paired"
      BY <1>2, <2>1 DEF Finish
    <2>2. CASE verdict[p] # "paired"
      BY <1>2, <2>2 DEF Finish, trustVars
    <2> QED
      BY <2>1, <2>2
  <1>3. ASSUME NEW d \in Daemons, Restart(d) PROVE e \in trusted \cup disk
    BY <1>3 DEF Restart
  <1>4. ASSUME Next, ~\E p \in Ends : Finish(p), ~\E d \in Daemons : Restart(d)
        PROVE UNCHANGED <<trusted, disk>>
    BY <1>4, StepCases
    DEF CreateInvite, ExpireInvite, CancelInvites, Join, Admit, Refuse,
        LoseConnection, OpenPending, Reply, ReplyFails, Accepted, JoinFails,
        Answer, Deliver, Decide, DecideFails, Receive, ReceiveFails,
        ReceiveTimesOut, FinishDelivered, FinishUnacked, trustVars
  <1> QED
    BY <1>1, <1>2, <1>3, <1>4

LEMMA ConsentStep ==
  ASSUME TypeOK, EndsInv, MutualConsent, [Next]_vars
  PROVE  MutualConsent'
  <1> SUFFICES ASSUME NEW e \in (trusted \cup disk)'
               PROVE \E p \in Ends : /\ e = TrustOf(p)
                                     /\ vote'[p] = "yes"
                                     /\ vote'[Peer(p)] = "yes"
    BY DEF MutualConsent, TrustOf, Host, Peer, Side, Sess, Ivr, Jnr
  <1>1. PICK p \in Ends : e = TrustOf(p) /\ vote[p] = "yes" /\ vote[Peer(p)] = "yes"
    <2>1. CASE e \in trusted \cup disk
      BY <2>1 DEF MutualConsent
    <2>2. ASSUME NEW p \in Ends, verdict[p] = "paired", e = TrustOf(p)
          PROVE vote[p] = "yes" /\ vote[Peer(p)] = "yes"
      BY <2>2, EndFacts DEF EndsInv, EndInv
    <2> QED
      BY <2>1, <2>2, TrustStep
  <1> QED
    BY <1>1, YesStays, EndFacts

ConsentInv == TypeOK /\ EndsInv /\ MutualConsent

LEMMA ConsentInvariant == Safety => []ConsentInv
  <1>1. Init => ConsentInv
    <2> SUFFICES ASSUME Init PROVE ConsentInv
      OBVIOUS
    <2>1. TypeOK
      BY BoundAssumption DEF Init, TypeOK, States, Verdicts, Ends
    <2>2. EndsInv /\ MutualConsent
      BY EndFacts DEF Init, EndsInv, EndInv, MutualConsent
    <2> QED
      BY <2>1, <2>2 DEF ConsentInv
  <1>2. ConsentInv /\ [Next]_vars => ConsentInv'
    BY TypeStep, EndsStep, ConsentStep DEF ConsentInv
  <1> QED
    BY <1>1, <1>2, PTL DEF Safety

(* However timers, losses and restarts interleave, no daemon ever trusts   *)
(* another, in memory or on disk, without a yes of both humans in one      *)
(* session.                                                                *)
THEOREM Consent == Safety => []MutualConsent
  <1>1. ConsentInv => MutualConsent
    BY DEF ConsentInv
  <1> QED
    BY <1>1, ConsentInvariant, PTL

(* A session is never paired for one human and rejected for the other. *)
THEOREM NoSplit == Safety => []NoSplitVerdict
  <1>1. ConsentInv => NoSplitVerdict
    BY EndFacts DEF ConsentInv, EndsInv, EndInv, NoSplitVerdict
  <1> QED
    BY <1>1, ConsentInvariant, PTL

-----------------------------------------------------------------------------
(* Why consent leads to trust when nothing disturbs a session.  A verdict  *)
(* is there exactly when the exchange is over, and an end that never wrote *)
(* a confirm has none of the outcomes of an exchange.                      *)
VerdictInv(p) ==
  /\ verdict[p] = "none" <=> pc[p] \notin {"settled", "done"}
  /\ verdict[p] \in {"refused", "unreplied"} => sent[p] = "none"

(* The joiner's end is the one that drops the connection, at its finish,   *)
(* and it waits until its confirm has arrived or is of no use: an inviter  *)
(* that said yes fails only on a joiner that did not.                      *)
SessionInv(s) ==
  ~disturbed[s] =>
    /\ conn[s] = "closed" => pc[Jnr(s)] = "done"
    /\ (pc[Jnr(s)] = "done" /\ sent[Jnr(s)] = "yes")
         => (arrived[Jnr(s)] \/ pc[Ivr(s)] = "done")
    /\ verdict[Jnr(s)] = "failed" => sent[Jnr(s)] # "yes"
    /\ (verdict[Ivr(s)] = "failed" /\ sent[Ivr(s)] = "yes")
         => (pc[Jnr(s)] = "done" /\ sent[Jnr(s)] # "yes")
    /\ verdict[Ivr(s)] # "lost" /\ verdict[Jnr(s)] # "lost"

UndisturbedInv ==
  /\ \A p \in Ends : VerdictInv(p)
  /\ \A s \in Sessions : SessionInv(s)

LEMMA VerdictStep ==
  ASSUME TypeOK, EndsInv, UndisturbedInv, [Next]_vars, NEW q \in Ends
  PROVE  VerdictInv(q)'
  <1>0. EndInv(q) /\ VerdictInv(q)
    BY DEF EndsInv, UndisturbedInv
  <1>1. CASE UNCHANGED vars
    BY <1>0, <1>1 DEF vars, VerdictInv
  <1>2. ASSUME NEW i \in Invites, CreateInvite(i) \/ ExpireInvite(i) PROVE VerdictInv(q)'
    BY <1>2, <1>0, EndFacts DEF TypeOK, EndInv, VerdictInv, CreateInvite, ExpireInvite
  <1>3. CASE CancelInvites
    BY <1>3, <1>0, EndFacts DEF TypeOK, EndInv, VerdictInv, CancelInvites
  <1>4. ASSUME NEW t \in Sessions, Join(t) PROVE VerdictInv(q)'
    BY <1>4, <1>0, EndFacts DEF TypeOK, EndInv, VerdictInv, Join
  <1>5. ASSUME NEW t \in Sessions, LoseConnection(t) PROVE VerdictInv(q)'
    BY <1>5, <1>0, EndFacts DEF TypeOK, EndInv, VerdictInv, LoseConnection
  <1>6. ASSUME NEW t \in Sessions, Admit(t) PROVE VerdictInv(q)'
    BY <1>6, <1>0, EndFacts DEF TypeOK, EndInv, VerdictInv, Admit
  <1>7. ASSUME NEW t \in Sessions, Refuse(t) PROVE VerdictInv(q)'
    BY <1>7, <1>0, EndFacts DEF TypeOK, EndInv, VerdictInv, Refuse
  <1>8. ASSUME NEW t \in Sessions, OpenPending(t) PROVE VerdictInv(q)'
    BY <1>8, <1>0, EndFacts DEF TypeOK, EndInv, VerdictInv, OpenPending
  <1>9. ASSUME NEW t \in Sessions, Reply(t) PROVE VerdictInv(q)'
    BY <1>9, <1>0, EndFacts DEF TypeOK, EndInv, VerdictInv, Reply
  <1>10. ASSUME NEW t \in Sessions, ReplyFails(t) PROVE VerdictInv(q)'
    BY <1>10, <1>0, EndFacts DEF TypeOK, EndInv, VerdictInv, ReplyFails
  <1>11. ASSUME NEW t \in Sessions, Accepted(t) PROVE VerdictInv(q)'
    BY <1>11, <1>0, EndFacts DEF TypeOK, EndInv, VerdictInv, Accepted
  <1>12. ASSUME NEW t \in Sessions, JoinFails(t) PROVE VerdictInv(q)'
    BY <1>12, <1>0, EndFacts DEF TypeOK, EndInv, VerdictInv, JoinFails
  <1>13. ASSUME NEW p \in Ends, NEW v \in {"yes", "no"}, Answer(p, v) PROVE VerdictInv(q)'
    BY <1>13, <1>0, EndFacts DEF TypeOK, EndInv, VerdictInv, Answer
  <1>14. ASSUME NEW p \in Ends, Deliver(p) PROVE VerdictInv(q)'
    BY <1>14, <1>0, EndFacts DEF TypeOK, EndInv, VerdictInv, Deliver
  <1>15. ASSUME NEW p \in Ends, Decide(p) PROVE VerdictInv(q)'
    BY <1>15, <1>0, EndFacts DEF TypeOK, EndInv, VerdictInv, Decide, LocalDecision
  <1>16. ASSUME NEW p \in Ends, DecideFails(p) PROVE VerdictInv(q)'
    BY <1>16, <1>0, EndFacts DEF TypeOK, EndInv, VerdictInv, DecideFails
  <1>17. ASSUME NEW p \in Ends, Receive(p) PROVE VerdictInv(q)'
    BY <1>17, <1>0, EndFacts DEF TypeOK, EndInv, VerdictInv, Receive, RemoteVerdict
  <1>18. ASSUME NEW p \in Ends, ReceiveFails(p) PROVE VerdictInv(q)'
    BY <1>18, <1>0, EndFacts DEF TypeOK, EndInv, VerdictInv, ReceiveFails
  <1>19. ASSUME NEW p \in Ends, ReceiveTimesOut(p) PROVE VerdictInv(q)'
    BY <1>19, <1>0, EndFacts DEF TypeOK, EndInv, VerdictInv, ReceiveTimesOut
  <1>20. ASSUME NEW p \in Ends, FinishDelivered(p) PROVE VerdictInv(q)'
    BY <1>20, <1>0, EndFacts
    DEF TypeOK, EndInv, VerdictInv, FinishDelivered, Finish, Forgotten
  <1>21. ASSUME NEW p \in Ends, FinishUnacked(p) PROVE VerdictInv(q)'
    BY <1>21, <1>0, EndFacts
    DEF TypeOK, EndInv, VerdictInv, FinishUnacked, Finish, Forgotten
  <1>22. ASSUME NEW d \in Daemons, Restart(d) PROVE VerdictInv(q)'
    BY <1>22, <1>0, EndFacts DEF TypeOK, EndInv, VerdictInv, Restart, RunningOn
  <1> QED
    BY <1>1, <1>2, <1>3, <1>4, <1>5, <1>6, <1>7, <1>8, <1>9, <1>10, <1>11,
       <1>12, <1>13, <1>14, <1>15, <1>16, <1>17, <1>18, <1>19, <1>20, <1>21,
       <1>22, StepCases

LEMMA SessionStep ==
  ASSUME TypeOK, EndsInv, UndisturbedInv, [Next]_vars, NEW s \in Sessions
  PROVE  SessionInv(s)'
  <1>0. /\ EndInv(Ivr(s)) /\ EndInv(Jnr(s)) /\ VerdictInv(Ivr(s)) /\ VerdictInv(Jnr(s))
        /\ SessionInv(s)
    BY EndFacts DEF EndsInv, UndisturbedInv
  <1>1. CASE UNCHANGED vars
    BY <1>0, <1>1 DEF vars, SessionInv
  <1>2. ASSUME NEW i \in Invites, CreateInvite(i) \/ ExpireInvite(i) PROVE SessionInv(s)'
    BY <1>2, <1>0, EndFacts
    DEF TypeOK, EndInv, VerdictInv, SessionInv, CreateInvite, ExpireInvite
  <1>3. CASE CancelInvites
    BY <1>3, <1>0, EndFacts DEF TypeOK, EndInv, VerdictInv, SessionInv, CancelInvites
  <1>4. ASSUME NEW t \in Sessions, Join(t) PROVE SessionInv(s)'
    BY <1>4, <1>0, EndFacts DEF TypeOK, EndInv, VerdictInv, SessionInv, Join
  <1>5. ASSUME NEW t \in Sessions, LoseConnection(t) PROVE SessionInv(s)'
    BY <1>5, <1>0, EndFacts DEF TypeOK, EndInv, VerdictInv, SessionInv, LoseConnection
  <1>6. ASSUME NEW t \in Sessions, Admit(t) PROVE SessionInv(s)'
    BY <1>6, <1>0, EndFacts DEF TypeOK, EndInv, VerdictInv, SessionInv, Admit
  <1>7. ASSUME NEW t \in Sessions, Refuse(t) PROVE SessionInv(s)'
    BY <1>7, <1>0, EndFacts DEF TypeOK, EndInv, VerdictInv, SessionInv, Refuse
  <1>8. ASSUME NEW t \in Sessions, OpenPending(t) PROVE SessionInv(s)'
    BY <1>8, <1>0, EndFacts DEF TypeOK, EndInv, VerdictInv, SessionInv, OpenPending
  <1>9. ASSUME NEW t \in Sessions, Reply(t) PROVE SessionInv(s)'
    BY <1>9, <1>0, EndFacts DEF TypeOK, EndInv, VerdictInv, SessionInv, Reply
  <1>10. ASSUME NEW t \in Sessions, ReplyFails(t) PROVE SessionInv(s)'
    BY <1>10, <1>0, EndFacts DEF TypeOK, EndInv, VerdictInv, SessionInv, ReplyFails
  <1>11. ASSUME NEW t \in Sessions, Accepted(t) PROVE SessionInv(s)'
    BY <1>11, <1>0, EndFacts DEF TypeOK, EndInv, VerdictInv, SessionInv, Accepted
  <1>12. ASSUME NEW t \in Sessions, JoinFails(t) PROVE SessionInv(s)'
    BY <1>12, <1>0, EndFacts DEF TypeOK, EndInv, VerdictInv, SessionInv, JoinFails
  <1>13. ASSUME NEW p \in Ends, NEW v \in {"yes", "no"}, Answer(p, v) PROVE SessionInv(s)'
    BY <1>13, <1>0, EndFacts DEF TypeOK, EndInv, VerdictInv, SessionInv, Answer
  <1>14. ASSUME NEW p \in Ends, Deliver(p) PROVE SessionInv(s)'
    BY <1>14, <1>0, EndFacts DEF TypeOK, EndInv, VerdictInv, SessionInv, Deliver
  <1>15. ASSUME NEW p \in Ends, Decide(p) PROVE SessionInv(s)'
    BY <1>15, <1>0, EndFacts
    DEF TypeOK, EndInv, VerdictInv, SessionInv, Decide, LocalDecision
  <1>16. ASSUME NEW p \in Ends, DecideFails(p) PROVE SessionInv(s)'
    BY <1>16, <1>0, EndFacts DEF TypeOK, EndInv, VerdictInv, SessionInv, DecideFails
  <1>17. ASSUME NEW p \in Ends, Receive(p) PROVE SessionInv(s)'
    BY <1>17, <1>0, EndFacts
    DEF TypeOK, EndInv, VerdictInv, SessionInv, Receive, RemoteVerdict
  <1>18. ASSUME NEW p \in Ends, ReceiveFails(p) PROVE SessionInv(s)'
    BY <1>18, <1>0, EndFacts DEF TypeOK, EndInv, VerdictInv, SessionInv, ReceiveFails
  <1>19. ASSUME NEW p \in Ends, ReceiveTimesOut(p) PROVE SessionInv(s)'
    BY <1>19, <1>0, EndFacts DEF TypeOK, EndInv, VerdictInv, SessionInv, ReceiveTimesOut
  <1>20. ASSUME NEW p \in Ends, FinishDelivered(p) PROVE SessionInv(s)'
    <2> SUFFICES ASSUME ~disturbed'[s] PROVE SessionInv(s)'
      BY DEF SessionInv
    <2>1. /\ pc[p] = "settled" /\ pc' = [pc EXCEPT ![p] = "done"]
          /\ conn' = [conn EXCEPT ![Sess(p)] = IF Side(p) = "joiner" THEN "closed" ELSE @]
          /\ verdict[p] = "failed" \/ arrived[p] \/ conn[Sess(p)] = "closed" \/ pc[Peer(p)] = "done"
          /\ UNCHANGED <<sent, arrived, verdict, disturbed>>
      BY <1>20 DEF FinishDelivered, Finish, ConfirmSettled, PeerGone
    <2>2. pc \in [Ends -> States] /\ conn \in [Sessions -> {"none", "open", "closed"}]
      BY DEF TypeOK
    <2>3. CASE Sess(p) # s
      <3>1. p # Ivr(s) /\ p # Jnr(s)
        BY <2>3, EndFacts
      <3>2. pc'[Ivr(s)] = pc[Ivr(s)] /\ pc'[Jnr(s)] = pc[Jnr(s)] /\ conn'[s] = conn[s]
        BY <2>1, <2>2, <2>3, <3>1, EndFacts
      <3> QED
        BY <1>0, <2>1, <3>2 DEF SessionInv
    <2>4. CASE p = Ivr(s)
      <3>1. Side(p) = "inviter"
        BY <2>4 DEF Side, Ivr
      <3>2. pc'[Ivr(s)] = "done" /\ pc'[Jnr(s)] = pc[Jnr(s)] /\ conn'[s] = conn[s]
        BY <2>1, <2>2, <2>4, <3>1, EndFacts
      <3> QED
        BY <1>0, <2>1, <3>2 DEF SessionInv
    <2>5. CASE p = Jnr(s)
      <3>1. pc'[Jnr(s)] = "done" /\ pc'[Ivr(s)] = pc[Ivr(s)]
        BY <2>1, <2>2, <2>5, EndFacts
      <3>2. \/ verdict[Jnr(s)] = "failed" \/ arrived[Jnr(s)]
            \/ conn[s] = "closed" \/ pc[Ivr(s)] = "done"
        BY <2>1, <2>5, EndFacts
      <3>3. conn[s] # "closed"
        BY <1>0, <2>1, <2>5 DEF SessionInv
      <3> QED
        BY <1>0, <2>1, <3>1, <3>2, <3>3 DEF SessionInv
    <2> QED
      BY <2>3, <2>4, <2>5, EndFacts
  <1>21. ASSUME NEW p \in Ends, FinishUnacked(p) PROVE SessionInv(s)'
    BY <1>21, <1>0, EndFacts
    DEF TypeOK, EndInv, VerdictInv, SessionInv, FinishUnacked, Finish, Forgotten
  <1>22. ASSUME NEW d \in Daemons, Restart(d) PROVE SessionInv(s)'
    BY <1>22, <1>0, EndFacts
    DEF TypeOK, EndInv, VerdictInv, SessionInv, Restart, RunningOn
  <1> QED
    BY <1>1, <1>2, <1>3, <1>4, <1>5, <1>6, <1>7, <1>8, <1>9, <1>10, <1>11,
       <1>12, <1>13, <1>14, <1>15, <1>16, <1>17, <1>18, <1>19, <1>20, <1>21,
       <1>22, StepCases

LEMMA UndisturbedInvariant == Safety => [](ConsentInv /\ UndisturbedInv)
  <1>1. Init => UndisturbedInv
    BY EndFacts DEF Init, UndisturbedInv, VerdictInv, SessionInv
  <1>2. ConsentInv /\ UndisturbedInv /\ [Next]_vars => UndisturbedInv'
    BY VerdictStep, SessionStep DEF ConsentInv, UndisturbedInv
  <1> QED
    BY <1>1, <1>2, ConsentInvariant, PTL DEF Safety

(* When both humans have said yes and no timer, loss or restart hit their  *)
(* session, an end that has finished is paired: the connection is not      *)
(* dropped before the other side can read the last confirm.                *)
THEOREM ConsentPairs == Safety => []UndisturbedConsentPairs
  <1>1. ConsentInv /\ UndisturbedInv => UndisturbedConsentPairs
    <2> SUFFICES ASSUME ConsentInv, UndisturbedInv, NEW s \in Sessions, ~disturbed[s],
                        \A q \in EndsOf(s) : sent[q] = "yes",
                        NEW p \in EndsOf(s), pc[p] = "done"
                 PROVE  verdict[p] = "paired"
      BY DEF UndisturbedConsentPairs
    <2>1. /\ p \in {Ivr(s), Jnr(s)} /\ p \in Ends /\ Peer(p) \in {Ivr(s), Jnr(s)}
          /\ sent[Ivr(s)] = "yes" /\ sent[Jnr(s)] = "yes"
      BY EndFacts DEF EndsOf
    <2>2. EndInv(p) /\ VerdictInv(p) /\ SessionInv(s) /\ verdict[p] \in Verdicts
      BY <2>1 DEF ConsentInv, TypeOK, EndsInv, UndisturbedInv
    <2>3. verdict[p] \notin {"none", "refused", "unreplied", "lost"}
      BY <2>1, <2>2 DEF VerdictInv, SessionInv
    <2>4. verdict[p] # "rejected"
      BY <2>1, <2>2 DEF EndInv
    <2>5. verdict[p] # "failed"
      BY <2>1, <2>2 DEF SessionInv
    <2> QED
      BY <2>2, <2>3, <2>4, <2>5 DEF Verdicts
  <1> QED
    BY <1>1, UndisturbedInvariant, PTL

-----------------------------------------------------------------------------
(* Pairing implements MutualTrust.                                         *)

(* The steps that leave what was announced and how sessions ended alone. *)
LEMMA Stutters ==
  ASSUME TypeOK, UNCHANGED sent,
         \A q \in Ends : pc'[q] = "done" <=> pc[q] = "done",
         \A q \in Ends : pc[q] = "done" => verdict'[q] = verdict[q]
  PROVE  UNCHANGED <<sent, Ending>>
  BY DEF Ending

(* One end of a session ends alone. *)
LEMMA EndsAlone ==
  ASSUME TypeOK, UNCHANGED sent, NEW p \in Ends, pc[p] # "done",
         pc' = [pc EXCEPT ![p] = "done"],
         \A q \in Ends : q # p => verdict'[q] = verdict[q],
         NEW e, e = Ending'[p],
         MT!Allowed(Sess(p), e)
  PROVE  MT!End({p}, e)
  <1>1. \A q \in {p} : Ending[q] = "open" /\ MT!Allowed(q[2], e)
    BY DEF Ending, Sess
  <1>2. \A q \in Ends : q # p => Ending'[q] = Ending[q]
    BY DEF Ending, TypeOK
  <1>3. Ending' = [q \in Ends |-> Ending'[q]]
    BY DEF Ending
  <1>4. Ending' = [q \in Ends |-> IF q \in {p} THEN e ELSE Ending[q]]
    BY <1>2, <1>3
  <1> QED
    BY <1>1, <1>4 DEF MT!End, MT!Ends, MT!Sides, Ends, Sides

(* What counts as a step of MutualTrust. *)
LEMMA AbstractSteps ==
  /\ \A p \in Ends, v \in {"yes", "no"} : MT!Say(p, v) => MT!Next
  /\ \A p \in Ends, e \in {"paired", "rejected", "failed"} : MT!End({p}, e) => MT!Next
  /\ \A P \in SUBSET Ends : MT!End(P, "failed") => MT!Next
  <1>1. Ends = MT!Ends
    BY DEF Ends, MT!Ends, Sides, MT!Sides
  <1>2. \A p \in Ends : {p} \in SUBSET Ends
    OBVIOUS
  <1> QED
    BY <1>1, <1>2 DEF MT!Next

LEMMA RefinementStep ==
  ASSUME TypeOK, EndsInv, [Next]_vars
  PROVE  [MT!Next]_<<sent, Ending>>
  <1>1. CASE UNCHANGED vars
    BY <1>1, Stutters DEF vars
  <1>2. ASSUME NEW i \in Invites, CreateInvite(i) \/ ExpireInvite(i)
        PROVE UNCHANGED <<sent, Ending>>
    BY <1>2, Stutters DEF CreateInvite, ExpireInvite
  <1>3. CASE CancelInvites
    BY <1>3, Stutters DEF CancelInvites
  <1>4. ASSUME NEW s \in Sessions,
               Join(s) \/ Admit(s) \/ LoseConnection(s) \/ OpenPending(s)
                 \/ Reply(s) \/ Accepted(s)
        PROVE UNCHANGED <<sent, Ending>>
    BY <1>4, Stutters, EndFacts
    DEF TypeOK, Join, Admit, LoseConnection, OpenPending, Reply, Accepted
  <1>5. ASSUME NEW s \in Sessions, Refuse(s) \/ ReplyFails(s)
        PROVE MT!End({Ivr(s)}, "failed")
    <2>1. Ending'[Ivr(s)] = "failed"
      BY <1>5, EndFacts DEF TypeOK, Refuse, ReplyFails, Ending
    <2>2. MT!Allowed(Sess(Ivr(s)), "failed")
      BY DEF MT!Allowed
    <2> QED
      BY <1>5, <2>1, <2>2, EndsAlone, EndFacts DEF TypeOK, Refuse, ReplyFails
  <1>6. ASSUME NEW s \in Sessions, JoinFails(s)
        PROVE MT!End({Jnr(s)}, "failed")
    <2>1. Ending'[Jnr(s)] = "failed"
      BY <1>6, EndFacts DEF TypeOK, JoinFails, Ending
    <2>2. MT!Allowed(Sess(Jnr(s)), "failed")
      BY DEF MT!Allowed
    <2> QED
      BY <1>6, <2>1, <2>2, EndsAlone, EndFacts DEF TypeOK, JoinFails
  <1>7. ASSUME NEW p \in Ends,
               \/ \E v \in {"yes", "no"} : Answer(p, v)
               \/ Deliver(p) \/ DecideFails(p) \/ Receive(p)
               \/ ReceiveFails(p) \/ ReceiveTimesOut(p)
        PROVE UNCHANGED <<sent, Ending>>
    BY <1>7, Stutters
    DEF TypeOK, Answer, Deliver, DecideFails, Receive, ReceiveFails, ReceiveTimesOut
  <1>8. ASSUME NEW p \in Ends, Decide(p)
        PROVE \E v \in {"yes", "no"} : MT!Say(p, v)
    <2>1. sent[p] = "none" /\ Ending[p] = "open"
      BY <1>8 DEF EndsInv, EndInv, Decide, Ending
    <2>2. UNCHANGED Ending
      BY <1>8 DEF TypeOK, Decide, Ending
    <2>3. LocalDecision(p) \in {"yes", "no"}
      BY DEF TypeOK, LocalDecision
    <2> QED
      BY <1>8, <2>1, <2>2, <2>3 DEF Decide, MT!Say
  <1>9. ASSUME NEW p \in Ends, FinishDelivered(p) \/ FinishUnacked(p)
        PROVE \E e \in {"paired", "rejected", "failed"} : MT!End({p}, e)
    <2> DEFINE e == Ending'[p]
    <2>1. /\ pc[p] # "done"
          /\ UNCHANGED <<sent, verdict>>
          /\ pc' = [pc EXCEPT ![p] = "done"]
      BY <1>9 DEF FinishDelivered, FinishUnacked, Finish
    <2>2. e \in {"paired", "rejected", "failed"}
      BY <2>1 DEF TypeOK, Ending
    <2>3. MT!Allowed(Sess(p), e)
      <3>1. CASE e = "paired"
        <4>1. sent[p] = "yes" /\ sent[Peer(p)] = "yes"
          BY <2>1, <3>1 DEF TypeOK, Ending, EndsInv, EndInv
        <4> QED
          BY <3>1, <4>1, EndFacts
          DEF MT!Allowed, MT!Sides, Ends, Sides, Ivr, Jnr, Peer, Sess, Side
      <3>2. CASE e = "rejected"
        <4>1. sent[p] = "no" \/ sent[Peer(p)] = "no"
          BY <2>1, <3>2 DEF TypeOK, Ending, EndsInv, EndInv
        <4> QED
          BY <3>2, <4>1, EndFacts
          DEF MT!Allowed, MT!Sides, Ends, Sides, Ivr, Jnr, Peer, Sess, Side
      <3>3. CASE e = "failed"
        BY <3>3 DEF MT!Allowed
      <3> QED
        BY <2>2, <3>1, <3>2, <3>3
    <2> HIDE DEF e
    <2> QED
      BY <2>1, <2>2, <2>3, EndsAlone DEF e
  <1>10. ASSUME NEW d \in Daemons, Restart(d)
         PROVE UNCHANGED <<sent, Ending>> \/ MT!End(RunningOn(d), "failed")
    <2>1. /\ UNCHANGED sent
          /\ Ending' = [q \in Ends |-> IF q \in RunningOn(d) THEN "failed" ELSE Ending[q]]
      BY <1>10 DEF TypeOK, Restart, Ending
    <2>2. CASE RunningOn(d) = {}
      BY <2>1, <2>2 DEF Ending
    <2>3. CASE RunningOn(d) # {}
      <3>1. \A q \in RunningOn(d) : Ending[q] = "open" /\ MT!Allowed(q[2], "failed")
        BY DEF RunningOn, Ending, MT!Allowed
      <3> QED
        BY <2>1, <2>3, <3>1 DEF MT!End, MT!Ends, MT!Sides, Ends, Sides
    <2> QED
      BY <2>2, <2>3
  <1> QED
    <2>1. \A s \in Sessions : MT!End({Ivr(s)}, "failed") => MT!Next
      BY AbstractSteps, EndFacts
    <2>2. \A s \in Sessions : MT!End({Jnr(s)}, "failed") => MT!Next
      BY AbstractSteps, EndFacts
    <2>3. \A p \in Ends, v \in {"yes", "no"} : MT!Say(p, v) => MT!Next
      BY AbstractSteps
    <2>4. \A p \in Ends, e \in {"paired", "rejected", "failed"} : MT!End({p}, e) => MT!Next
      BY AbstractSteps
    <2>5. \A d \in Daemons : MT!End(RunningOn(d), "failed") => MT!Next
      BY AbstractSteps DEF RunningOn
    <2>6. Next => MT!Next \/ UNCHANGED <<sent, Ending>>
      BY <1>2, <1>3, <1>4, <1>5, <1>6, <1>7, <1>8, <1>9, <1>10, <2>1, <2>2,
         <2>3, <2>4, <2>5, StepCases
    <2> QED
      BY <1>1, <2>6

(* Two daemons running the pairing code are a MutualTrust: whatever the    *)
(* network and the humans do, a side ends as paired only after both        *)
(* announced yes and as rejected only after somebody announced no.         *)
THEOREM PairingImplementsMutualTrust == Safety => ImplementsMutualTrust
  <1>1. Init => MT!Init
    BY DEF Init, MT!Init, Ending, Ends, MT!Ends, Sides, MT!Sides
  <1>2. ConsentInv /\ [Next]_vars => [MT!Next]_<<sent, Ending>>
    BY RefinementStep DEF ConsentInv
  <1> QED
    BY <1>1, <1>2, ConsentInvariant, PTL
    DEF Safety, ImplementsMutualTrust, MT!Spec, MT!vars

(* What a side has announced, and how its session has ended, it never      *)
(* takes back.                                                             *)
SettledForGood ==
  [][\A p \in Ends : /\ sent[p] # "none" => sent'[p] = sent[p]
                     /\ Ending[p] # "open" => Ending'[p] = Ending[p]]_vars

(* A pairing that has been settled stays settled: no late answer, confirm, *)
(* timer or restart of either daemon changes what run_confirmation_exchange *)
(* has written or how the session ended for a side.                        *)
THEOREM SettledIsFinal == Safety => SettledForGood
  <1> DEFINE F == \A p \in Ends : /\ sent[p] # "none" => sent'[p] = sent[p]
                                  /\ Ending[p] # "open" => Ending'[p] = Ending[p]
  <1>1. Ends = MT!Ends
    BY DEF Ends, MT!Ends, Sides, MT!Sides
  <1>2. ASSUME TypeOK, MT!Next PROVE F
    <2>1. ASSUME NEW p \in Ends, NEW v \in {"yes", "no"}, MT!Say(p, v) PROVE F
      BY <1>2, <2>1 DEF MT!Say, TypeOK
    <2>2. ASSUME NEW P \in SUBSET Ends, NEW e, MT!End(P, e) PROVE F
      BY <1>1, <2>2 DEF MT!End
    <2>3. \A p \in Ends : {p} \in SUBSET Ends
      OBVIOUS
    <2> QED
      BY <1>1, <1>2, <2>1, <2>2, <2>3 DEF MT!Next
  <1>3. ASSUME ConsentInv, [Next]_vars PROVE F
    <2>1. TypeOK /\ [MT!Next]_<<sent, Ending>>
      BY <1>3, RefinementStep DEF ConsentInv
    <2> QED
      BY <1>2, <2>1
  <1>4. ConsentInv /\ [Next]_vars => [F]_vars
    BY <1>3
  <1> QED
    BY <1>4, ConsentInvariant, PTL DEF Safety, SettledForGood

-----------------------------------------------------------------------------
(* Invites: what the attempt counter and the consumed invite are good for. *)

(* An admitted session's invite was created; once finish_pairing has run,  *)
(* the invite is gone for good.                                            *)
TicketInv(s) ==
  /\ verdict[Ivr(s)] \in {"refused", "lost"} => pc[Ivr(s)] = "done"
  /\ pc[Ivr(s)] # "idle" /\ verdict[Ivr(s)] \notin {"refused", "lost"}
       => TicketOf[s] \in created
  /\ pc[Ivr(s)] = "done" /\ verdict[Ivr(s)] \in {"paired", "rejected", "failed"}
       => TicketOf[s] \notin active

TicketsInv == \A s \in Sessions : TicketInv(s)

LEMMA TicketsStep ==
  ASSUME TypeOK, TicketsInv, [Next]_vars
  PROVE  TicketsInv'
  <1> SUFFICES ASSUME NEW t \in Sessions PROVE TicketInv(t)'
    BY DEF TicketsInv
  <1> USE EndFacts DEF TicketsInv, TicketInv, TypeOK
  <1>1. CASE UNCHANGED vars
    BY <1>1 DEF vars, inviteVars
  <1>2. ASSUME NEW i \in Invites, CreateInvite(i) \/ ExpireInvite(i) PROVE TicketInv(t)'
    BY <1>2 DEF CreateInvite, ExpireInvite, inviteVars
  <1>3. CASE CancelInvites
    BY <1>3 DEF CancelInvites, inviteVars
  <1>4. ASSUME NEW s \in Sessions, Join(s) PROVE TicketInv(t)'
    BY <1>4 DEF Join, inviteVars
  <1>5. ASSUME NEW s \in Sessions, LoseConnection(s) PROVE TicketInv(t)'
    BY <1>5 DEF LoseConnection, inviteVars
  <1>6. ASSUME NEW s \in Sessions, Admit(s) PROVE TicketInv(t)'
    BY <1>6 DEF Admit, Admissible, inviteVars
  <1>7. ASSUME NEW s \in Sessions, Refuse(s) PROVE TicketInv(t)'
    BY <1>7 DEF Refuse, inviteVars
  <1>8. ASSUME NEW s \in Sessions, OpenPending(s) PROVE TicketInv(t)'
    BY <1>8 DEF OpenPending, inviteVars
  <1>9. ASSUME NEW s \in Sessions, Reply(s) PROVE TicketInv(t)'
    BY <1>9 DEF Reply, inviteVars
  <1>10. ASSUME NEW s \in Sessions, ReplyFails(s) PROVE TicketInv(t)'
    BY <1>10 DEF ReplyFails, inviteVars
  <1>11. ASSUME NEW s \in Sessions, Accepted(s) PROVE TicketInv(t)'
    BY <1>11 DEF Accepted, inviteVars
  <1>12. ASSUME NEW s \in Sessions, JoinFails(s) PROVE TicketInv(t)'
    BY <1>12 DEF JoinFails, inviteVars
  <1>13. ASSUME NEW p \in Ends, NEW v \in {"yes", "no"}, Answer(p, v) PROVE TicketInv(t)'
    BY <1>13 DEF Answer, inviteVars
  <1>14. ASSUME NEW p \in Ends, Deliver(p) PROVE TicketInv(t)'
    BY <1>14 DEF Deliver, inviteVars
  <1>15. ASSUME NEW p \in Ends, Decide(p) PROVE TicketInv(t)'
    BY <1>15 DEF Decide, inviteVars
  <1>16. ASSUME NEW p \in Ends, DecideFails(p) PROVE TicketInv(t)'
    BY <1>16 DEF DecideFails, inviteVars
  <1>17. ASSUME NEW p \in Ends, Receive(p) PROVE TicketInv(t)'
    BY <1>17 DEF Receive, RemoteVerdict, inviteVars
  <1>18. ASSUME NEW p \in Ends, ReceiveFails(p) PROVE TicketInv(t)'
    BY <1>18 DEF ReceiveFails, inviteVars
  <1>19. ASSUME NEW p \in Ends, ReceiveTimesOut(p) PROVE TicketInv(t)'
    BY <1>19 DEF ReceiveTimesOut, inviteVars
  <1>20. ASSUME NEW p \in Ends, FinishDelivered(p) PROVE TicketInv(t)'
    BY <1>20 DEF FinishDelivered, Finish, Consumed, Side, Ivr, inviteVars
  <1>21. ASSUME NEW p \in Ends, FinishUnacked(p) PROVE TicketInv(t)'
    BY <1>21 DEF FinishUnacked, Finish, Consumed, Side, Ivr, inviteVars
  <1>22. ASSUME NEW d \in Daemons, Restart(d) PROVE TicketInv(t)'
    BY <1>22 DEF Restart, inviteVars
  <1> QED
    BY <1>1, <1>2, <1>3, <1>4, <1>5, <1>6, <1>7, <1>8, <1>9, <1>10, <1>11,
       <1>12, <1>13, <1>14, <1>15, <1>16, <1>17, <1>18, <1>19, <1>20, <1>21,
       <1>22, StepCases

(* Only the check admits. *)
LEMMA OnlyAdmitAdmits ==
  ASSUME TypeOK, [Next]_vars, ~\E s \in Sessions : Admit(s)
  PROVE  /\ UNCHANGED attempts
         /\ \A t \in Sessions : pc[Ivr(t)] = "idle" => pc'[Ivr(t)] \in {"idle", "done"}
         /\ \A t \in Sessions : pc[Ivr(t)] = "idle" /\ pc'[Ivr(t)] = "done"
                                  => verdict'[Ivr(t)] \in {"refused", "lost"}
         /\ \A t \in Sessions : verdict[Ivr(t)] \in {"refused", "lost"} /\ pc[Ivr(t)] = "done"
                                  => verdict'[Ivr(t)] \in {"refused", "lost"}
  <1> USE EndFacts DEF TypeOK
  <1>1. CASE UNCHANGED vars
    BY <1>1 DEF vars
  <1>2. CASE \E s \in Sessions : Refuse(s)
    BY <1>2 DEF Refuse, inviteVars
  <1>3. CASE \E s \in Sessions : Accepted(s) \/ JoinFails(s) \/ Join(s)
    BY <1>3 DEF Accepted, JoinFails, Join, inviteVars
  <1>4. CASE \E s \in Sessions : OpenPending(s) \/ Reply(s) \/ ReplyFails(s)
    BY <1>4 DEF OpenPending, Reply, ReplyFails, inviteVars
  <1>5. CASE \E p \in Ends : Decide(p) \/ DecideFails(p)
    BY <1>5 DEF Decide, DecideFails, inviteVars
  <1>6. CASE \E p \in Ends : Receive(p) \/ ReceiveFails(p) \/ ReceiveTimesOut(p)
    BY <1>6 DEF Receive, ReceiveFails, ReceiveTimesOut, inviteVars
  <1>7. CASE \E p \in Ends : FinishDelivered(p) \/ FinishUnacked(p)
    BY <1>7 DEF FinishDelivered, FinishUnacked, Finish
  <1>8. CASE \E d \in Daemons : Restart(d)
    BY <1>8 DEF Restart
  <1>9. CASE UNCHANGED <<pc, verdict, attempts>>
    BY <1>9
  <1>10. \/ \E i \in Invites : CreateInvite(i) \/ ExpireInvite(i)
         \/ CancelInvites
         \/ \E s \in Sessions : LoseConnection(s)
         \/ \E p \in Ends : Deliver(p) \/ \E v \in {"yes", "no"} : Answer(p, v)
         => UNCHANGED <<pc, verdict, attempts>>
    BY DEF CreateInvite, ExpireInvite, CancelInvites, LoseConnection, Deliver,
           Answer, inviteVars
  <1> QED
    BY <1>1, <1>2, <1>3, <1>4, <1>5, <1>6, <1>7, <1>8, <1>9, <1>10, StepCases

(* The counter of an invite is at least the number of admitted sessions. *)
CountInv == \A i \in Invites : Cardinality(AdmittedOn(i)) <= attempts[i]

LEMMA CountStep ==
  ASSUME TypeOK, TicketsInv, CountInv, [Next]_vars
  PROVE  CountInv'
  <1> SUFFICES ASSUME NEW i \in Invites
               PROVE Cardinality(AdmittedOn(i)') <= attempts'[i]
    BY DEF CountInv, AdmittedOn, Ivr
  <1>1. IsFiniteSet(AdmittedOn(i)) /\ IsFiniteSet(AdmittedOn(i)')
    BY SessionsAssumption, FS_Subset DEF AdmittedOn
  <1>2. Cardinality(AdmittedOn(i)) <= attempts[i]
    BY DEF CountInv
  <1>3. Cardinality(AdmittedOn(i)) \in Nat /\ Cardinality(AdmittedOn(i)') \in Nat
    BY <1>1, FS_CardinalityType
  <1>4. attempts[i] \in Nat
    BY BoundAssumption DEF TypeOK
  <1>5. ASSUME NEW s \in Sessions, Admit(s)
        PROVE Cardinality(AdmittedOn(i)') <= attempts'[i]
    <2>1. AdmittedOn(i)' \subseteq IF i = TicketOf[s] THEN AdmittedOn(i) \cup {s}
                                   ELSE AdmittedOn(i)
      BY <1>5, EndFacts DEF TypeOK, AdmittedOn, Admit, Ivr
    <2>2. CASE i = TicketOf[s]
      <3>1. attempts'[i] = attempts[i] + 1
        BY <1>5, <2>2 DEF TypeOK, Admit, Counted
      <3>2. /\ IsFiniteSet(AdmittedOn(i) \cup {s})
            /\ Cardinality(AdmittedOn(i) \cup {s}) \in
                 {Cardinality(AdmittedOn(i)), Cardinality(AdmittedOn(i)) + 1}
        BY <1>1, FS_AddElement
      <3>3. Cardinality(AdmittedOn(i)') <= Cardinality(AdmittedOn(i) \cup {s})
        BY <2>1, <2>2, <3>2, FS_Subset
      <3> QED
        BY <1>2, <1>3, <1>4, <3>1, <3>2, <3>3
    <2>3. CASE i # TicketOf[s]
      <3>1. attempts'[i] = attempts[i]
        BY <1>5, <2>3 DEF TypeOK, Admit, Counted
      <3>2. Cardinality(AdmittedOn(i)') <= Cardinality(AdmittedOn(i))
        BY <1>1, <2>1, <2>3, FS_Subset
      <3> QED
        BY <1>2, <1>3, <1>4, <3>1, <3>2
    <2> QED
      BY <2>2, <2>3
  <1>6. CASE ~\E s \in Sessions : Admit(s)
    <2>1. AdmittedOn(i)' \subseteq AdmittedOn(i) /\ attempts' = attempts
      BY <1>6, OnlyAdmitAdmits DEF AdmittedOn, TicketsInv, TicketInv
    <2>2. Cardinality(AdmittedOn(i)') <= Cardinality(AdmittedOn(i))
      BY <1>1, <2>1, FS_Subset
    <2> QED
      BY <1>2, <1>3, <1>4, <2>1, <2>2
  <1> QED
    BY <1>5, <1>6

InviteInv == TypeOK /\ TicketsInv /\ CountInv

LEMMA InviteInvariant == Safety => []InviteInv
  <1>1. Init => InviteInv
    <2> SUFFICES ASSUME Init PROVE InviteInv
      OBVIOUS
    <2>1. TypeOK
      BY BoundAssumption DEF Init, TypeOK, States, Verdicts, Ends
    <2>2. TicketsInv
      BY EndFacts DEF Init, TicketsInv, TicketInv
    <2>3. \A i \in Invites : AdmittedOn(i) = {}
      BY EndFacts DEF Init, AdmittedOn
    <2>4. CountInv
      BY <2>3, FS_EmptySet DEF Init, CountInv
    <2> QED
      BY <2>1, <2>2, <2>4 DEF InviteInv
  <1>2. InviteInv /\ [Next]_vars => InviteInv'
    BY TypeStep, TicketsStep, CountStep DEF InviteInv
  <1> QED
    BY <1>1, <1>2, PTL DEF Safety

(* A burst of concurrent requests cannot race past the attempt limit. *)
THEOREM AttemptLimit == Safety => []AttemptsBounded
  <1>1. InviteInv => AttemptsBounded
    <2> SUFFICES ASSUME InviteInv, NEW i \in Invites
                 PROVE Cardinality(AdmittedOn(i)) <= MaxAttempts
      BY DEF AttemptsBounded
    <2>1. Cardinality(AdmittedOn(i)) <= attempts[i] /\ attempts[i] \in 0 .. MaxAttempts
      BY DEF InviteInv, CountInv, TypeOK
    <2>2. Cardinality(AdmittedOn(i)) \in Nat
      BY SessionsAssumption, FS_Subset, FS_CardinalityType DEF AdmittedOn
    <2> QED
      BY <2>1, <2>2, BoundAssumption
  <1> QED
    BY <1>1, InviteInvariant, PTL

(* After one session of an invite has finished on the inviter, no later    *)
(* request is admitted on it.                                              *)
THEOREM FinishedInviteIsDead == Safety => FinishedInviteAdmitsNoMore
  <1> DEFINE Dead ==
        \A s, t \in Sessions :
          (/\ TicketOf[s] = TicketOf[t]
           /\ pc[Ivr(s)] = "done"
           /\ verdict[Ivr(s)] \in {"paired", "rejected", "failed"})
          => ~(pc[Ivr(t)] = "idle" /\ pc'[Ivr(t)] = "admitted")
  <1>1. ASSUME InviteInv, [Next]_vars PROVE Dead
    <2>1. ASSUME NEW t \in Sessions, pc[Ivr(t)] = "idle", pc'[Ivr(t)] = "admitted"
          PROVE TicketOf[t] \in active
      <3>1. PICK r \in Sessions : Admit(r)
        BY <1>1, <2>1, OnlyAdmitAdmits DEF InviteInv
      <3>2. Ivr(r) = Ivr(t)
        BY <1>1, <2>1, <3>1, EndFacts DEF InviteInv, TypeOK, Admit
      <3> QED
        BY <3>1, <3>2, EndFacts DEF Admit, Admissible
    <2> QED
      BY <1>1, <2>1 DEF InviteInv, TicketsInv, TicketInv
  <1>2. InviteInv /\ [Next]_vars => [Dead]_vars
    BY <1>1
  <1> QED
    BY <1>2, InviteInvariant, PTL DEF Safety, FinishedInviteAdmitsNoMore
=============================================================================

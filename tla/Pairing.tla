------------------------------- MODULE Pairing -------------------------------
(***************************************************************************)
(* Pairing of two lanclip daemons (crates/lcp-core/src/pairing.rs and the  *)
(* pairing methods of crates/lanclipd/src/main.rs).                        *)
(*                                                                         *)
(* One inviting daemon hands out tickets; every session is one run of      *)
(* join_pairing by some daemon on one ticket, with the handle_pair_request *)
(* it causes on the inviter.  The two tasks of a session run concurrently  *)
(* with each other, with the other sessions, with the humans who answer    *)
(* confirm_pairing / reject_pairing over IPC, and with a network that can  *)
(* delay a confirm or lose a connection.  A step of the model is the code  *)
(* between two awaits.  Clocks are abstracted: a timer may fire whenever   *)
(* what it guards has not arrived.                                         *)
(***************************************************************************)
EXTENDS Naturals, FiniteSets

CONSTANTS
  Sessions,     \* runs of the pairing protocol
  Invites,      \* invites the inviter may create
  Joiners,      \* daemons that join
  Inviter,      \* the daemon that invites
  TicketOf,     \* TicketOf[s]: the invite whose ticket session s presents
  JoinerOf,     \* JoinerOf[s]: the daemon that joins in session s
  MaxAttempts,  \* MAX_PAIRING_ATTEMPTS_PER_INVITE
  MaxCrashes    \* bound: daemon restarts explored in one behaviour

ASSUME TicketAssumption == TicketOf \in [Sessions -> Invites]
ASSUME JoinerAssumption == JoinerOf \in [Sessions -> Joiners]
ASSUME InviterAssumption == Inviter \notin Joiners
ASSUME SessionsAssumption == IsFiniteSet(Sessions)
ASSUME BoundAssumption == MaxAttempts \in Nat /\ MaxCrashes \in Nat

Sides == {"inviter", "joiner"}
Ends == Sides \X Sessions

(* An end <<side, session>> is one daemon's part in a session. *)
Side(p) == p[1]
Sess(p) == p[2]
Ivr(s) == <<"inviter", s>>
Jnr(s) == <<"joiner", s>>
Peer(p) == IF Side(p) = "inviter" THEN Jnr(Sess(p)) ELSE Ivr(Sess(p))

(* The daemon that runs an end, and the trust it would commit. *)
Host(p) == IF Side(p) = "inviter" THEN Inviter ELSE JoinerOf[Sess(p)]
TrustOf(p) == <<Host(p), Host(Peer(p))>>
Daemons == {Inviter} \cup Joiners

VARIABLES
  created,   \* invites created so far
  active,    \* active_invites of the inviter
  expired,   \* invites whose expires_at has passed
  attempts,  \* attempts[i]: ActiveInvite.attempts
  conn,      \* conn[s]: the connection of session s
  replied,   \* replied[s]: the PairDecision on its way to the joiner
  pc,        \* pc[p]: where the task of side x is
  pending,   \* pending[p]: the entry in pending_pairings; "taken" once
             \* its local_decision_tx has been taken
  vote,      \* vote[p]: the answer of the human that the daemon accepted
  sent,      \* sent[p]: the PairConfirm side x wrote
  arrived,   \* arrived[p]: that confirm has reached the peer's stack
  verdict,   \* verdict[p]: how the exchange came out for side x
  trusted,   \* pairs <<d, e>>: e is in trusted_peers of daemon d
  disk,      \* the same relation as stored in the configuration files
  disturbed, \* disturbed[s]: a timer, a lost connection or a restart hit s
  crashes    \* restarts so far

inviteVars == <<created, active, expired, attempts>>
trustVars == <<trusted, disk>>
vars == <<created, active, expired, attempts, conn, replied, pc, pending,
          vote, sent, arrived, verdict, trusted, disk, disturbed, crashes>>

States == {"idle", "requesting", "admitted", "opened", "deciding",
           "awaiting", "settled", "done"}
Verdicts == {"none", "refused", "unreplied", "paired", "rejected", "failed",
             "lost"}

TypeOK ==
  /\ created \subseteq Invites
  /\ active \subseteq created
  /\ expired \subseteq created
  /\ attempts \in [Invites -> 0 .. MaxAttempts]
  /\ conn \in [Sessions -> {"none", "open", "closed"}]
  /\ replied \in [Sessions -> {"none", "accepted", "refused"}]
  /\ pc \in [Ends -> States]
  /\ pending \in [Ends -> {"absent", "open", "taken"}]
  /\ vote \in [Ends -> {"none", "yes", "no"}]
  /\ sent \in [Ends -> {"none", "yes", "no"}]
  /\ arrived \in [Ends -> BOOLEAN]
  /\ verdict \in [Ends -> Verdicts]
  /\ trusted \subseteq Daemons \X Daemons
  /\ disk \subseteq Daemons \X Daemons
  /\ disturbed \in [Sessions -> BOOLEAN]
  /\ crashes \in 0 .. MaxCrashes

Init ==
  /\ created = {} /\ active = {} /\ expired = {}
  /\ attempts = [i \in Invites |-> 0]
  /\ conn = [s \in Sessions |-> "none"]
  /\ replied = [s \in Sessions |-> "none"]
  /\ pc = [p \in Ends |-> "idle"]
  /\ pending = [p \in Ends |-> "absent"]
  /\ vote = [p \in Ends |-> "none"]
  /\ sent = [p \in Ends |-> "none"]
  /\ arrived = [p \in Ends |-> FALSE]
  /\ verdict = [p \in Ends |-> "none"]
  /\ trusted = {} /\ disk = {}
  /\ disturbed = [s \in Sessions |-> FALSE]
  /\ crashes = 0

-----------------------------------------------------------------------------
(* Invites.                                                                *)

(* create_invite: push a fresh ActiveInvite with no attempts. *)
CreateInvite(i) ==
  /\ i \notin created
  /\ created' = created \cup {i}
  /\ active' = active \cup {i}
  /\ UNCHANGED <<expired, attempts, conn, replied, pc, pending, vote, sent,
                 arrived, verdict, trustVars, disturbed, crashes>>

(* cancel_invite clears every active invite; sessions in flight go on. *)
CancelInvites ==
  /\ active # {}
  /\ active' = {}
  /\ UNCHANGED <<created, expired, attempts, conn, replied, pc, pending, vote,
                 sent, arrived, verdict, trustVars, disturbed, crashes>>

(* The clock passes expires_at.  The invite stays in active_invites. *)
ExpireInvite(i) ==
  /\ i \in created \ expired
  /\ expired' = expired \cup {i}
  /\ UNCHANGED <<created, active, attempts, conn, replied, pc, pending, vote,
                 sent, arrived, verdict, trustVars, disturbed, crashes>>

-----------------------------------------------------------------------------
(* Opening a session.                                                      *)

(* join_pairing up to the written PairRequest: the ticket is not expired,  *)
(* the dial succeeded.  A join that fails before this changes no state.    *)
Join(s) ==
  /\ pc[Jnr(s)] = "idle"
  /\ TicketOf[s] \in created \ expired
  /\ conn' = [conn EXCEPT ![s] = "open"]
  /\ pc' = [pc EXCEPT ![Jnr(s)] = "requesting"]
  /\ UNCHANGED <<inviteVars, replied, pending, vote, sent, arrived, verdict,
                 trustVars, disturbed, crashes>>

Admissible_OffByOne(i) ==
  i \in active /\ i \notin expired /\ attempts[i] <= MaxAttempts

(* The checks made on the invite under the write lock. *)
Admissible(i) ==
  i \in active /\ i \notin expired /\ attempts[i] < MaxAttempts

(* The mutant forgets to count: `inv.attempts += 1` is missing. *)
Counted_Not(i) == attempts

Counted(i) == [attempts EXCEPT ![i] = @ + 1]

(* handle_pair_request, first critical section: find, validate and count   *)
(* in one step.                                                            *)
Admit(s) ==
  /\ pc[Jnr(s)] # "idle"
  /\ pc[Ivr(s)] = "idle"
  /\ Admissible(TicketOf[s])
  /\ attempts' = Counted(TicketOf[s])
  /\ pc' = [pc EXCEPT ![Ivr(s)] = "admitted"]
  /\ UNCHANGED <<created, active, expired, conn, replied, pending, vote, sent,
                 arrived, verdict, trustVars, disturbed, crashes>>

(* The same critical section refusing: a decision with accepted = false is *)
(* written (a failing write is ignored) and the handler returns.           *)
Refuse(s) ==
  /\ pc[Jnr(s)] # "idle"
  /\ pc[Ivr(s)] = "idle"
  /\ ~Admissible(TicketOf[s])
  /\ replied' = [replied EXCEPT ![s] = IF conn[s] = "open" THEN "refused" ELSE @]
  /\ pc' = [pc EXCEPT ![Ivr(s)] = "done"]
  /\ verdict' = [verdict EXCEPT ![Ivr(s)] = "refused"]
  /\ UNCHANGED <<inviteVars, conn, pending, vote, sent, arrived, trustVars,
                 disturbed, crashes>>

(* Second critical section: the pending entry is inserted and              *)
(* PAIRING_REQUESTED broadcast, so the human may answer from here on.      *)
OpenPending(s) ==
  /\ pc[Ivr(s)] = "admitted"
  /\ pc' = [pc EXCEPT ![Ivr(s)] = "opened"]
  /\ pending' = [pending EXCEPT ![Ivr(s)] = "open"]
  /\ UNCHANGED <<inviteVars, conn, replied, vote, sent, arrived, verdict,
                 trustVars, disturbed, crashes>>

(* The accepting PairDecision is written.  A connection that is already    *)
(* gone may not be known to be gone yet, so the write can succeed anyway.  *)
Reply(s) ==
  /\ pc[Ivr(s)] = "opened"
  /\ replied' = [replied EXCEPT ![s] = IF conn[s] = "open" THEN "accepted" ELSE @]
  /\ pc' = [pc EXCEPT ![Ivr(s)] = "deciding"]
  /\ UNCHANGED <<inviteVars, conn, pending, vote, sent, arrived, verdict,
                 trustVars, disturbed, crashes>>

(* `write_envelope(&mut send, &decision).await?` fails: the handler returns *)
(* without finish_pairing; the pending entry and the invite stay.           *)
ReplyFails(s) ==
  /\ pc[Ivr(s)] = "opened"
  /\ conn[s] = "closed"
  /\ pc' = [pc EXCEPT ![Ivr(s)] = "done"]
  /\ verdict' = [verdict EXCEPT ![Ivr(s)] = "unreplied"]
  /\ UNCHANGED <<inviteVars, conn, replied, pending, vote, sent, arrived,
                 trustVars, disturbed, crashes>>

(* The joiner reads an accepting decision, inserts its own pending entry   *)
(* and spawns the exchange.                                                *)
Accepted(s) ==
  /\ pc[Jnr(s)] = "requesting"
  /\ replied[s] = "accepted"
  /\ pc' = [pc EXCEPT ![Jnr(s)] = "deciding"]
  /\ pending' = [pending EXCEPT ![Jnr(s)] = "open"]
  /\ UNCHANGED <<inviteVars, conn, replied, vote, sent, arrived, verdict,
                 trustVars, disturbed, crashes>>

(* join_pairing returns an error after the request was written: refused,   *)
(* or no decision within SEND_TIMEOUT, or the connection is gone.  The     *)
(* connection is dropped with the function's locals.                       *)
JoinFails(s) ==
  /\ pc[Jnr(s)] = "requesting"
  /\ conn' = [conn EXCEPT ![s] = "closed"]
  /\ pc' = [pc EXCEPT ![Jnr(s)] = "done"]
  /\ verdict' = [verdict EXCEPT ![Jnr(s)] = "failed"]
  /\ disturbed' = [disturbed EXCEPT ![s] = @ \/ replied[s] # "refused"]
  /\ UNCHANGED <<inviteVars, replied, pending, vote, sent, arrived,
                 trustVars, crashes>>

-----------------------------------------------------------------------------
(* The confirmation exchange, the same code on both sides.                 *)

(* confirm_pairing / reject_pairing: the oneshot sender is taken out of    *)
(* the pending entry and the answer sent into it.  Whether the exchange    *)
(* still listens is not looked at (`let _ = tx.send(confirmed)`).          *)
Answer(p, v) ==
  /\ pending[p] = "open"
  /\ pending' = [pending EXCEPT ![p] = "taken"]
  /\ vote' = [vote EXCEPT ![p] = v]
  /\ UNCHANGED <<inviteVars, conn, replied, pc, sent, arrived, verdict,
                 trustVars, disturbed, crashes>>

(* The mutant takes silence for consent. *)
LocalDecision_Eager(p) == IF vote[p] = "no" THEN "no" ELSE "yes"

(* local_confirmed: true only if the human's yes came within the timeout;  *)
(* the oneshot is polled before the timer, so an answer that is there is   *)
(* the one that counts.                                                    *)
LocalDecision(p) == IF vote[p] = "none" THEN "no" ELSE vote[p]

(* The local decision is there or its 120 s are over; our PairConfirm is   *)
(* written.  After a "no" nothing is awaited from the peer.                *)
Decide(p) ==
  /\ pc[p] = "deciding"
  /\ sent' = [sent EXCEPT ![p] = LocalDecision(p)]
  /\ \/ /\ LocalDecision(p) = "yes"
        /\ pc' = [pc EXCEPT ![p] = "awaiting"]
        /\ UNCHANGED verdict
     \/ /\ LocalDecision(p) = "no"
        /\ pc' = [pc EXCEPT ![p] = "settled"]
        /\ verdict' = [verdict EXCEPT ![p] = "rejected"]
  /\ UNCHANGED <<inviteVars, conn, replied, pending, vote, arrived, trustVars,
                 disturbed, crashes>>

(* The peer can no longer take a confirm: the connection is gone, or its   *)
(* task has ended and dropped the stream.                                  *)
PeerGone(p) == conn[Sess(p)] = "closed" \/ pc[Peer(p)] = "done"

(* The write of the confirm fails and the exchange returns the error. *)
DecideFails(p) ==
  /\ pc[p] = "deciding"
  /\ PeerGone(p)
  /\ pc' = [pc EXCEPT ![p] = "settled"]
  /\ verdict' = [verdict EXCEPT ![p] = "failed"]
  /\ UNCHANGED <<inviteVars, conn, replied, pending, vote, sent, arrived,
                 trustVars, disturbed, crashes>>

(* The network delivers the confirm of side x; QUIC acknowledges it. *)
Deliver(p) ==
  /\ sent[p] # "none"
  /\ ~arrived[p]
  /\ conn[Sess(p)] = "open"
  /\ arrived' = [arrived EXCEPT ![p] = TRUE]
  /\ UNCHANGED <<inviteVars, conn, replied, pc, pending, vote, sent, verdict,
                 trustVars, disturbed, crashes>>

(* The mutant ignores what the peer's confirm says. *)
RemoteVerdict_Blind(p) == "paired"

RemoteVerdict(p) == IF sent[Peer(p)] = "yes" THEN "paired" ELSE "rejected"

(* Having said yes, the side reads the peer's confirm.  What has arrived   *)
(* can be read even if the connection is closed by then.                   *)
Receive(p) ==
  /\ pc[p] = "awaiting"
  /\ arrived[Peer(p)]
  /\ pc' = [pc EXCEPT ![p] = "settled"]
  /\ verdict' = [verdict EXCEPT ![p] = RemoteVerdict(p)]
  /\ UNCHANGED <<inviteVars, conn, replied, pending, vote, sent, arrived,
                 trustVars, disturbed, crashes>>

(* The read fails (`??`): the connection is gone and no confirm came. *)
ReceiveFails(p) ==
  /\ pc[p] = "awaiting"
  /\ ~arrived[Peer(p)]
  /\ conn[Sess(p)] = "closed"
  /\ pc' = [pc EXCEPT ![p] = "settled"]
  /\ verdict' = [verdict EXCEPT ![p] = "failed"]
  /\ UNCHANGED <<inviteVars, conn, replied, pending, vote, sent, arrived,
                 trustVars, disturbed, crashes>>

(* What is left of the 120 s runs out before the peer's confirm arrives. *)
ReceiveTimesOut(p) ==
  /\ pc[p] = "awaiting"
  /\ ~arrived[Peer(p)]
  /\ pc' = [pc EXCEPT ![p] = "settled"]
  /\ verdict' = [verdict EXCEPT ![p] = "failed"]
  /\ disturbed' = [disturbed EXCEPT ![Sess(p)] = TRUE]
  /\ UNCHANGED <<inviteVars, conn, replied, pending, vote, sent, arrived,
                 trustVars, crashes>>

-----------------------------------------------------------------------------
(* Settling.                                                               *)

(* The mutant finishes at once, without waiting for the acknowledgement. *)
ConfirmSettled_NoWait(p) == TRUE

(* wait_for_confirm_delivery returns: the confirm is acknowledged or the   *)
(* peer is gone.  An exchange that failed does not wait at all.            *)
ConfirmSettled(p) ==
  verdict[p] = "failed" \/ arrived[p] \/ PeerGone(p)

(* The mutant consumes the invite only when the pairing succeeded. *)
Consumed_IfPaired(p) ==
  IF Side(p) = "inviter" /\ verdict[p] = "paired" THEN {TicketOf[Sess(p)]} ELSE {}

(* finish_pairing removes the invite on the inviter, whatever the outcome. *)
Consumed(p) == IF Side(p) = "inviter" THEN {TicketOf[Sess(p)]} ELSE {}

Forgotten_Kept(p) == pending

Forgotten(p) == [pending EXCEPT ![p] = "absent"]

(* finish_pairing: one critical section; the save may fail, which is only  *)
(* logged.  The joiner's task then drops the only handle of the connection. *)
Finish(p) ==
  /\ pc' = [pc EXCEPT ![p] = "done"]
  /\ pending' = Forgotten(p)
  /\ active' = active \ Consumed(p)
  /\ IF verdict[p] = "paired"
       THEN /\ trusted' = trusted \cup {TrustOf(p)}
            /\ disk' \in {disk, {e \in disk : e[1] # Host(p)}
                                  \cup {e \in trusted' : e[1] = Host(p)}}
       ELSE UNCHANGED trustVars
  /\ conn' = [conn EXCEPT ![Sess(p)] = IF Side(p) = "joiner" THEN "closed" ELSE @]
  /\ UNCHANGED <<created, expired, attempts, replied, vote, sent, arrived,
                 verdict, crashes>>

FinishDelivered(p) ==
  /\ pc[p] = "settled"
  /\ ConfirmSettled(p)
  /\ Finish(p)
  /\ UNCHANGED disturbed

(* PAIRING_FINISH_ACK_TIMEOUT runs out first. *)
FinishUnacked(p) ==
  /\ pc[p] = "settled"
  /\ ~ConfirmSettled(p)
  /\ Finish(p)
  /\ disturbed' = [disturbed EXCEPT ![Sess(p)] = TRUE]

-----------------------------------------------------------------------------
(* The environment.                                                        *)

LoseConnection(s) ==
  /\ conn[s] = "open"
  /\ conn' = [conn EXCEPT ![s] = "closed"]
  /\ disturbed' = [disturbed EXCEPT ![s] = TRUE]
  /\ UNCHANGED <<inviteVars, replied, pc, pending, vote, sent, arrived,
                 verdict, trustVars, crashes>>

(* The sides of begun sessions that run on daemon d and have not ended. *)
RunningOn(d) ==
  {p \in Ends : /\ Host(p) = d
                /\ conn[Sess(p)] # "none"
                /\ pc[p] # "done"}

(* Daemon d stops, for whatever reason, and is started again: invites,     *)
(* pending entries, tasks and connections are gone, trust is what the      *)
(* configuration file says.                                                *)
Restart(d) ==
  /\ crashes < MaxCrashes
  /\ crashes' = crashes + 1
  /\ active' = IF d = Inviter THEN {} ELSE active
  /\ pc' = [p \in Ends |-> IF p \in RunningOn(d) THEN "done" ELSE pc[p]]
  /\ verdict' = [p \in Ends |-> IF p \in RunningOn(d) THEN "lost" ELSE verdict[p]]
  /\ pending' = [p \in Ends |->
                   IF Host(p) = d THEN "absent" ELSE pending[p]]
  /\ LET hit == {s \in Sessions : conn[s] = "open" /\ d \in {Inviter, JoinerOf[s]}}
     IN /\ conn' = [s \in Sessions |-> IF s \in hit THEN "closed" ELSE conn[s]]
        /\ disturbed' = [s \in Sessions |->
             disturbed[s] \/ s \in hit \/ \E p \in RunningOn(d) : Sess(p) = s]
  /\ trusted' = {e \in trusted : e[1] # d} \cup {e \in disk : e[1] = d}
  /\ UNCHANGED <<created, expired, attempts, replied, vote, sent, arrived, disk>>

-----------------------------------------------------------------------------
InviteStep ==
  \/ \E i \in Invites : CreateInvite(i) \/ ExpireInvite(i)
  \/ CancelInvites

(* What the inviter's handler does between its own awaits. *)
InviterTask(s) == OpenPending(s) \/ Reply(s) \/ ReplyFails(s)

JoinerTask(s) == Accepted(s) \/ JoinFails(s)

Exchange(p) ==
  \/ Decide(p) \/ DecideFails(p)
  \/ Receive(p) \/ ReceiveFails(p) \/ ReceiveTimesOut(p)
  \/ FinishDelivered(p) \/ FinishUnacked(p)

Next ==
  \/ InviteStep
  \/ \E s \in Sessions :
       \/ Join(s) \/ Admit(s) \/ Refuse(s) \/ LoseConnection(s)
       \/ InviterTask(s) \/ JoinerTask(s)
  \/ \E p \in Ends :
       \/ \E v \in {"yes", "no"} : Answer(p, v)
       \/ Deliver(p)
       \/ Exchange(p)
  \/ \E d \in Daemons : Restart(d)

(* Every await of a task is guarded by a timer or resolves when the peer   *)
(* goes away, and the tasks run on a multi-threaded runtime: each task     *)
(* takes its next step eventually.  Humans, the network and the clock of   *)
(* the invites owe nothing.                                                *)
Fairness ==
  /\ \A s \in Sessions : WF_vars(InviterTask(s)) /\ WF_vars(JoinerTask(s))
  /\ \A p \in Ends : WF_vars(Exchange(p))

Safety == Init /\ [][Next]_vars
Spec == Safety /\ Fairness

-----------------------------------------------------------------------------
(* Properties.                                                             *)

(* The ends of session s. *)
EndsOf(s) == {Ivr(s), Jnr(s)}

(* A daemon trusts another, in memory or in its file, only if in one and   *)
(* the same session both humans answered yes ("Trust only ever commits     *)
(* when both sides said yes", run_confirmation_exchange), whatever timers, *)
(* losses and restarts did meanwhile.                                      *)
MutualConsent ==
  \A e \in trusted \cup disk :
    \E p \in Ends : e = TrustOf(p) /\ vote[p] = "yes" /\ vote[Peer(p)] = "yes"

(* No session comes out as paired for one human and as rejected for the    *)
(* other: a rejection that was announced reaches both or ends as failed.   *)
NoSplitVerdict ==
  \A p \in Ends : verdict[p] = "paired" => verdict[Peer(p)] # "rejected"

(* If both sides announced yes and nothing disturbed the session, every    *)
(* side that has finished is paired.  This is what waiting for the         *)
(* delivery of the confirm before dropping the connection is for           *)
(* (wait_for_confirm_delivery).                                            *)
UndisturbedConsentPairs ==
  \A s \in Sessions :
    (~disturbed[s] /\ \A p \in EndsOf(s) : sent[p] = "yes")
      => \A p \in EndsOf(s) : pc[p] = "done" => verdict[p] = "paired"

(* Sessions on invite i that got past the check. *)
AdmittedOn(i) ==
  {s \in Sessions : /\ TicketOf[s] = i
                    /\ pc[Ivr(s)] # "idle"
                    /\ verdict[Ivr(s)] \notin {"refused", "lost"}}

(* However the requests interleave, no more than MaxAttempts of them get   *)
(* past the check of one invite ("a burst of concurrent requests against   *)
(* the same invite can't race past the attempt limit").                    *)
AttemptsBounded == \A i \in Invites : Cardinality(AdmittedOn(i)) <= MaxAttempts

(* Once one session on an invite has been finished on the inviter, however *)
(* it came out, no request that is checked later is admitted on that       *)
(* invite.                                                                 *)
FinishedInviteAdmitsNoMore ==
  [][\A s, t \in Sessions :
       (/\ TicketOf[s] = TicketOf[t]
        /\ pc[Ivr(s)] = "done"
        /\ verdict[Ivr(s)] \in {"paired", "rejected", "failed"})
       => ~(pc[Ivr(t)] = "idle" /\ pc'[Ivr(t)] = "admitted")]_vars

(* An exchange that has started ends, and leaves no pending entry behind,  *)
(* whatever the humans and the peer do.                                    *)
ExchangesEnd ==
  \A p \in Ends :
    pc[p] = "deciding" ~> (pc[p] = "done" /\ pending[p] = "absent")

(* Pairing implements MutualTrust: what a side announced is the confirm it *)
(* wrote, and a session ends for a side when finish_pairing has run or its *)
(* task is gone.                                                           *)
Ending ==
  [p \in Ends |-> IF pc[p] # "done" THEN "open"
                  ELSE IF verdict[p] \in {"paired", "rejected"} THEN verdict[p]
                  ELSE "failed"]

MT == INSTANCE MutualTrust WITH said <- sent, ending <- Ending

(* Every behaviour of the daemons is one of the two-sided promise. *)
ImplementsMutualTrust == MT!Spec

(* "invites are single-use at the application layer": an invite pairs the  *)
(* inviter in at most one session.                                         *)
InviteSingleUse ==
  \A s, t \in Sessions :
    (/\ TicketOf[s] = TicketOf[t]
     /\ verdict[Ivr(s)] = "paired"
     /\ verdict[Ivr(t)] = "paired") => s = t
=============================================================================

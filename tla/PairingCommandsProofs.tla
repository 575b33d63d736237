------------------------ MODULE PairingCommandsProofs ------------------------
(* What holds of PairingCommands for any number of commands and requests.  *)
EXTENDS PairingCommands, TLAPS

(* Case split of a step by the action that takes it. *)
LEMMA StepCases ==
  ASSUME Next
  PROVE  \/ \E c \in Commands :
              \/ Subscribe(c) \/ CreateInvite(c) \/ Join(c) \/ OpenFails(c)
              \/ \E v \in {"yes", "no"} : Resolve(c, v) \/ AnswerPrompt(c, v)
              \/ ReadEvent(c) \/ NoMoreEvents(c) \/ Interrupt(c) \/ CallFails(c)
         \/ \E r \in Requests : ReplyFails(r) \/ \E c \in Invites : Request(r, c)
         \/ \E s \in Sessions : Decide(s) \/ \E status \in Statuses : Finish(s, status)
         \/ DaemonGoes
  BY DEF Next, Call, Wait, Exchange

-----------------------------------------------------------------------------
(* Queues.                                                                 *)

(* Event e is on its way in queue q. *)
Within(q, e) == \E i \in 1 .. Len(q) : q[i] = e

LEMMA AppendWithin ==
  ASSUME NEW S, NEW q \in Seq(S), NEW e \in S
  PROVE  /\ Append(q, e) \in Seq(S)
         /\ \A x : Within(Append(q, e), x) <=> Within(q, x) \/ x = e
  <1>1. Append(q, e) \in Seq(S) /\ Len(Append(q, e)) = Len(q) + 1 /\ Len(q) \in Nat
    OBVIOUS
  <1>2. Append(q, e)[Len(q) + 1] = e
    OBVIOUS
  <1>3. \A i \in 1 .. Len(q) : Append(q, e)[i] = q[i]
    OBVIOUS
  <1>4. ASSUME NEW x PROVE Within(Append(q, e), x) <=> Within(q, x) \/ x = e
    BY <1>1, <1>2, <1>3 DEF Within
  <1> QED
    BY <1>1, <1>4

LEMMA TailWithin ==
  ASSUME NEW S, NEW q \in Seq(S), q # << >>
  PROVE  /\ Head(q) \in S /\ Tail(q) \in Seq(S)
         /\ \A x : Within(q, x) <=> Within(Tail(q), x) \/ x = Head(q)
  <1>1. Len(q) \in Nat /\ Len(q) > 0 /\ Head(q) = q[1] /\ Head(q) \in S
    OBVIOUS
  <1>2. Tail(q) \in Seq(S) /\ Len(Tail(q)) = Len(q) - 1
    OBVIOUS
  <1>3. \A i \in 1 .. Len(q) - 1 : Tail(q)[i] = q[i + 1]
    OBVIOUS
  <1>4. ASSUME NEW x, Within(q, x) PROVE Within(Tail(q), x) \/ x = Head(q)
    <2>1. PICK i \in 1 .. Len(q) : q[i] = x
      BY <1>4 DEF Within
    <2>2. CASE i = 1
      BY <1>1, <2>1, <2>2
    <2>3. CASE i # 1
      <3>1. i - 1 \in 1 .. Len(q) - 1 /\ Tail(q)[i - 1] = x
        BY <1>1, <1>3, <2>1, <2>3
      <3> QED
        BY <1>2, <3>1 DEF Within
    <2> QED
      BY <2>2, <2>3
  <1>5. ASSUME NEW x, Within(Tail(q), x) PROVE Within(q, x)
    <2>1. PICK i \in 1 .. Len(q) - 1 : Tail(q)[i] = x
      BY <1>2, <1>5 DEF Within
    <2>2. i + 1 \in 1 .. Len(q) /\ q[i + 1] = x
      BY <1>1, <1>3, <2>1
    <2> QED
      BY <2>2 DEF Within
  <1>6. Within(q, Head(q))
    BY <1>1 DEF Within
  <1> QED
    BY <1>1, <1>2, <1>4, <1>5, <1>6

LEMMA EmptyWithin == \A x : ~Within(<< >>, x)
  BY DEF Within

(* A command that goes somewhere keeps its queue unless it is over. *)
LEMMA GoesQueue ==
  ASSUME TypeOK, NEW c \in Commands, NEW place, Goes(c, place)
  PROVE  /\ queue' \in [Commands -> Seq(Events)]
         /\ \A d \in Commands : queue'[d] = queue[d] \/ (d = c /\ place \in Over)
         /\ \A d \in Commands : \A x : Within(queue'[d], x) => Within(queue[d], x)
         /\ \A d \in Commands : d # c => cmd'[d] = cmd[d]
         /\ cmd'[c] = place
  BY EmptyWithin DEF TypeOK, Goes, Moves

(* A broadcast adds one event to the queues of those who listen. *)
LEMMA BroadcastQueue ==
  ASSUME TypeOK, NEW e \in Events, Broadcast(e)
  PROVE  /\ queue' \in [Commands -> Seq(Events)]
         /\ \A d \in Commands : \A x : Within(queue'[d], x) => Within(queue[d], x) \/ x = e
         /\ \A d \in Commands : \A x : Within(queue[d], x) => Within(queue'[d], x)
         /\ \A d \in Listeners : Within(queue'[d], e)
  <1>1. \A d \in Commands : Append(queue[d], e) \in Seq(Events)
    BY AppendWithin DEF TypeOK
  <1>2. \A d \in Commands : \A x : Within(Append(queue[d], e), x) <=> Within(queue[d], x) \/ x = e
    BY AppendWithin DEF TypeOK
  <1>3. \A d \in Commands : queue'[d] = IF d \in Listeners THEN Append(queue[d], e) ELSE queue[d]
    BY DEF Broadcast
  <1>4. queue' \in [Commands -> Seq(Events)]
    BY <1>1 DEF Broadcast, TypeOK
  <1>5. Listeners \subseteq Commands
    BY DEF Listeners, TypeOK
  <1> QED
    BY <1>2, <1>3, <1>4, <1>5

-----------------------------------------------------------------------------
(* The inductive invariant.                                                *)

(* The exchange of a session is as far as its outcome and its vote tell:   *)
(* before it begins nobody has voted, only a yes brings agreement, and     *)
(* only agreement pairs.  Every vote is some human's answer.               *)
SessionInv ==
  /\ \A s \in Sessions : outcome[s] # "none" <=> stage[s] = "ended"
  /\ \A s \in Sessions : stage[s] = "none" => vote[s] = "none" /\ pending[s] = "absent"
  /\ \A s \in Sessions : stage[s] = "agreed" \/ outcome[s] = "paired" => vote[s] = "yes"
  /\ \A s \in Sessions : vote[s] # "none" => \E c \in Commands : <<c, s, vote[s]>> \in answers

(* A command that has not made its calls has no session, and one that has *)
(* subscribed is a subscriber until it is over.                            *)
CommandInv ==
  /\ \A c \in Pairs : cmd[c] \in {"subscribe", "open"} => stage[c] = "none"
  /\ \A c \in Commands : cmd[c] \in {"prompting", "answering"} => asked[c] # None
  /\ \A c \in Commands : c \in subscribers \/ cmd[c] \in Over \cup {"subscribe"}
  /\ \A c \in live : cmd[c] \notin {"subscribe", "open"}

(* What is on its way or reported has happened, and a pair command heeds   *)
(* only its own.                                                           *)
Happened(e) == e.says # "requested" => outcome[e.of] = e.says

EventInv ==
  /\ \A c \in Commands : \A e \in Events : Within(queue[c], e) => Happened(e)
  /\ ReportsAreReal

PInv == TypeOK /\ SessionInv /\ CommandInv /\ EventInv

LEMMA PInit ==
  ASSUME Init
  PROVE  PInv
  <1> USE KindAssumption, NoneAssumption DEF Init, FirstCall
  <1>1. TypeOK
    <2>1. << >> \in Seq(Events)
      OBVIOUS
    <2> QED
      BY <2>1 DEF TypeOK
  <1>2. SessionInv
    BY DEF SessionInv
  <1>3. CommandInv
    BY DEF CommandInv, Commands, Sessions
  <1>4. EventInv
    BY EmptyWithin DEF EventInv, ReportsAreReal
  <1> QED
    BY <1>1, <1>2, <1>3, <1>4 DEF PInv

(* Outcomes do not change, and so what has happened stays so. *)
LEMMA SameOutcome ==
  ASSUME PInv, UNCHANGED outcome, UNCHANGED report,
         \A d \in Commands : \A x : Within(queue'[d], x) => Within(queue[d], x)
  PROVE  EventInv'
  BY DEF PInv, EventInv, ReportsAreReal, Happened

(* The places a command goes to. *)
Places == {"subscribe", "open", "prompting", "answering", "waiting"} \cup Over

LEMMA GoesTypes ==
  ASSUME TypeOK, NEW c \in Commands, NEW place \in Places, Goes(c, place)
  PROVE  /\ cmd' \in [Commands -> Places]
         /\ queue' \in [Commands -> Seq(Events)]
         /\ \A d \in Commands : d # c => cmd'[d] = cmd[d]
         /\ cmd'[c] = place
  <1>1. cmd' = [cmd EXCEPT ![c] = place]
    BY DEF Goes, Moves
  <1> QED
    BY <1>1, GoesQueue DEF TypeOK, Places

LEMMA PStep ==
  ASSUME PInv, [Next]_vars
  PROVE  PInv'
  <1> USE KindAssumption, NoneAssumption
  <1>0. live \subseteq Commands /\ Pairs \subseteq Commands /\ Pairs \subseteq Sessions
    BY DEF PInv, TypeOK, Commands, Sessions
  <1>1. CASE UNCHANGED vars
    BY <1>1 DEF vars, humanVars, sessionVars, PInv, TypeOK, SessionInv, CommandInv,
                EventInv, ReportsAreReal, Happened
  <1>2. ASSUME NEW c \in Commands, Subscribe(c) PROVE PInv'
    <2>1. Goes(c, "open") /\ cmd[c] = "subscribe"
      BY <1>2 DEF Subscribe, After, FirstCall
    <2>2. /\ cmd' \in [Commands -> Places] /\ queue' \in [Commands -> Seq(Events)]
          /\ \A d \in Commands : d # c => cmd'[d] = cmd[d]
          /\ cmd'[c] = "open"
      BY <2>1, GoesTypes DEF PInv, Places
    <2>3. TypeOK'
      BY <1>2, <2>2 DEF PInv, TypeOK, Subscribe, humanVars, sessionVars, Places
    <2>4. SessionInv'
      BY <1>2 DEF PInv, SessionInv, Subscribe, humanVars, sessionVars
    <2>6. CommandInv'
      BY <1>2, <2>1, <2>2 DEF PInv, TypeOK, CommandInv, Subscribe, humanVars, sessionVars, Over, Commands
    <2>5. EventInv'
      BY <1>2, <2>1, GoesQueue, SameOutcome DEF PInv, Subscribe, humanVars, sessionVars
    <2> QED
      BY <2>3, <2>4, <2>5, <2>6 DEF PInv
  <1>3. ASSUME NEW c \in Commands, CreateInvite(c) PROVE PInv'
    <2>1. Goes(c, "waiting") /\ cmd[c] = "open"
      BY <1>3 DEF CreateInvite, After, FirstCall
    <2>2. /\ cmd' \in [Commands -> Places] /\ queue' \in [Commands -> Seq(Events)]
          /\ \A d \in Commands : d # c => cmd'[d] = cmd[d]
          /\ cmd'[c] = "waiting"
      BY <2>1, GoesTypes DEF PInv, Places
    <2>3. TypeOK'
      BY <1>3, <2>2 DEF PInv, TypeOK, CreateInvite, humanVars, sessionVars, Places
    <2>4. SessionInv'
      BY <1>3 DEF PInv, SessionInv, CreateInvite, humanVars, sessionVars
    <2>6. CommandInv'
      BY <1>3, <2>1, <2>2 DEF PInv, TypeOK, CommandInv, CreateInvite, humanVars, sessionVars, Over, Commands
    <2>5. EventInv'
      BY <1>3, <2>1, GoesQueue, SameOutcome DEF PInv, CreateInvite, humanVars, sessionVars
    <2> QED
      BY <2>3, <2>4, <2>5, <2>6 DEF PInv
  <1>4. ASSUME NEW c \in Commands, Join(c) PROVE PInv'
    <2>1. Goes(c, "prompting") /\ cmd[c] = "open" /\ c \in Pairs /\ c \in Sessions
      BY <1>4 DEF Join, Sessions
    <2>2. /\ cmd' \in [Commands -> Places] /\ queue' \in [Commands -> Seq(Events)]
          /\ \A d \in Commands : d # c => cmd'[d] = cmd[d]
          /\ cmd'[c] = "prompting"
      BY <2>1, GoesTypes DEF PInv, Places
    <2>3. stage[c] = "none" /\ vote[c] = "none" /\ outcome[c] = "none"
      BY <2>1 DEF PInv, SessionInv, CommandInv
    <2>4. TypeOK'
      BY <1>4, <2>1, <2>2, <2>3 DEF PInv, TypeOK, Join, Places
    <2>5. SessionInv'
      BY <1>4, <2>1, <2>3 DEF PInv, TypeOK, SessionInv, Join
    <2>6. CommandInv'
      <3>1. /\ subscribers' = subscribers /\ live' = live
            /\ stage' = [stage EXCEPT ![c] = "deciding"]
            /\ asked' = [asked EXCEPT ![c] = c]
        BY <1>4 DEF Join
      <3>2. /\ c \notin Invites /\ c \in subscribers
            /\ stage \in [Sessions -> {"none", "deciding", "agreed", "declined", "ended"}]
            /\ asked \in [Commands -> Sessions \cup {None}]
        BY <2>1 DEF PInv, TypeOK, CommandInv, Over
      <3>3. \A d \in Pairs : cmd'[d] \in {"subscribe", "open"} => stage'[d] = "none"
        BY <1>0, <2>2, <3>1, <3>2 DEF PInv, CommandInv
      <3>4. \A d \in Commands : cmd'[d] \in {"prompting", "answering"} => asked'[d] # None
        BY <1>0, <2>1, <2>2, <3>1, <3>2 DEF PInv, CommandInv
      <3>5. \A d \in Commands : d \in subscribers' \/ cmd'[d] \in Over \cup {"subscribe"}
        BY <2>2, <3>1, <3>2 DEF PInv, CommandInv
      <3>6. \A d \in live' : cmd'[d] \notin {"subscribe", "open"}
        BY <1>0, <2>2, <3>1 DEF PInv, CommandInv
      <3> QED
        BY <3>3, <3>4, <3>5, <3>6 DEF CommandInv
    <2>7. EventInv'
      BY <1>4, <2>1, GoesQueue, SameOutcome DEF PInv, Join
    <2> QED
      BY <2>4, <2>5, <2>6, <2>7 DEF PInv
  <1>5. ASSUME NEW c \in Commands, OpenFails(c) PROVE PInv'
    <2>1. Goes(c, "error")
      BY <1>5 DEF OpenFails
    <2>2. /\ cmd' \in [Commands -> Places] /\ queue' \in [Commands -> Seq(Events)]
          /\ \A d \in Commands : d # c => cmd'[d] = cmd[d]
          /\ cmd'[c] = "error"
      BY <2>1, GoesTypes DEF PInv, Places, Over
    <2>3. TypeOK'
      BY <1>5, <2>2 DEF PInv, TypeOK, OpenFails, humanVars, sessionVars, Places
    <2>4. SessionInv'
      BY <1>5 DEF PInv, SessionInv, OpenFails, humanVars, sessionVars
    <2>6. CommandInv'
      BY <1>5, <2>2 DEF PInv, TypeOK, CommandInv, OpenFails, humanVars, sessionVars, Over, Commands
    <2>5. EventInv'
      BY <1>5, <2>1, GoesQueue, SameOutcome DEF PInv, OpenFails, humanVars, sessionVars
    <2> QED
      BY <2>3, <2>4, <2>5, <2>6 DEF PInv
  <1>6. ASSUME NEW c \in Commands, NEW v \in {"yes", "no"}, AnswerPrompt(c, v) PROVE PInv'
    <2>1. Goes(c, "answering") /\ cmd[c] = "prompting" /\ asked[c] \in Sessions
      BY <1>6 DEF AnswerPrompt, PInv, TypeOK, CommandInv
    <2>2. /\ cmd' \in [Commands -> Places] /\ queue' \in [Commands -> Seq(Events)]
          /\ \A d \in Commands : d # c => cmd'[d] = cmd[d]
          /\ cmd'[c] = "answering"
      BY <2>1, GoesTypes DEF PInv, Places
    <2>3. TypeOK'
      BY <1>6, <2>1, <2>2 DEF PInv, TypeOK, AnswerPrompt, sessionVars, Places
    <2>4. SessionInv'
      BY <1>6, <2>1 DEF PInv, SessionInv, AnswerPrompt, sessionVars
    <2>6. CommandInv'
      BY <1>0, <1>6, <2>1, <2>2 DEF PInv, CommandInv, AnswerPrompt, sessionVars, Over
    <2>5. EventInv'
      BY <1>6, <2>1, GoesQueue, SameOutcome DEF PInv, AnswerPrompt, sessionVars
    <2> QED
      BY <2>3, <2>4, <2>5, <2>6 DEF PInv
  <1>7. ASSUME NEW c \in Commands, NEW v \in {"yes", "no"}, Resolve(c, v) PROVE PInv'
    <2> DEFINE s == asked[c]
               place == IF c \in Invites THEN "waiting"
                        ELSE IF pending[s] # "open" THEN "error"
                        ELSE IF v = "no" THEN "cancelled" ELSE "waiting"
    <2>1. Goes(c, place) /\ cmd[c] = "answering" /\ s \in Sessions /\ place \in Places
      BY <1>7 DEF Resolve, PInv, TypeOK, CommandInv, Places, Over
    <2>2. /\ cmd' \in [Commands -> Places] /\ queue' \in [Commands -> Seq(Events)]
          /\ \A d \in Commands : d # c => cmd'[d] = cmd[d]
          /\ cmd'[c] = place
      BY <2>1, GoesTypes DEF PInv
    <2>3. \/ pending' = pending /\ vote' = vote
          \/ /\ pending[s] = "open" /\ vote[s] = "none" /\ <<c, s, v>> \in answers
             /\ pending' = [pending EXCEPT ![s] = "taken"]
             /\ vote' = [vote EXCEPT ![s] = v]
      BY <1>7, <2>1 DEF Resolve, Taken, PInv, TypeOK
    <2>4. /\ stage' = stage /\ outcome' = outcome /\ answers' = answers
          /\ asked' = asked /\ report' = report /\ subscribers' = subscribers
          /\ up' = up /\ live' = live /\ ticket' = ticket
      BY <1>7 DEF Resolve, humanVars
    <2> HIDE DEF s, place
    <2>5. TypeOK'
      <3>0. /\ pending \in [Sessions -> {"absent", "open", "taken"}]
            /\ vote \in [Sessions -> {"none", "yes", "no"}]
            /\ \A t \in Sessions : pending[t] = "open" => vote[t] = "none"
        BY DEF PInv, TypeOK
      <3>1. /\ pending' \in [Sessions -> {"absent", "open", "taken"}]
            /\ vote' \in [Sessions -> {"none", "yes", "no"}]
            /\ \A t \in Sessions : pending'[t] = "open" => vote'[t] = "none"
        BY <2>1, <2>3, <3>0
      <3> QED
        BY <2>2, <2>4, <3>1 DEF PInv, TypeOK, Places
    <2>6. SessionInv'
      <3>1. \A t \in Sessions : vote'[t] = vote[t] \/ t = s
        BY <2>1, <2>3 DEF PInv, TypeOK
      <3>2. CASE pending' = pending /\ vote' = vote
        BY <2>4, <3>2 DEF PInv, SessionInv
      <3>3. CASE /\ pending[s] = "open" /\ pending'[s] # "open"
                 /\ \A t \in Sessions : t # s => pending'[t] = pending[t]
                 /\ vote[s] = "none" /\ vote'[s] = v /\ <<c, s, v>> \in answers
        <4>1. stage[s] # "none"
          BY <2>1, <3>3 DEF PInv, SessionInv
        <4>2. stage[s] # "agreed" /\ outcome[s] # "paired"
          <5>1. \A t \in Sessions : (stage[t] = "agreed" \/ outcome[t] = "paired") => vote[t] = "yes"
            BY DEF PInv, SessionInv
          <5>2. vote[s] # "yes" /\ s \in Sessions
            BY <2>1, <3>3
          <5> QED
            BY <5>1, <5>2
        <4>3. \A t \in Sessions : vote'[t] # "none" =>
                \E d \in Commands : <<d, t, vote'[t]>> \in answers
          <5>1. \A t \in Sessions : vote[t] # "none" =>
                  \E d \in Commands : <<d, t, vote[t]>> \in answers
            BY DEF PInv, SessionInv
          <5>2. <<c, s, vote'[s]>> \in answers
            BY <3>3
          <5> QED
            BY <3>1, <5>1, <5>2
        <4>4. \A t \in Sessions : stage[t] = "none" => vote'[t] = "none" /\ pending'[t] = "absent"
          BY <3>1, <3>3, <4>1 DEF PInv, SessionInv
        <4>5. \A t \in Sessions : stage[t] = "agreed" \/ outcome[t] = "paired" => vote'[t] = "yes"
          BY <3>1, <4>2 DEF PInv, SessionInv
        <4> QED
          BY <2>4, <4>3, <4>4, <4>5 DEF PInv, SessionInv
      <3> QED
        BY <2>1, <2>3, <3>2, <3>3 DEF PInv, TypeOK
    <2>7. CommandInv'
      BY <1>0, <2>1, <2>2, <2>4 DEF PInv, CommandInv, Over, place
    <2>8. EventInv'
      BY <1>7, <2>1, GoesQueue, SameOutcome DEF PInv, Resolve, humanVars
    <2> QED
      BY <2>5, <2>6, <2>7, <2>8 DEF PInv
  <1>8. ASSUME NEW c \in Commands, ReadEvent(c) PROVE PInv'
    <2> DEFINE e == Head(queue[c])
               asks == e.says = "requested" /\ c \in Invites
               stops == e.says # "requested" /\ Concerns(c, e)
               place == IF asks THEN "prompting" ELSE IF stops THEN "reported" ELSE "waiting"
    <2>1. /\ cmd[c] = "waiting" /\ queue[c] # << >>
          /\ asked' = [asked EXCEPT ![c] = IF asks THEN e.of ELSE @]
          /\ report' = [report EXCEPT ![c] = IF stops THEN e ELSE @]
          /\ Moves(c, place, Tail(queue[c]))
          /\ UNCHANGED <<answers, subscribers, up, live, sessionVars>>
      BY <1>8 DEF ReadEvent
    <2>2. /\ queue[c] \in Seq(Events) /\ e \in Events /\ Tail(queue[c]) \in Seq(Events)
          /\ \A x : Within(queue[c], x) <=> Within(Tail(queue[c]), x) \/ x = e
      BY <2>1, TailWithin DEF PInv, TypeOK
    <2>3. e.of \in Sessions /\ e.says \in Statuses \cup {"requested"}
      BY <2>2 DEF Events
    <2>4. place \in Places /\ place \notin {"subscribe", "open", "answering"}
      BY DEF Places, Over
    <2>5. /\ cmd' = [cmd EXCEPT ![c] = place]
          /\ queue' = [queue EXCEPT ![c] = IF place \in Over THEN << >> ELSE Tail(queue[c])]
      BY <2>1 DEF Moves
    <2>6. /\ cmd' \in [Commands -> Places] /\ queue' \in [Commands -> Seq(Events)]
          /\ \A d \in Commands : \A x : Within(queue'[d], x) => Within(queue[d], x)
      BY <2>2, <2>4, <2>5, EmptyWithin DEF PInv, TypeOK, Places
    <2>7. TypeOK'
      BY <2>1, <2>2, <2>3, <2>6 DEF PInv, TypeOK, sessionVars, Places
    <2>8. SessionInv'
      BY <2>1 DEF PInv, SessionInv, sessionVars
    <2>9. CommandInv'
      BY <2>1, <2>3, <2>4, <2>5 DEF PInv, TypeOK, CommandInv, sessionVars, Over, Commands, Sessions
    <2>10. stops => outcome[e.of] = e.says /\ (c \in Pairs => e.of = c)
      BY <2>2 DEF PInv, EventInv, Happened, Concerns
    <2>11. EventInv'
      <3>1. outcome' = outcome
        BY <2>1 DEF sessionVars
      <3>2. ReportsAreReal'
        BY <2>1, <2>10, <3>1 DEF PInv, TypeOK, EventInv, ReportsAreReal
      <3> QED
        BY <2>6, <3>1, <3>2 DEF PInv, EventInv, Happened
    <2> QED
      BY <2>7, <2>8, <2>9, <2>11 DEF PInv
  <1>9. ASSUME NEW c \in Commands, NoMoreEvents(c) PROVE PInv'
    <2>1. Goes(c, "disconnected")
      BY <1>9 DEF NoMoreEvents
    <2>2. /\ cmd' \in [Commands -> Places] /\ queue' \in [Commands -> Seq(Events)]
          /\ \A d \in Commands : d # c => cmd'[d] = cmd[d]
          /\ cmd'[c] = "disconnected"
      BY <2>1, GoesTypes DEF PInv, Places, Over
    <2>3. TypeOK'
      BY <1>9, <2>2 DEF PInv, TypeOK, NoMoreEvents, humanVars, sessionVars, Places
    <2>4. SessionInv'
      BY <1>9 DEF PInv, SessionInv, NoMoreEvents, humanVars, sessionVars
    <2>6. CommandInv'
      BY <1>9, <2>2 DEF PInv, TypeOK, CommandInv, NoMoreEvents, humanVars, sessionVars, Over, Commands
    <2>5. EventInv'
      BY <1>9, <2>1, GoesQueue, SameOutcome DEF PInv, NoMoreEvents, humanVars, sessionVars
    <2> QED
      BY <2>3, <2>4, <2>5, <2>6 DEF PInv
  <1>10. ASSUME NEW c \in Commands, Interrupt(c) PROVE PInv'
    <2>1. Goes(c, "interrupted")
      BY <1>10 DEF Interrupt
    <2>2. /\ cmd' \in [Commands -> Places] /\ queue' \in [Commands -> Seq(Events)]
          /\ \A d \in Commands : d # c => cmd'[d] = cmd[d]
          /\ cmd'[c] = "interrupted"
      BY <2>1, GoesTypes DEF PInv, Places, Over
    <2>3. TypeOK'
      BY <1>10, <2>2 DEF PInv, TypeOK, Interrupt, humanVars, sessionVars, Places
    <2>4. SessionInv'
      BY <1>10 DEF PInv, SessionInv, Interrupt, humanVars, sessionVars
    <2>6. CommandInv'
      BY <1>10, <2>2 DEF PInv, TypeOK, CommandInv, Interrupt, humanVars, sessionVars, Over, Commands
    <2>5. EventInv'
      BY <1>10, <2>1, GoesQueue, SameOutcome DEF PInv, Interrupt, humanVars, sessionVars
    <2> QED
      BY <2>3, <2>4, <2>5, <2>6 DEF PInv
  <1>11. ASSUME NEW c \in Commands, CallFails(c) PROVE PInv'
    <2> DEFINE place == IF c \in Invites /\ cmd[c] = "answering" THEN "waiting" ELSE "error"
    <2>1. Goes(c, place) /\ place \in Places /\ cmd[c] \in {"subscribe", "open", "answering"}
      BY <1>11 DEF CallFails, Places, Over
    <2>2. /\ cmd' \in [Commands -> Places] /\ queue' \in [Commands -> Seq(Events)]
          /\ \A d \in Commands : d # c => cmd'[d] = cmd[d]
          /\ cmd'[c] = place
      BY <2>1, GoesTypes DEF PInv
    <2>3. TypeOK'
      BY <1>11, <2>2 DEF PInv, TypeOK, CallFails, humanVars, sessionVars, Places
    <2>4. SessionInv'
      BY <1>11 DEF PInv, SessionInv, CallFails, humanVars, sessionVars
    <2>5. CommandInv'
      BY <1>11, <2>1, <2>2
      DEF PInv, TypeOK, CommandInv, CallFails, humanVars, sessionVars, Over, Commands
    <2>6. EventInv'
      BY <1>11, <2>1, GoesQueue, SameOutcome DEF PInv, CallFails, humanVars, sessionVars
    <2> QED
      BY <2>3, <2>4, <2>5, <2>6 DEF PInv
  <1>12. ASSUME NEW r \in Requests, ReplyFails(r) PROVE PInv'
    <2>1. TypeOK'
      BY <1>12 DEF PInv, TypeOK, ReplyFails, humanVars, Sessions, Statuses
    <2>2. outcome[r] = "none" /\ r \in Sessions
      BY <1>12 DEF PInv, SessionInv, ReplyFails, Sessions
    <2>3. SessionInv'
      BY <1>12, <2>2 DEF PInv, TypeOK, SessionInv, ReplyFails, humanVars
    <2>4. CommandInv'
      BY <1>12 DEF PInv, TypeOK, CommandInv, ReplyFails, humanVars, Commands
    <2>5. \A e \in Events : Happened(e) => e.says = "requested" \/ e.of # r
      BY <2>2 DEF Happened, Events, Statuses
    <2>6. EventInv'
      BY <1>12, <2>2, <2>5
      DEF PInv, TypeOK, EventInv, ReportsAreReal, Happened, ReplyFails, humanVars, Events, Statuses
    <2> QED
      BY <2>1, <2>3, <2>4, <2>6 DEF PInv
  <1>13. ASSUME NEW r \in Requests, NEW c \in Invites, Request(r, c) PROVE PInv'
    <2> DEFINE e == [of |-> r, says |-> "requested"]
    <2>1. r \in Sessions /\ e \in Events /\ Broadcast(e)
      BY <1>13 DEF Request, Sessions, Events
    <2>2. stage[r] = "none" /\ vote[r] = "none" /\ outcome[r] = "none"
      BY <1>13, <2>1 DEF Request, PInv, SessionInv
    <2>3. /\ queue' \in [Commands -> Seq(Events)]
          /\ \A d \in Commands : \A x : Within(queue'[d], x) => Within(queue[d], x) \/ x = e
      BY <2>1, BroadcastQueue DEF PInv
    <2>4. subscribers' = {d \in subscribers : cmd[d] \notin Over}
      BY <2>1 DEF Broadcast
    <2>5. TypeOK'
      BY <1>13, <2>1, <2>2, <2>3, <2>4 DEF PInv, TypeOK, Request, humanVars
    <2>6. SessionInv'
      BY <1>13, <2>1, <2>2 DEF PInv, TypeOK, SessionInv, Request, humanVars
    <2>7. CommandInv'
      BY <1>13, <2>4 DEF PInv, TypeOK, CommandInv, Request, humanVars, Commands
    <2>8. EventInv'
      BY <1>13, <2>3 DEF PInv, EventInv, ReportsAreReal, Happened, Request, humanVars
    <2> QED
      BY <2>5, <2>6, <2>7, <2>8 DEF PInv
  <1>14. ASSUME NEW s \in Sessions, Decide(s) PROVE PInv'
    <2>1. TypeOK'
      BY <1>14 DEF PInv, TypeOK, Decide, humanVars
    <2>2. SessionInv'
      BY <1>14 DEF PInv, TypeOK, SessionInv, Decide, LocalDecision, humanVars
    <2>3. CommandInv'
      BY <1>14 DEF PInv, TypeOK, CommandInv, Decide, humanVars
    <2>4. EventInv'
      BY <1>14, SameOutcome DEF PInv, Decide, humanVars
    <2> QED
      BY <2>1, <2>2, <2>3, <2>4 DEF PInv
  <1>15. ASSUME NEW s \in Sessions, NEW status \in Statuses, Finish(s, status) PROVE PInv'
    <2> DEFINE e == [of |-> s, says |-> status]
    <2>1. e \in Events /\ Broadcast(e)
      BY <1>15 DEF Finish, Announced, Events
    <2>2. outcome[s] = "none" /\ (status = "paired" => vote[s] = "yes") /\ status # "none"
      BY <1>15 DEF Finish, PInv, SessionInv, Statuses
    <2>3. /\ queue' \in [Commands -> Seq(Events)]
          /\ \A d \in Commands : \A x : Within(queue'[d], x) => Within(queue[d], x) \/ x = e
      BY <2>1, BroadcastQueue DEF PInv
    <2>4. /\ subscribers' = {d \in subscribers : cmd[d] \notin Over}
          /\ live' \subseteq live
      BY <1>15, <2>1 DEF Broadcast, Finish
    <2>5. TypeOK'
      BY <1>15, <2>3, <2>4 DEF PInv, TypeOK, Finish, humanVars
    <2>6. SessionInv'
      BY <1>15, <2>2 DEF PInv, TypeOK, SessionInv, Finish, humanVars
    <2>7. CommandInv'
      BY <1>15, <2>4 DEF PInv, TypeOK, CommandInv, Finish, humanVars
    <2>8. outcome' = [outcome EXCEPT ![s] = status] /\ report' = report
      BY <1>15 DEF Finish, humanVars
    <2>9. ASSUME NEW x \in Events, Happened(x) PROVE Happened(x)'
      <3>1. x.of = s => x.says = "requested"
        BY <2>2, <2>9 DEF Happened, Events, Statuses
      <3> QED
        BY <2>8, <2>9, <3>1 DEF Happened, PInv, TypeOK, Events
    <2>10. Happened(e)'
      BY <2>8 DEF Happened, PInv, TypeOK
    <2>11. ReportsAreReal'
      <3> SUFFICES ASSUME NEW c \in Commands, report[c] # None
                   PROVE  /\ outcome'[report[c].of] = report[c].says
                          /\ c \in Pairs => report[c].of = c
        BY <2>8 DEF ReportsAreReal
      <3>1. report[c] \in Events
        BY DEF PInv, TypeOK
      <3>2. /\ outcome[report[c].of] = report[c].says
            /\ c \in Pairs => report[c].of = c
        BY DEF PInv, EventInv, ReportsAreReal
      <3>3. CASE report[c].says = "requested"
        BY <3>1, <3>2, <3>3 DEF PInv, TypeOK, Events, Statuses
      <3>4. CASE report[c].says # "requested"
        BY <2>9, <3>1, <3>2, <3>4 DEF Happened
      <3> QED
        BY <3>3, <3>4
    <2>12. EventInv'
      BY <2>3, <2>9, <2>10, <2>11 DEF PInv, EventInv
    <2> QED
      BY <2>5, <2>6, <2>7, <2>12 DEF PInv
  <1>16. CASE DaemonGoes
    <2>1. TypeOK'
      BY <1>16 DEF PInv, TypeOK, DaemonGoes, humanVars, sessionVars
    <2>2. SessionInv' /\ CommandInv'
      BY <1>16 DEF PInv, SessionInv, CommandInv, DaemonGoes, humanVars, sessionVars
    <2>3. EventInv'
      BY <1>16, SameOutcome DEF PInv, DaemonGoes, humanVars, sessionVars
    <2> QED
      BY <2>1, <2>2, <2>3 DEF PInv
  <1> HIDE DEF PInv
  <1> QED
    BY <1>1, <1>2, <1>3, <1>4, <1>5, <1>6, <1>7, <1>8, <1>9, <1>10, <1>11, <1>12,
       <1>13, <1>14, <1>15, <1>16, StepCases

-----------------------------------------------------------------------------
(* Requests are heard.                                                     *)

Hears(c, r) ==
  \/ cmd[c] \in Over
  \/ cmd[c] = "prompting" /\ asked[c] = r
  \/ Within(queue[c], [of |-> r, says |-> "requested"])
  \/ \E v \in {"yes", "no"} : <<c, r, v>> \in answers

HeardInv == \A r \in Requests, c \in Invites : ticket[r] = c => Hears(c, r)

(* A step hears on if it takes no prompt away, keeps the queues of those   *)
(* who are not over, forgets no answer and leaves over who is over.        *)
LEMMA HearsOn ==
  ASSUME PInv, HeardInv, UNCHANGED ticket,
         answers \subseteq answers',
         \A d \in Invites : cmd[d] \in Over => cmd'[d] \in Over,
         \A d \in Invites : cmd[d] = "prompting" =>
           \/ cmd'[d] \in Over
           \/ cmd'[d] = "prompting" /\ asked'[d] = asked[d]
           \/ \E v \in {"yes", "no"} : <<d, asked[d], v>> \in answers',
         \A d \in Invites : \A x :
           Within(queue[d], x) => cmd'[d] \in Over \/ Within(queue'[d], x)
  PROVE  HeardInv'
  BY DEF HeardInv, Hears

LEMMA GoesHearsOn ==
  ASSUME PInv, HeardInv, UNCHANGED <<ticket, answers>>,
         \A d \in Invites : asked'[d] = asked[d],
         NEW c \in Commands, NEW place, Goes(c, place),
         cmd[c] \notin Over, cmd[c] # "prompting" \/ place \in Over
  PROVE  HeardInv'
  <1>1. Invites \subseteq Commands
    BY DEF Commands
  <1>2. /\ \A d \in Commands : queue'[d] = queue[d] \/ (d = c /\ place \in Over)
        /\ \A d \in Commands : d # c => cmd'[d] = cmd[d]
        /\ cmd'[c] = place
    BY GoesQueue DEF PInv
  <1> QED
    BY <1>1, <1>2, HearsOn

LEMMA HeardStep ==
  ASSUME PInv, HeardInv, [Next]_vars
  PROVE  HeardInv'
  <1> USE KindAssumption, NoneAssumption
  <1>0. Invites \subseteq Commands
    BY DEF Commands
  <1>1. CASE UNCHANGED vars
    BY <1>1 DEF vars, humanVars, sessionVars, HeardInv, Hears
  <1>2. ASSUME NEW c \in Commands, Subscribe(c) PROVE HeardInv'
    BY <1>2, GoesHearsOn DEF Subscribe, humanVars, sessionVars, Over
  <1>3. ASSUME NEW c \in Commands, CreateInvite(c) PROVE HeardInv'
    BY <1>3, GoesHearsOn DEF CreateInvite, humanVars, sessionVars, Over
  <1>4. ASSUME NEW c \in Commands, Join(c) PROVE HeardInv'
    <2>1. \A d \in Invites : asked'[d] = asked[d]
      BY <1>0, <1>4 DEF Join, PInv, TypeOK
    <2>2. /\ Goes(c, "prompting") /\ cmd[c] = "open"
          /\ UNCHANGED <<ticket, answers>>
      BY <1>4 DEF Join
    <2> QED
      BY <2>1, <2>2, GoesHearsOn DEF Over
  <1>5. ASSUME NEW c \in Commands, OpenFails(c) PROVE HeardInv'
    BY <1>5, GoesHearsOn DEF OpenFails, humanVars, sessionVars, Over
  <1>6. ASSUME NEW c \in Commands, NEW v \in {"yes", "no"}, AnswerPrompt(c, v)
        PROVE  HeardInv'
    <2>1. /\ \A d \in Commands : queue'[d] = queue[d] \/ (d = c /\ "answering" \in Over)
          /\ \A d \in Commands : d # c => cmd'[d] = cmd[d]
      BY <1>6, GoesQueue DEF AnswerPrompt, PInv
    <2>2. /\ "answering" \notin Over /\ cmd[c] \notin Over
          /\ <<c, asked[c], v>> \in answers' /\ answers \subseteq answers'
          /\ UNCHANGED <<ticket, asked>>
      BY <1>6 DEF AnswerPrompt, sessionVars, Over
    <2> QED
      BY <1>0, <2>1, <2>2, HearsOn
  <1>7. ASSUME NEW c \in Commands, NEW v \in {"yes", "no"}, Resolve(c, v)
        PROVE  HeardInv'
    <2> DEFINE place == IF c \in Invites THEN "waiting"
                        ELSE IF pending[asked[c]] # "open" THEN "error"
                        ELSE IF v = "no" THEN "cancelled" ELSE "waiting"
    <2>1. /\ Goes(c, place) /\ cmd[c] = "answering"
          /\ UNCHANGED <<ticket, asked, answers>>
      BY <1>7 DEF Resolve, humanVars
    <2> QED
      BY <2>1, GoesHearsOn DEF Over
  <1>8. ASSUME NEW c \in Commands, ReadEvent(c) PROVE HeardInv'
    <2> DEFINE e == Head(queue[c])
               asks == e.says = "requested" /\ c \in Invites
               stops == e.says # "requested" /\ Concerns(c, e)
               place == IF asks THEN "prompting" ELSE IF stops THEN "reported" ELSE "waiting"
    <2>1. /\ cmd[c] = "waiting" /\ queue[c] # << >>
          /\ asked' = [asked EXCEPT ![c] = IF asks THEN e.of ELSE @]
          /\ cmd' = [cmd EXCEPT ![c] = place]
          /\ queue' = [queue EXCEPT ![c] = IF place \in Over THEN << >> ELSE Tail(queue[c])]
          /\ UNCHANGED <<answers, ticket>>
      BY <1>8 DEF ReadEvent, Moves, sessionVars
    <2>2. /\ e \in Events
          /\ \A x : Within(queue[c], x) <=> Within(Tail(queue[c]), x) \/ x = e
      BY <2>1, TailWithin DEF PInv, TypeOK
    <2> HIDE DEF e
    <2>3. ASSUME NEW r \in Requests, NEW d \in Invites, ticket[r] = d PROVE Hears(d, r)'
      <3>1. Hears(d, r) /\ d \in Commands
        BY <1>0, <2>3 DEF HeardInv
      <3>2. CASE d # c
        <4>1. cmd'[d] = cmd[d] /\ asked'[d] = asked[d] /\ queue'[d] = queue[d]
          BY <2>1, <3>1, <3>2 DEF PInv, TypeOK
        <4> QED
          BY <2>1, <3>1, <4>1 DEF Hears
      <3>3. CASE d = c
        <4>1. /\ cmd'[c] = place
              /\ asked'[c] = IF asks THEN e.of ELSE asked[c]
              /\ queue'[c] = IF place \in Over THEN << >> ELSE Tail(queue[c])
          BY <2>1 DEF PInv, TypeOK
        <4>2. CASE place \in Over
          BY <3>3, <4>1, <4>2 DEF Hears
        <4>3. CASE place \notin Over /\ e = [of |-> r, says |-> "requested"]
          <5>1. place = "prompting" /\ asked'[c] = r
            BY <3>1, <3>3, <4>1, <4>3
          <5> QED
            BY <3>3, <4>1, <5>1 DEF Hears
        <4>4. CASE place \notin Over /\ e # [of |-> r, says |-> "requested"]
          <5>1. \/ Within(Tail(queue[c]), [of |-> r, says |-> "requested"])
                \/ \E v \in {"yes", "no"} : <<c, r, v>> \in answers
            BY <2>1, <2>2, <3>1, <3>3, <4>4 DEF Hears, Over
          <5> QED
            BY <2>1, <3>3, <4>1, <4>4, <5>1 DEF Hears
        <4> QED
          BY <4>2, <4>3, <4>4
      <3> QED
        BY <3>2, <3>3
    <2> QED
      BY <2>1, <2>3 DEF HeardInv
  <1>9. ASSUME NEW c \in Commands, NoMoreEvents(c) PROVE HeardInv'
    BY <1>9, GoesHearsOn DEF NoMoreEvents, humanVars, sessionVars, Over
  <1>10. ASSUME NEW c \in Commands, Interrupt(c) PROVE HeardInv'
    BY <1>10, GoesHearsOn DEF Interrupt, humanVars, sessionVars, Over
  <1>11. ASSUME NEW c \in Commands, CallFails(c) PROVE HeardInv'
    BY <1>11, GoesHearsOn DEF CallFails, humanVars, sessionVars, Over
  <1>12. ASSUME NEW r \in Requests, ReplyFails(r) PROVE HeardInv'
    BY <1>12, HearsOn DEF ReplyFails, humanVars
  <1>13. ASSUME NEW r \in Requests, NEW c \in Invites, Request(r, c) PROVE HeardInv'
    <2> DEFINE e == [of |-> r, says |-> "requested"]
    <2>1. /\ Broadcast(e) /\ e \in Events /\ c \in live
          /\ ticket' = [ticket EXCEPT ![r] = c]
          /\ UNCHANGED <<cmd, asked, answers>>
      BY <1>13 DEF Request, humanVars, Events, Sessions
    <2>2. /\ \A d \in Commands : \A x : Within(queue[d], x) => Within(queue'[d], x)
          /\ \A d \in Listeners : Within(queue'[d], e)
      BY <2>1, BroadcastQueue DEF PInv
    <2>3. cmd[c] \in Over \/ c \in Listeners
      BY <1>0, <2>1 DEF PInv, CommandInv, Listeners
    <2>4. Hears(c, r)'
      BY <2>1, <2>2, <2>3 DEF Hears
    <2>5. ASSUME NEW q \in Requests, NEW d \in Invites, ticket[q] = d PROVE Hears(d, q)'
      <3>1. Hears(d, q) /\ d \in Commands
        BY <1>0, <2>5 DEF HeardInv
      <3> QED
        BY <2>1, <2>2, <3>1 DEF Hears
    <2>6. \A q \in Requests : ticket'[q] = IF q = r THEN c ELSE ticket[q]
      BY <2>1 DEF PInv, TypeOK
    <2> QED
      BY <2>4, <2>5, <2>6 DEF HeardInv
  <1>14. ASSUME NEW s \in Sessions, Decide(s) PROVE HeardInv'
    BY <1>14, HearsOn DEF Decide, humanVars
  <1>15. ASSUME NEW s \in Sessions, NEW status \in Statuses, Finish(s, status)
         PROVE  HeardInv'
    <2> DEFINE e == [of |-> s, says |-> status]
    <2>1. /\ Broadcast(e) /\ e \in Events
          /\ UNCHANGED <<cmd, asked, answers, ticket>>
      BY <1>15 DEF Finish, Announced, humanVars, Events
    <2>2. \A d \in Commands : \A x : Within(queue[d], x) => Within(queue'[d], x)
      BY <2>1, BroadcastQueue DEF PInv
    <2> QED
      BY <1>0, <2>1, <2>2, HearsOn
  <1>16. CASE DaemonGoes
    BY <1>16, HearsOn DEF DaemonGoes, humanVars, sessionVars
  <1> HIDE DEF PInv
  <1> QED
    BY <1>1, <1>2, <1>3, <1>4, <1>5, <1>6, <1>7, <1>8, <1>9, <1>10, <1>11, <1>12,
       <1>13, <1>14, <1>15, <1>16, StepCases

-----------------------------------------------------------------------------
(* The theorems.                                                           *)

LEMMA PAlways == Safety => []PInv
  <1>1. Init => PInv
    BY PInit
  <1>2. PInv /\ [Next]_vars => PInv'
    BY PStep
  <1> QED
    BY <1>1, <1>2, PTL DEF Safety

(* Every variable of the commands and the sessions keeps its type, and no  *)
(* entry of the table offers its sender once an answer was taken.          *)
THEOREM TypeCorrect == Safety => []TypeOK
  <1>1. PInv => TypeOK
    BY DEF PInv
  <1> QED
    BY <1>1, PAlways, PTL

(* No invite command misses a request on its ticket (subscribing comes     *)
(* before creating the invite).                                            *)
THEOREM Heard == Safety => []RequestHeard
  <1>1. Init => HeardInv
    BY NoneAssumption DEF Init, HeardInv, Commands
  <1>2. PInv /\ HeardInv /\ [Next]_vars => HeardInv'
    BY HeardStep
  <1>3. PInv /\ HeardInv => RequestHeard
    BY DEF PInv, TypeOK, HeardInv, Hears, Within, RequestHeard
  <1> QED
    BY <1>1, <1>2, <1>3, PAlways, PTL DEF Safety

(* What a command reports at its end is how that session ended.            *)
THEOREM TrueReports == Safety => []ReportsAreReal
  <1>1. PInv => ReportsAreReal
    BY DEF PInv, EventInv
  <1> QED
    BY <1>1, PAlways, PTL

(* No session of this daemon pairs without a yes at one of its prompts.    *)
THEOREM PairedOnYes == Safety => []PairedWasConfirmed
  <1>1. PInv => PairedWasConfirmed
    <2> SUFFICES ASSUME PInv, NEW s \in Sessions, outcome[s] = "paired"
                 PROVE  \E c \in Commands : <<c, s, "yes">> \in answers
      BY DEF PairedWasConfirmed
    <2>1. vote[s] = "yes"
      BY DEF PInv, SessionInv
    <2> QED
      BY <2>1 DEF PInv, SessionInv
  <1> QED
    BY <1>1, PAlways, PTL

(* Of several answers to one session, from one command or several, the     *)
(* first to reach the daemon is the one it takes.                          *)
THEOREM FirstCounts == Safety => FirstAnswerCounts
  <1> DEFINE A == \A s \in Sessions : vote[s] # "none" => vote'[s] = vote[s]
  <1>1. ASSUME PInv, Next PROVE A
    <2> SUFFICES ASSUME NEW s \in Sessions, vote[s] # "none" PROVE vote'[s] = vote[s]
      OBVIOUS
    <2>1. UNCHANGED vote \/ \E c \in Commands, v \in {"yes", "no"} : Resolve(c, v)
      BY <1>1, StepCases
      DEF Subscribe, CreateInvite, Join, OpenFails, AnswerPrompt, ReadEvent, NoMoreEvents,
          Interrupt, CallFails, ReplyFails, Request, Decide, Finish, DaemonGoes,
          humanVars, sessionVars
    <2>2. ASSUME NEW c \in Commands, NEW v \in {"yes", "no"}, Resolve(c, v)
          PROVE  vote'[s] = vote[s]
      <3>1. pending[s] # "open" /\ vote \in [Sessions -> {"none", "yes", "no"}]
        BY <1>1 DEF PInv, TypeOK
      <3>2. vote' = vote \/ (pending[asked[c]] = "open" /\ vote' = [vote EXCEPT ![asked[c]] = v])
        BY <2>2 DEF Resolve, Taken
      <3> QED
        BY <3>1, <3>2
    <2> QED
      BY <2>1, <2>2
  <1>2. PInv /\ [Next]_vars => [A]_vars
    BY <1>1
  <1> QED
    BY <1>2, PAlways, PTL DEF Safety, FirstAnswerCounts
=============================================================================

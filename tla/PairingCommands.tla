--------------------------- MODULE PairingCommands ---------------------------
(***************************************************************************)
(* The invite and pair commands of the CLI against one daemon              *)
(* (crates/lcp-cli/src/commands/invite.rs and pair.rs): the calls they     *)
(* make, the events they wait for, and the humans at their prompts.        *)
(*                                                                         *)
(* Each command has a connection of its own.  Its requests are handled one *)
(* at a time; the events pushed to it are kept in order, apart from the    *)
(* answers, until it asks for the next one (lcp-ipc server.rs, client.rs). *)
(* A pairing session is what Pairing shows in full, seen from its daemon:  *)
(* it waits for a human's answer, settles, and announces how it ended.  An *)
(* invite command causes sessions through its ticket; a pair command has   *)
(* one, which bears its name.                                              *)
(***************************************************************************)
EXTENDS Naturals, Sequences

CONSTANTS
  Invites,   \* runs of the invite command
  Pairs,     \* runs of the pair command
  Requests,  \* pairing requests that reach the daemon
  None       \* no session, no command, no report

Commands == Invites \cup Pairs
Sessions == Requests \cup Pairs

ASSUME KindAssumption == Invites \cap Pairs = {} /\ Requests \cap Commands = {}
ASSUME NoneAssumption == None \notin Commands \cup Sessions

VARIABLES
  cmd,          \* cmd[c]: where command c is
  asked,        \* asked[c]: the session its human was last asked about
  answers,      \* what the humans said: <<command, session, yes or no>>
  report,       \* report[c]: the event command c ended with
  queue,        \* queue[c]: events on their way to c
  subscribers,  \* AppState.subscribers
  up,           \* the daemon runs
  live,         \* the invite commands whose invite is in active_invites
  ticket,       \* ticket[r]: the invite whose ticket request r presented
  stage,        \* stage[s]: where the exchange of session s is
  pending,      \* pending[s]: its entry in pending_pairings
  vote,         \* vote[s]: the answer the daemon took
  outcome       \* outcome[s]: how session s ended

humanVars == <<asked, answers, report>>
sessionVars == <<ticket, stage, pending, vote, outcome>>
vars == <<cmd, humanVars, queue, subscribers, up, live, sessionVars>>

Statuses == {"paired", "rejected", "failed"}
Over == {"reported", "error", "cancelled", "disconnected", "interrupted"}

(* An IpcEvent: PAIRING_REQUESTED, or PAIRING_UPDATED with its status. *)
Events == [of : Sessions, says : Statuses \cup {"requested"}]

TypeOK ==
  /\ cmd \in [Commands -> {"subscribe", "open", "prompting", "answering",
                           "waiting"} \cup Over]
  /\ asked \in [Commands -> Sessions \cup {None}]
  /\ answers \subseteq Commands \X Sessions \X {"yes", "no"}
  /\ report \in [Commands -> Events \cup {None}]
  /\ queue \in [Commands -> Seq(Events)]
  /\ subscribers \subseteq Commands
  /\ up \in BOOLEAN
  /\ live \subseteq Invites
  /\ ticket \in [Requests -> Invites \cup {None}]
  /\ stage \in [Sessions -> {"none", "deciding", "agreed", "declined", "ended"}]
  /\ pending \in [Sessions -> {"absent", "open", "taken"}]
  /\ vote \in [Sessions -> {"none", "yes", "no"}]
  /\ \A s \in Sessions : pending[s] = "open" => vote[s] = "none"
  /\ outcome \in [Sessions -> Statuses \cup {"none", "silent"}]

(* The mutant creates the invite first and subscribes after it. *)
FirstCall_Open == "open"

(* The first call of a command; the second is the other one. *)
FirstCall == "subscribe"

Init ==
  /\ cmd = [c \in Commands |-> FirstCall]
  /\ asked = [c \in Commands |-> None]
  /\ answers = {}
  /\ report = [c \in Commands |-> None]
  /\ queue = [c \in Commands |-> << >>]
  /\ subscribers = {}
  /\ up = TRUE
  /\ live = {}
  /\ ticket = [r \in Requests |-> None]
  /\ stage = [s \in Sessions |-> "none"]
  /\ pending = [s \in Sessions |-> "absent"]
  /\ vote = [s \in Sessions |-> "none"]
  /\ outcome = [s \in Sessions |-> "none"]

(* The mutant loses an event for a command that is not in next_event. *)
Listeners_Waiting == {c \in subscribers : cmd[c] = "waiting"}

(* The subscribers whose connection stands. *)
Listeners == {c \in subscribers : cmd[c] \notin Over}

(* broadcast_event: every listener gets the event, the others are dropped. *)
Broadcast(e) ==
  /\ queue' = [c \in Commands |->
                 IF c \in Listeners THEN Append(queue[c], e) ELSE queue[c]]
  /\ subscribers' = {c \in subscribers : cmd[c] \notin Over}

(* Command c moves to another place with these events left to read.  When  *)
(* it is over its connection is gone, and they with it.                    *)
Moves(c, place, left) ==
  /\ cmd' = [cmd EXCEPT ![c] = place]
  /\ queue' = [queue EXCEPT ![c] = IF place \in Over THEN << >> ELSE left]

Goes(c, place) == Moves(c, place, queue[c])

-----------------------------------------------------------------------------
(* The calls of a command, each answered before the next is made.          *)

(* Where a command is once the daemon has answered this call. *)
After(call) == IF call # FirstCall THEN "waiting"
               ELSE IF call = "subscribe" THEN "open" ELSE "subscribe"

Subscribe(c) ==
  /\ up
  /\ cmd[c] = "subscribe"
  /\ subscribers' = subscribers \cup {c}
  /\ Goes(c, After("subscribe"))
  /\ UNCHANGED <<humanVars, up, live, sessionVars>>

(* CREATE_INVITE. *)
CreateInvite(c) ==
  /\ up
  /\ c \in Invites /\ cmd[c] = "open"
  /\ live' = live \cup {c}
  /\ Goes(c, After("open"))
  /\ UNCHANGED <<humanVars, subscribers, up, sessionVars>>

(* JOIN_INVITE succeeds: the exchange runs in a task of its own, and the   *)
(* command prompts at once.                                                *)
Join(c) ==
  /\ up
  /\ c \in Pairs /\ cmd[c] = "open"
  /\ stage' = [stage EXCEPT ![c] = "deciding"]
  /\ pending' = [pending EXCEPT ![c] = "open"]
  /\ asked' = [asked EXCEPT ![c] = c]
  /\ Goes(c, "prompting")
  /\ UNCHANGED <<answers, report, subscribers, up, live, ticket, vote, outcome>>

(* CREATE_INVITE or JOIN_INVITE returns an error, and so does the command. *)
OpenFails(c) ==
  /\ up
  /\ cmd[c] = "open"
  /\ Goes(c, "error")
  /\ UNCHANGED <<humanVars, subscribers, up, live, sessionVars>>

(* The human at the prompt: CONFIRM_PAIRING or REJECT_PAIRING is sent. *)
AnswerPrompt(c, v) ==
  /\ cmd[c] = "prompting"
  /\ answers' = answers \cup {<<c, asked[c], v>>}
  /\ Goes(c, "answering")
  /\ UNCHANGED <<asked, report, subscribers, up, live, sessionVars>>

(* The mutant leaves the sender in the entry. *)
Taken_Kept(s) == pending

Taken(s) == [pending EXCEPT ![s] = "taken"]

(* resolve_pairing_decision: the first answer takes the sender, whether or *)
(* not the exchange still listens; a later one gets an error.  The invite  *)
(* command ignores the response, the pair command ends if it is an error   *)
(* or if its human said no.                                                *)
Resolve(c, v) ==
  LET s == asked[c]
      accepted == pending[s] = "open"
  IN /\ up
     /\ cmd[c] = "answering" /\ <<c, s, v>> \in answers
     /\ IF accepted
        THEN pending' = Taken(s) /\ vote' = [vote EXCEPT ![s] = v]
        ELSE UNCHANGED <<pending, vote>>
     /\ Goes(c, IF c \in Invites THEN "waiting"
                ELSE IF ~accepted THEN "error"
                ELSE IF v = "no" THEN "cancelled" ELSE "waiting")
     /\ UNCHANGED <<humanVars, subscribers, up, live, ticket, stage, outcome>>

-----------------------------------------------------------------------------
(* Events.                                                                 *)

(* The mutant takes the update of any session for its own. *)
Concerns_Any(c, e) == TRUE

(* An invite command heeds every session, a pair command its own. *)
Concerns(c, e) == c \in Invites \/ e.of = c

(* next_event.  A request makes an invite command prompt, the first update *)
(* that concerns it ends a command; everything else is skipped.            *)
ReadEvent(c) ==
  /\ cmd[c] = "waiting" /\ queue[c] # << >>
  /\ LET e == Head(queue[c])
         asks == e.says = "requested" /\ c \in Invites
         ends == e.says # "requested" /\ Concerns(c, e)
     IN /\ asked' = [asked EXCEPT ![c] = IF asks THEN e.of ELSE @]
        /\ report' = [report EXCEPT ![c] = IF ends THEN e ELSE @]
        /\ Moves(c, IF asks THEN "prompting" ELSE IF ends THEN "reported" ELSE "waiting",
                 Tail(queue[c]))
  /\ UNCHANGED <<answers, subscribers, up, live, sessionVars>>

(* The daemon has gone and every event has been read. *)
NoMoreEvents(c) ==
  /\ ~up
  /\ cmd[c] = "waiting" /\ queue[c] = << >>
  /\ Goes(c, "disconnected")
  /\ UNCHANGED <<humanVars, subscribers, up, live, sessionVars>>

-----------------------------------------------------------------------------
(* Sessions of the daemon.                                                 *)

(* handle_pair_request lets request r in: the entry is made and announced  *)
(* in one critical section.                                                *)
Request(r, c) ==
  /\ up
  /\ stage[r] = "none"
  /\ c \in live
  /\ ticket' = [ticket EXCEPT ![r] = c]
  /\ stage' = [stage EXCEPT ![r] = "deciding"]
  /\ pending' = [pending EXCEPT ![r] = "open"]
  /\ Broadcast([of |-> r, says |-> "requested"])
  /\ UNCHANGED <<cmd, humanVars, up, live, vote, outcome>>

(* The PairDecision cannot be written: the handler returns, the entry      *)
(* stays and nothing is announced.                                         *)
ReplyFails(r) ==
  /\ up
  /\ r \in Requests /\ stage[r] = "deciding"
  /\ stage' = [stage EXCEPT ![r] = "ended"]
  /\ outcome' = [outcome EXCEPT ![r] = "silent"]
  /\ UNCHANGED <<cmd, humanVars, queue, subscribers, up, live, ticket, pending, vote>>

(* The mutant takes silence for consent. *)
LocalDecision_Eager(s) == vote[s] # "no"

(* local_confirmed: a yes that came within the time. *)
LocalDecision(s) == vote[s] = "yes"

(* The human's answer is there, or its time is over.  From here on nobody  *)
(* listens to an answer, but the entry still offers its sender.            *)
Decide(s) ==
  /\ up
  /\ stage[s] = "deciding"
  /\ stage' = [stage EXCEPT ![s] = IF LocalDecision(s) THEN "agreed" ELSE "declined"]
  /\ UNCHANGED <<cmd, humanVars, queue, subscribers, up, live, ticket, pending, vote, outcome>>

(* The mutant says nothing of a failure. *)
Announced_Success(s, status) ==
  IF status = "failed" THEN UNCHANGED <<queue, subscribers>>
  ELSE Broadcast([of |-> s, says |-> status])

Announced(s, status) == Broadcast([of |-> s, says |-> status])

(* finish_pairing: entry and invite are removed, the outcome announced.    *)
Finish(s, status) ==
  /\ up
  /\ stage[s] \in {"agreed", "declined"}
  /\ status = "paired" => stage[s] = "agreed"
  /\ stage' = [stage EXCEPT ![s] = "ended"]
  /\ pending' = [pending EXCEPT ![s] = "absent"]
  /\ outcome' = [outcome EXCEPT ![s] = status]
  /\ live' = IF s \in Requests THEN live \ {ticket[s]} ELSE live
  /\ Announced(s, status)
  /\ UNCHANGED <<cmd, humanVars, up, ticket, vote>>

-----------------------------------------------------------------------------
(* Ends of connections.                                                    *)

(* Ctrl+C.  The daemon goes on with the invite and the session. *)
Interrupt(c) ==
  /\ cmd[c] \notin Over
  /\ Goes(c, "interrupted")
  /\ UNCHANGED <<humanVars, subscribers, up, live, sessionVars>>

(* The daemon is stopped; what it has pushed can still be read. *)
DaemonGoes ==
  /\ up
  /\ up' = FALSE
  /\ UNCHANGED <<cmd, humanVars, queue, subscribers, live, sessionVars>>

(* A call to a daemon that is gone fails, or, if it was made before that,  *)
(* may never return.  The invite command ignores a failing answer.         *)
CallFails(c) ==
  /\ ~up
  /\ cmd[c] \in {"subscribe", "open", "answering"}
  /\ Goes(c, IF c \in Invites /\ cmd[c] = "answering" THEN "waiting" ELSE "error")
  /\ UNCHANGED <<humanVars, subscribers, up, live, sessionVars>>

-----------------------------------------------------------------------------
Call(c) ==
  \/ Subscribe(c) \/ CreateInvite(c) \/ Join(c) \/ OpenFails(c)
  \/ \E v \in {"yes", "no"} : Resolve(c, v)

Wait(c) == ReadEvent(c) \/ NoMoreEvents(c)

Exchange(s) == Decide(s) \/ \E status \in Statuses : Finish(s, status)

Next ==
  \/ \E c \in Commands :
       \/ Call(c) \/ Wait(c) \/ Interrupt(c) \/ CallFails(c)
       \/ \E v \in {"yes", "no"} : AnswerPrompt(c, v)
  \/ \E r \in Requests : ReplyFails(r) \/ \E c \in Invites : Request(r, c)
  \/ \E s \in Sessions : Exchange(s)
  \/ DaemonGoes

(* A call to a running daemon is answered, and an exchange goes on, as     *)
(* their awaits are under timers; a command that waits takes the next      *)
(* event.  Humans and peers owe nothing: no command need be run.           *)
Fairness ==
  /\ \A c \in Commands :
       WF_vars(cmd[c] # FirstCall /\ Call(c)) /\ WF_vars(Wait(c))
  /\ \A s \in Sessions : WF_vars(Exchange(s))

Safety == Init /\ [][Next]_vars
Spec == Safety /\ Fairness

-----------------------------------------------------------------------------
(* Properties.                                                             *)

(* "Subscribe before creating the invite so we can't miss a fast           *)
(* pairing_requested event" (invite.rs): a request on a command's ticket   *)
(* is on its way to the command, at its prompt or answered, however fast   *)
(* it came and whatever the command was doing, until the command is over.  *)
RequestHeard ==
  \A r \in Requests :
    LET c == ticket[r]
    IN c # None =>
         \/ cmd[c] \in Over
         \/ cmd[c] = "prompting" /\ asked[c] = r
         \/ \E i \in 1 .. Len(queue[c]) : queue[c][i] = [of |-> r, says |-> "requested"]
         \/ \E v \in {"yes", "no"} : <<c, r, v>> \in answers

(* What a command reports has happened: a session of this daemon ended     *)
(* that way.  A pair command reports its own session; an invite command    *)
(* may report one that is not its own (invite.rs:102).                     *)
ReportsAreReal ==
  \A c \in Commands :
    report[c] # None =>
      /\ outcome[report[c].of] = report[c].says
      /\ c \in Pairs => report[c].of = c

(* A session pairs only after a human at this daemon was asked about it    *)
(* and said yes in time: the timer, a late answer, a second command that   *)
(* asks about the same session and a cancelled pair command never pair.    *)
PairedWasConfirmed ==
  \A s \in Sessions :
    outcome[s] = "paired" => \E c \in Commands : <<c, s, "yes">> \in answers

(* "consumed exactly once, by whichever confirm_pairing/reject_pairing     *)
(* call answers it first" (pairing.rs): with two commands prompting for    *)
(* one request, the second answer changes nothing.                         *)
FirstAnswerCounts ==
  [][\A s \in Sessions : vote[s] # "none" => vote'[s] = vote[s]]_vars

(* A pair command that has confirmed does not wait for ever. *)
PairEnds == \A c \in Pairs : cmd[c] = "waiting" ~> cmd[c] # "waiting"

(* An invite command does not wait on once the outcome of a request on its *)
(* ticket has been announced, at whatever moment that was.                 *)
InviteEnds ==
  \A r \in Requests, c \in Invites :
    (ticket[r] = c /\ outcome[r] \in Statuses /\ cmd[c] = "waiting")
      ~> cmd[c] # "waiting"
=============================================================================

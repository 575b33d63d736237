------------------------------ MODULE Messaging ------------------------------
(***************************************************************************)
(* Texts between two paired daemons: send_text with its connection cache   *)
(* (crates/lcp-core/src/transport.rs, connection.rs), the accepting side   *)
(* with the tie-break between simultaneous dials, handle_text, and unpair. *)
(*                                                                         *)
(* A send is one send_text call with one message.  It dials at most once,  *)
(* so the connection it dials carries its name.  A QUIC connection ends    *)
(* for a daemon when it closes it, loses it, is stopped, or, having dialed *)
(* it, drops its last handle; the accepting daemon's accept loop keeps a   *)
(* handle for as long as the connection lives.  The other daemon notices   *)
(* later, from a close frame or its idle timer; until then its end is half *)
(* open.  Streams opened on a connection are read only by an accept loop,  *)
(* and only the side that accepted the connection runs one.  A step is the *)
(* code between two awaits; both daemons run their tasks concurrently.     *)
(***************************************************************************)
EXTENDS Naturals

CONSTANTS
  Low, High,   \* the two daemons; Low has the smaller endpoint id
  Sends,       \* send_text calls, on either daemon
  None,        \* no connection, no daemon
  MaxHits      \* bound: losses, unpairings and restarts in one behaviour

ASSUME DaemonAssumption == Low # High
ASSUME NoneAssumption == None \notin Sends /\ None \notin {Low, High}
ASSUME BoundAssumption == MaxHits \in Nat

Daemons == {Low, High}
Other(n) == IF n = Low THEN High ELSE Low

VARIABLES
  trusted,   \* trusted[n]: the other daemon is in n's trusted_peers
  filed,     \* filed[n]: it is so in n's config.json
  registry,  \* registry[n]: PeerRuntimeState.connection for the other daemon
  sender,    \* sender[k]: the daemon that runs send k; it dials connection k
  pc,        \* pc[k]: where send k is
  via,       \* via[k]: the connection send k uses
  ends,      \* ends[c]: the daemons for which connection c has not ended
  accept,    \* accept[c]: where the accept task of connection c is
  stream,    \* stream[k]: what the receiver did with the text of send k
  reply,     \* reply[k]: the answer on its way back
  stored,    \* sends whose text the receiver has recorded
  excused,   \* excused[k]: a loss, a late answer, an unpairing or a restart
             \* hit send k
  barred,    \* sends that had not been written when their receiver reported
             \* their sender unpaired
  hits       \* losses, unpairings and restarts so far

vars == <<trusted, filed, registry, sender, pc, via, ends, accept, stream, reply,
          stored, excused, barred, hits>>

(* What sending, accepting and handling leave alone. *)
hitVars == <<filed, barred, hits>>

(* Places where a send holds a handle of its connection. *)
Holding == {"dialed", "ready", "waiting"}
Ended == {"sent", "notsent", "lost"}

TypeOK ==
  /\ trusted \in [Daemons -> BOOLEAN] /\ filed \in [Daemons -> BOOLEAN]
  /\ registry \in [Daemons -> Sends \cup {None}]
  /\ sender \in [Sends -> Daemons \cup {None}]
  /\ pc \in [Sends -> {"idle", "started", "dialing", "failed"} \cup Holding \cup Ended]
  /\ via \in [Sends -> Sends \cup {None}]
  /\ ends \in [Sends -> SUBSET Daemons]
  /\ accept \in [Sends -> {"none", "trusted", "loop", "refused", "gone"}]
  /\ stream \in [Sends -> {"none", "written", "authorized", "stored", "answered",
                           "dropped"}]
  /\ reply \in [Sends -> {"none", "ack", "error"}]
  /\ stored \subseteq Sends
  /\ {k \in Sends : stream[k] \in {"stored", "answered"}} \subseteq stored
  /\ excused \in [Sends -> BOOLEAN]
  /\ barred \subseteq Sends
  /\ hits \in 0 .. MaxHits

Init ==
  /\ trusted = [n \in Daemons |-> TRUE] /\ filed = trusted
  /\ registry = [n \in Daemons |-> None]
  /\ sender = [k \in Sends |-> None]
  /\ pc = [k \in Sends |-> "idle"]
  /\ via = [k \in Sends |-> None]
  /\ ends = [k \in Sends |-> {}]
  /\ accept = [k \in Sends |-> "none"]
  /\ stream = [k \in Sends |-> "none"]
  /\ reply = [k \in Sends |-> "none"]
  /\ stored = {}
  /\ excused = [k \in Sends |-> FALSE]
  /\ barred = {} /\ hits = 0

(* The daemon that dialed connection c still has a handle of it. *)
Held(c) ==
  \/ registry[sender[c]] = c
  \/ \E k \in Sends : sender[k] = sender[c] /\ via[k] = c /\ pc[k] \in Holding

(* For daemon n connection c has no close_reason. *)
Open(c, n) == n \in ends[c] /\ (n = sender[c] => Held(c))

(* Connection c carries data. *)
Whole(c) == \A n \in Daemons : Open(c, n)

(* cached_connection: the registered connection, unless it has closed. *)
Cached(n) == registry[n] # None /\ Open(registry[n], n)

(* What is left of connection c when daemon n ends it. *)
Leaves(c, n) == ends' = [ends EXCEPT ![c] = @ \ {n}]

-----------------------------------------------------------------------------
(* Sending.                                                                *)

(* SEND_TEXT: the peer is resolved among the trusted ones and the message  *)
(* recorded as sending.                                                    *)
Start(k, n) ==
  /\ pc[k] = "idle"
  /\ trusted[n]
  /\ sender' = [sender EXCEPT ![k] = n]
  /\ pc' = [pc EXCEPT ![k] = "started"]
  /\ UNCHANGED <<trusted, registry, via, ends, accept, stream, reply, stored, excused, hitVars>>

UseCached(k) ==
  /\ pc[k] = "started"
  /\ Cached(sender[k])
  /\ via' = [via EXCEPT ![k] = registry[sender[k]]]
  /\ pc' = [pc EXCEPT ![k] = "ready"]
  /\ UNCHANGED <<trusted, registry, sender, ends, accept, stream, reply, stored, excused, hitVars>>

Dial(k) ==
  /\ pc[k] = "started"
  /\ ~Cached(sender[k])
  /\ pc' = [pc EXCEPT ![k] = "dialing"]
  /\ UNCHANGED <<trusted, registry, sender, via, ends, accept, stream, reply, stored, excused, hitVars>>

(* The connection is made; the other daemon's router will accept it. *)
Connect(k) ==
  /\ pc[k] = "dialing"
  /\ via' = [via EXCEPT ![k] = k]
  /\ ends' = [ends EXCEPT ![k] = Daemons]
  /\ pc' = [pc EXCEPT ![k] = "dialed"]
  /\ UNCHANGED <<trusted, registry, sender, accept, stream, reply, stored, excused, hitVars>>

(* The dial fails or CONNECT_TIMEOUT runs out. *)
DialFails(k) ==
  /\ pc[k] = "dialing"
  /\ pc' = [pc EXCEPT ![k] = "failed"]
  /\ excused' = [excused EXCEPT ![k] = TRUE]
  /\ UNCHANGED <<trusted, registry, sender, via, ends, accept, stream, reply, stored, hitVars>>

(* mark_online after the dial, in a critical section of its own. *)
Register(k) ==
  /\ pc[k] = "dialed"
  /\ registry' = [registry EXCEPT ![sender[k]] = k]
  /\ pc' = [pc EXCEPT ![k] = "ready"]
  /\ UNCHANGED <<trusted, sender, via, ends, accept, stream, reply, stored, excused, hitVars>>

(* open_bi and the framed text, which reaches the other daemon only if it  *)
(* has not ended the connection.                                           *)
Write(k) ==
  /\ pc[k] = "ready"
  /\ Open(via[k], sender[k])
  /\ stream' = [stream EXCEPT ![k] = IF Whole(via[k]) THEN "written" ELSE "dropped"]
  /\ pc' = [pc EXCEPT ![k] = "waiting"]
  /\ UNCHANGED <<trusted, registry, sender, via, ends, accept, reply, stored, excused, hitVars>>

(* The connection turns out closed, before the write or while waiting. *)
ConnectionGone(k) ==
  /\ pc[k] \in {"ready", "waiting"}
  /\ ~Open(via[k], sender[k])
  /\ reply[k] = "none"
  /\ pc' = [pc EXCEPT ![k] = "failed"]
  /\ UNCHANGED <<trusted, registry, sender, via, ends, accept, stream, reply, stored, excused, hitVars>>

(* The mutant takes any answer for an acknowledgement. *)
Accepting_Any(k) == reply[k] # "none"

Accepting(k) == reply[k] = "ack"

GetAck(k) ==
  /\ pc[k] = "waiting"
  /\ Accepting(k)
  /\ pc' = [pc EXCEPT ![k] = "sent"]
  /\ UNCHANGED <<trusted, registry, sender, via, ends, accept, stream, reply, stored, excused, hitVars>>

(* An Error envelope: the other side no longer trusts us. *)
GetError(k) ==
  /\ pc[k] = "waiting"
  /\ reply[k] = "error"
  /\ pc' = [pc EXCEPT ![k] = "failed"]
  /\ UNCHANGED <<trusted, registry, sender, via, ends, accept, stream, reply, stored, excused, hitVars>>

(* The stream of send k is read if the side it leads to runs an accept     *)
(* loop on the connection: the side that did not dial it.                  *)
HasReader(k) == sender[via[k]] = sender[k]

(* The mutant has no timer on the wait. *)
AckTimesOut_Never(k) == FALSE

(* ACK_TIMEOUT runs out.  It is an excuse only if an answer was possible. *)
AckTimesOut(k) ==
  /\ pc[k] = "waiting"
  /\ reply[k] = "none"
  /\ pc' = [pc EXCEPT ![k] = "failed"]
  /\ excused' = [excused EXCEPT ![k] = @ \/ HasReader(k)]
  /\ UNCHANGED <<trusted, registry, sender, via, ends, accept, stream, reply, stored, hitVars>>

(* The mutant leaves the connection in the registry after a failure. *)
AfterFailure_Kept(n) == registry[n]

(* mark_offline: whatever connection is registered is forgotten. *)
AfterFailure(n) == None

(* send_text returns an error, and the message is marked failed. *)
MarkOffline(k) ==
  /\ pc[k] = "failed"
  /\ registry' = [registry EXCEPT ![sender[k]] = AfterFailure(sender[k])]
  /\ pc' = [pc EXCEPT ![k] = "notsent"]
  /\ UNCHANGED <<trusted, sender, via, ends, accept, stream, reply, stored, excused, hitVars>>

-----------------------------------------------------------------------------
(* Accepting.                                                              *)

Acceptor(c) == Other(sender[c])

(* accept reads whether the remote endpoint is trusted; an untrusted one   *)
(* goes straight to the accept loop (it may want to pair).  It may run on  *)
(* a connection that has just closed.                                      *)
AcceptCheck(c) ==
  /\ via[c] = c
  /\ accept[c] = "none"
  /\ accept' = [accept EXCEPT ![c] = IF trusted[Acceptor(c)] THEN "trusted" ELSE "loop"]
  /\ UNCHANGED <<trusted, registry, sender, pc, via, ends, stream, reply, stored, excused, hitVars>>

(* The mutant inverts the comparison of the endpoint ids. *)
KeepInbound_Inverted(c) == ~Cached(Acceptor(c)) \/ sender[c] = High

(* should_keep_inbound: a cached connection gives way only to the one the  *)
(* lower endpoint id dialed.                                               *)
KeepInbound(c) == ~Cached(Acceptor(c)) \/ sender[c] = Low

AcceptKeep(c) ==
  /\ accept[c] = "trusted"
  /\ KeepInbound(c)
  /\ registry' = [registry EXCEPT ![Acceptor(c)] = c]
  /\ accept' = [accept EXCEPT ![c] = "loop"]
  /\ UNCHANGED <<trusted, sender, pc, via, ends, stream, reply, stored, excused, hitVars>>

AcceptRefuse(c) ==
  /\ accept[c] = "trusted"
  /\ ~KeepInbound(c)
  /\ Leaves(c, Acceptor(c))
  /\ accept' = [accept EXCEPT ![c] = "refused"]
  /\ UNCHANGED <<trusted, registry, sender, pc, via, stream, reply, stored, excused, hitVars>>

(* The mutant lets every sender pass that got a connection. *)
MayText_Connected(k) == TRUE

(* handle_text: the sender is among the trusted peers. *)
MayText(k) == trusted[Other(sender[k])]

(* The accept loop takes the stream and handle_text looks the sender up,   *)
(* under the read lock.  What arrived before the connection closed can     *)
(* still be read after it.                                                 *)
ReadText(k) ==
  /\ stream[k] = "written"
  /\ HasReader(k) /\ accept[via[k]] = "loop"
  /\ IF MayText(k)
     THEN stream' = [stream EXCEPT ![k] = "authorized"] /\ UNCHANGED reply
     ELSE /\ stream' = [stream EXCEPT ![k] = "dropped"]
          /\ reply' = [reply EXCEPT ![k] = IF Whole(via[k]) THEN "error" ELSE @]
  /\ UNCHANGED <<trusted, registry, sender, pc, via, ends, accept, stored, excused, hitVars>>

(* record_incoming, under a write lock of its own. *)
StoreText(k) ==
  /\ stream[k] = "authorized"
  /\ stored' = stored \cup {k}
  /\ stream' = [stream EXCEPT ![k] = "stored"]
  /\ UNCHANGED <<trusted, registry, sender, pc, via, ends, accept, reply, excused, hitVars>>

(* The mutant acknowledges before recording. *)
Recorded_Early(k) == stream[k] \in {"authorized", "stored"}

Recorded(k) == stream[k] = "stored"

(* The acknowledgement is written, or the write fails. *)
AckText(k) ==
  /\ Recorded(k)
  /\ stream' = [stream EXCEPT ![k] = "answered"]
  /\ reply' = [reply EXCEPT ![k] = IF Whole(via[k]) THEN "ack" ELSE @]
  /\ UNCHANGED <<trusted, registry, sender, pc, via, ends, accept, stored, excused, hitVars>>

-----------------------------------------------------------------------------
(* Unpairing, the network and restarts.                                    *)

Hit == hits < MaxHits /\ hits' = hits + 1

(* UNPAIR_PEER: the registered connection is closed and forgotten, trust   *)
(* removed, in one critical section.  The unpairing is reported done only  *)
(* if the configuration could be saved.                                    *)
Unpair(n, ok) ==
  /\ trusted[n]
  /\ Hit
  /\ trusted' = [trusted EXCEPT ![n] = FALSE]
  /\ registry' = [registry EXCEPT ![n] = None]
  /\ ends' = [c \in Sends |-> IF c = registry[n] THEN ends[c] \ {n} ELSE ends[c]]
  /\ excused' = [k \in Sends |-> TRUE]
  /\ IF ok
     THEN /\ filed' = [filed EXCEPT ![n] = FALSE]
          /\ barred' = barred \cup {k \in Sends : sender[k] # n /\ stream[k] = "none"}
     ELSE UNCHANGED <<filed, barred>>
  /\ UNCHANGED <<sender, pc, via, accept, stream, reply, stored>>

(* A later change of the configuration is saved, and trust with it. *)
SaveConfig(n) ==
  /\ filed[n] # trusted[n]
  /\ filed' = [filed EXCEPT ![n] = trusted[n]]
  /\ UNCHANGED <<trusted, registry, sender, pc, via, ends, accept, stream, reply, stored,
                 excused, barred, hits>>

(* The connection is lost for one daemon, by its idle timer. *)
LoseConnection(c, n) ==
  /\ Open(c, n)
  /\ Hit
  /\ Leaves(c, n)
  /\ excused' = [k \in Sends |-> excused[k] \/ via[k] = c]
  /\ UNCHANGED <<trusted, filed, registry, sender, pc, via, accept, stream, reply, stored, barred>>

(* A daemon learns that the other has ended the connection. *)
Notice(c, n) ==
  /\ n \in ends[c]
  /\ ~Open(c, Other(n))
  /\ Leaves(c, n)
  /\ UNCHANGED <<trusted, registry, sender, pc, via, accept, stream, reply, stored, excused, hitVars>>

(* Daemon n is killed and started again: its tasks, its registry and its   *)
(* connections are gone, the other daemon has not noticed.  Trust comes    *)
(* back from the file.                                                     *)
Restart(n) ==
  /\ Hit
  /\ trusted' = [trusted EXCEPT ![n] = filed[n]]
  /\ registry' = [registry EXCEPT ![n] = None]
  /\ pc' = [k \in Sends |->
              IF sender[k] = n /\ pc[k] \notin Ended THEN "lost" ELSE pc[k]]
  /\ ends' = [c \in Sends |-> ends[c] \ {n}]
  /\ accept' = [c \in Sends |->
                  IF via[c] = c /\ sender[c] # n THEN "gone" ELSE accept[c]]
  /\ stream' = [k \in Sends |->
                  IF sender[k] # n /\ stream[k] \in {"authorized", "stored"}
                  THEN "dropped" ELSE stream[k]]
  /\ excused' = [k \in Sends |-> excused[k] \/ via[k] # None]
  /\ UNCHANGED <<filed, sender, via, reply, stored, barred>>

-----------------------------------------------------------------------------
Sending(k) ==
  \/ UseCached(k) \/ Dial(k) \/ Connect(k) \/ DialFails(k) \/ Register(k)
  \/ Write(k) \/ ConnectionGone(k) \/ GetAck(k) \/ GetError(k)
  \/ AckTimesOut(k) \/ MarkOffline(k)

AcceptTask(c) == AcceptCheck(c) \/ AcceptKeep(c) \/ AcceptRefuse(c)

Handling(k) == ReadText(k) \/ StoreText(k) \/ AckText(k)

Next ==
  \/ \E k \in Sends, n \in Daemons : Start(k, n)
  \/ \E k \in Sends : Sending(k) \/ AcceptTask(k) \/ Handling(k)
  \/ \E c \in Sends, n \in Daemons : LoseConnection(c, n) \/ Notice(c, n)
  \/ \E n \in Daemons : Unpair(n, TRUE) \/ Unpair(n, FALSE) \/ SaveConfig(n) \/ Restart(n)

(* Every await of a send is under a timer, and the accept and stream tasks *)
(* run on the same multi-threaded runtime.  Nothing need be accepted or    *)
(* read once the connection has closed; users and the network owe nothing, *)
(* not even the news that a connection has ended.                          *)
Fairness ==
  \A k \in Sends :
    /\ WF_vars(Sending(k))
    /\ WF_vars(AcceptTask(k) /\ Whole(k))
    /\ WF_vars(Handling(k) /\ Whole(via[k]))

Safety == Init /\ [][Next]_vars
Spec == Safety /\ Fairness

-----------------------------------------------------------------------------
(* Properties.                                                             *)

(* A message shown as sent has been recorded by the receiver, whatever was *)
(* closed, lost or unpaired between the record and the acknowledgement.    *)
SentMeansStored == \A k \in Sends : pc[k] = "sent" => k \in stored

(* The tie-break never harms the side it prefers: a send of the lower id   *)
(* that dialed for itself fails only if something hit it.                  *)
LowerDialSucceeds ==
  \A k \in Sends :
    (sender[k] = Low /\ via[k] = k /\ pc[k] \in {"failed", "notsent"}) => excused[k]

(* A text that had not left its sender when the receiver reported it       *)
(* unpaired is never recorded, whatever connections the two still have and *)
(* whatever restarts follow: of the texts that an unpairing races (trust   *)
(* is read before the record, transport.rs:222) only those already on      *)
(* their way can slip through.                                             *)
RevokedNeverStored == stored \cap barred = {}

(* A send that failed takes its connection out of use: no later send of    *)
(* the daemon picks it up again.  That is what frees a daemon from the     *)
(* half-open connection to a peer that restarted.                          *)
FailedNotReused ==
  [][\A j, k \in Sends :
       (pc[j] = "notsent" /\ sender[j] = sender[k] /\ via'[k] # via[k])
         => via'[k] # via[j]]_vars

(* A send that has started settles as sent or failed: no order of dials,   *)
(* tie-breaks, losses and unpairings leaves a message "sending" for ever.  *)
SendsSettle == \A k \in Sends : pc[k] = "started" ~> pc[k] \in Ended

(* Messaging implements Delivery: the sender is told by the message that   *)
(* send_text leaves in the history, which a restart loses.                 *)
Told ==
  [k \in Sends |-> CASE pc[k] = "idle"    -> "nothing"
                     [] pc[k] = "sent"    -> "sent"
                     [] pc[k] = "notsent" -> "failed"
                     [] pc[k] = "lost"    -> "forgotten"
                     [] OTHER             -> "sending"]

D == INSTANCE Delivery WITH Texts <- Sends, told <- Told, recorded <- stored, revoked <- barred

(* Whatever two daemons do with their connections, what a sender is told   *)
(* of a text never changes afterwards, sent is told only of what has been  *)
(* recorded, and a text is recorded at most once, never after a revocation *)
(* that it had not been ahead of.                                          *)
ImplementsDelivery == D!Spec

(* "open stream -> write one framed NetworkEnvelope -> finish send side -> *)
(* receiver reads" (docs/protocol.md): a text written on a connection is   *)
(* read unless the connection ends or something hits the send.             *)
WrittenTextIsRead ==
  \A k \in Sends :
    stream[k] = "written" ~> (stream[k] # "written" \/ excused[k] \/ ~Whole(via[k]))
=============================================================================

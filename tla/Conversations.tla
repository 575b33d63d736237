---------------------------- MODULE Conversations ----------------------------
(***************************************************************************)
(* The in-memory message history of one daemon                             *)
(* (crates/lcp-core/src/conversation.rs) with the daemon's operations on   *)
(* it: texts that arrive (handle_text), send_text calls that record a      *)
(* message, run concurrently and settle its status, and a history limit    *)
(* that is changed while they run.  Each operation is one critical section *)
(* of the state lock.  Texts, labels and clocks are left out: a message is *)
(* its id, its direction, its receive sequence and its status.             *)
(***************************************************************************)
EXTENDS Naturals, SequencesExt

CONSTANTS
  Peers,        \* endpoint ids
  Ids,          \* message ids that peers make for their texts
  Capacity,     \* DEDUP_CACHE_CAPACITY
  Limits,       \* values of history.limit_per_peer
  Nobody,       \* "no id": an Option that is None
  MaxAccepted,  \* bound: texts accepted in one behaviour
  MaxSends      \* bound: send_text calls in one behaviour

ASSUME LimitsAssumption == Limits \subseteq Nat \ {0} /\ Limits # {}
ASSUME CapacityAssumption == Capacity \in Nat \ {0}
ASSUME BoundsAssumption == MaxAccepted \in Nat /\ MaxSends \in Nat

VARIABLES
  messages,  \* messages[p]: Conversation.messages, oldest first
  latest,    \* latest[p]: Conversation.latest_incoming
  global,    \* latest_incoming_global, a pair <<peer, id>> or Nobody
  order,     \* BoundedDedupCache.order
  seen,      \* BoundedDedupCache.seen
  limit,     \* history_limit_per_peer
  sends,     \* send_text calls so far; the n-th call makes message id n
  inflight,  \* pairs <<p, n>>: calls that have not settled
  log        \* every accepted <<peer, id>>, in order; its length is
             \* next_receive_sequence

vars == <<messages, latest, global, order, seen, limit, sends, inflight, log>>

(* The ids that a text may bear: handle_text takes a message_id as it      *)
(* comes, so that it may also be that of a message sent to the peer.       *)
MsgIds == Ids \cup 1 .. MaxSends

Incoming == [id : MsgIds, incoming : {TRUE}, seq : 0 .. MaxAccepted,
             status : {"received", "sent", "failed"}]
Outgoing == [id : 1 .. MaxSends, incoming : {FALSE}, seq : {0},
             status : {"sending", "sent", "failed"}]

(* Ids are UUIDs (v4), made at random: one that a peer makes is not one    *)
(* that this daemon makes.                                                 *)
ASSUME FreshAssumption == Ids \cap (1 .. MaxSends) = {}
ASSUME NobodyAssumption ==
  /\ Nobody \notin MsgIds \cup (Peers \X MsgIds)
  /\ Nobody \notin Incoming \cup Outgoing

TypeOK ==
  /\ messages \in [Peers -> Seq(Incoming \cup Outgoing)]
  /\ latest \in [Peers -> MsgIds \cup {Nobody}]
  /\ global \in (Peers \X MsgIds) \cup {Nobody}
  /\ order \in Seq(Peers \X MsgIds) /\ Len(order) <= Capacity
  /\ seen = Range(order) /\ Cardinality(seen) = Len(order)
  /\ limit \in Limits
  /\ sends \in 0 .. MaxSends
  /\ inflight \subseteq Peers \X (1 .. MaxSends)
  /\ log \in Seq(Peers \X MsgIds) /\ Len(log) <= MaxAccepted

Init ==
  /\ messages = [p \in Peers |-> <<>>]
  /\ latest = [p \in Peers |-> Nobody]
  /\ global = Nobody
  /\ order = <<>> /\ seen = {}
  /\ limit \in Limits
  /\ sends = 0 /\ inflight = {}
  /\ log = <<>>

(* The last n elements of s, all of s if it is shorter. *)
Youngest(s, n) == IF Len(s) > n THEN SubSeq(s, Len(s) - n + 1, Len(s)) ELSE s

(* The mutant drops the newest message instead of the oldest. *)
Pushed_DropBack(s, m) == SubSeq(Append(s, m), 1, limit)

(* push_bounded: append, then pop from the front down to the limit. *)
Pushed(s, m) == Youngest(Append(s, m), limit)

(* The mutant never evicts. *)
Remembered_All(k) == Append(order, k)

(* The mutant evicts one entry too early. *)
Remembered_Early(k) == Youngest(Append(order, k), Capacity - 1)

(* BoundedDedupCache.insert: the oldest entry makes room. *)
Remembered(k) == Youngest(Append(order, k), Capacity)

(* The mutant leaves the per-peer index alone once it is set. *)
NewLatest_First(p, id) ==
  [latest EXCEPT ![p] = IF @ = Nobody THEN id ELSE @]

NewLatest(p, id) == [latest EXCEPT ![p] = id]

(* The mutant keeps the first global index. *)
NewGlobal_First(p, id) == IF global = Nobody THEN <<p, id>> ELSE global

NewGlobal(p, id) == <<p, id>>

(* record_incoming of an id the cache does not hold.  An id it holds is a  *)
(* Duplicate and changes nothing.                                          *)
RecordIncoming(p, id) ==
  /\ Len(log) < MaxAccepted
  /\ <<p, id>> \notin seen
  /\ order' = Remembered(<<p, id>>)
  /\ seen' = Range(order')
  /\ log' = Append(log, <<p, id>>)
  /\ latest' = NewLatest(p, id)
  /\ messages' = [messages EXCEPT ![p] =
       Pushed(@, [id |-> id, incoming |-> TRUE, seq |-> Len(log), status |-> "received"])]
  /\ global' = NewGlobal(p, id)
  /\ UNCHANGED <<limit, sends, inflight>>

(* send_text, first half: record_outgoing with status Sending under a      *)
(* fresh id; then the transport runs without the lock.                     *)
RecordOutgoing(p) ==
  /\ sends < MaxSends
  /\ sends' = sends + 1
  /\ inflight' = inflight \cup {<<p, sends'>>}
  /\ messages' = [messages EXCEPT ![p] =
       Pushed(@, [id |-> sends', incoming |-> FALSE, seq |-> 0, status |-> "sending"])]
  /\ UNCHANGED <<latest, global, order, seen, limit, log>>

(* Where the first message with this id is in s, 0 if it is not. *)
IndexOf(s, id) == SelectInSeq(s, LAMBDA m : m.id = id)

(* The mutant updates the newest message of the conversation. *)
Updated_Newest(s, id, v) == [s EXCEPT ![Len(s)].status = v]

(* update_outgoing_status: the first message with this id, if one is in    *)
(* the history, whichever direction it has.                                *)
Updated(s, id, v) ==
  LET i == IndexOf(s, id) IN IF i = 0 THEN s ELSE [s EXCEPT ![i].status = v]

(* send_text, second half: the transport has answered or timed out. *)
SettleSend(p, n, v) ==
  /\ <<p, n>> \in inflight
  /\ inflight' = inflight \ {<<p, n>>}
  /\ messages' = [messages EXCEPT ![p] = Updated(@, n, v)]
  /\ UNCHANGED <<latest, global, order, seen, limit, sends, log>>

(* set_history_limit: later pushes trim, this one does not. *)
SetHistoryLimit(l) ==
  /\ l # limit
  /\ limit' = l
  /\ UNCHANGED <<messages, latest, global, order, seen, sends, inflight, log>>

Next ==
  \/ \E p \in Peers, id \in Ids \cup 1 .. sends : RecordIncoming(p, id)
  \/ \E p \in Peers : RecordOutgoing(p)
  \/ \E p \in Peers, n \in 1 .. MaxSends, v \in {"sent", "failed"} : SettleSend(p, n, v)
  \/ \E l \in Limits : SetHistoryLimit(l)

Spec == Init /\ [][Next]_vars

-----------------------------------------------------------------------------
(* What the daemon's readers return: a message, or Nobody.                 *)

Find(s, id) == IF IndexOf(s, id) = 0 THEN Nobody ELSE s[IndexOf(s, id)]

LatestIncomingFor(p) == IF latest[p] = Nobody THEN Nobody ELSE Find(messages[p], latest[p])

LatestIncomingGlobal == IF global = Nobody THEN Nobody ELSE Find(messages[global[1]], global[2])

(* The incoming messages still held from peer p. *)
Held(p) == {m \in Range(messages[p]) : m.incoming}

-----------------------------------------------------------------------------
(* Properties.                                                             *)

(* Peer p has made a fresh id for every text that was accepted from it, as *)
(* SEND_TEXT does: no echo of an id it was sent, none used again after the *)
(* cache forgot it.                                                        *)
OwnIds(p) ==
  /\ \A i \in DOMAIN log : log[i][1] = p => log[i][2] \in Ids
  /\ \A i, j \in DOMAIN log : (log[i][1] = p /\ log[i] = log[j]) => i = j

(* Asking for the latest message of a peer gives one exactly while one is  *)
(* held from it; if that peer makes fresh ids it is the message received   *)
(* last of those held, whatever the other peers do.  (After an echo it may *)
(* be the outgoing message, contrary to what the comments of               *)
(* conversation.rs say of both readers.)  Trimming, outgoing               *)
(* messages, the statuses of sends and limit changes never leave the index *)
(* of latest_incoming_for behind.                                          *)
LatestForIsNewest ==
  \A p \in Peers :
    /\ LatestIncomingFor(p) = Nobody <=> Held(p) = {}
    /\ (OwnIds(p) /\ Held(p) # {}) =>
         /\ LatestIncomingFor(p) \in Held(p)
         /\ \A h \in Held(p) : h.seq <= LatestIncomingFor(p).seq

(* What latest_incoming_global returns from a peer that makes fresh ids is *)
(* the message received last of all, by its receive sequence, and not one  *)
(* the daemon sent.                                                        *)
LatestGlobalIsLast ==
  (LatestIncomingGlobal # Nobody /\ OwnIds(global[1])) =>
    LatestIncomingGlobal.incoming /\ LatestIncomingGlobal.seq + 1 = Len(log)

(* The bounded cache forgets an id only after Capacity later acceptances:  *)
(* within that window a repeated id of the same peer is not stored twice,  *)
(* whichever peers the acceptances in between come from.                   *)
DedupWindow ==
  \A i, j \in DOMAIN log : (i < j /\ log[i] = log[j]) => j - i > Capacity

(* A message that is held says sending exactly while its call runs: the    *)
(* status of one call never lands on the message of another.               *)
StatusFollowsCall ==
  \A p \in Peers : \A m \in Range(messages[p]) :
    ~m.incoming => (m.status = "sending" <=> <<p, m.id>> \in inflight)

(* "Latest incoming message from any peer" (the doc comment of             *)
(* latest_incoming_global): as long as an incoming message is held, there  *)
(* is one to return.                                                       *)
LatestGlobalFound ==
  (\E p \in Peers : Held(p) # {}) => LatestIncomingGlobal # Nobody
=============================================================================

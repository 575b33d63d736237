------------------------- MODULE ConversationsProofs -------------------------
(* What holds of Conversations for any number of peers, ids and sends and  *)
(* for every capacity of the cache.                                        *)
EXTENDS Conversations, FiniteSetTheorems, SequenceTheorems, TLAPS

-----------------------------------------------------------------------------
(* The operators on sequences.                                             *)

(* How many of its elements s has to lose to have at most n. *)
Excess(s, n) == IF Len(s) > n THEN Len(s) - n ELSE 0

(* t is s without its first d elements. *)
Suffix(t, s, d) ==
  /\ d \in 0 .. Len(s)
  /\ Len(t) = Len(s) - d
  /\ \A i \in 1 .. Len(s) - d : t[i] = s[i + d]

LEMMA YoungestSuffix ==
  ASSUME NEW S, NEW s \in Seq(S), NEW n \in Nat
  PROVE  Youngest(s, n) \in Seq(S) /\ Suffix(Youngest(s, n), s, Excess(s, n))
  <1>1. Len(s) \in Nat
    OBVIOUS
  <1>2. CASE Len(s) > n
    <2> DEFINE d == Len(s) - n
    <2>1. d \in 0 .. Len(s) /\ Youngest(s, n) = SubSeq(s, d + 1, Len(s))
      BY <1>1, <1>2 DEF Youngest
    <2>2. /\ SubSeq(s, d + 1, Len(s)) \in Seq(S)
          /\ Len(SubSeq(s, d + 1, Len(s))) = Len(s) - d
          /\ \A i \in 1 .. Len(s) - d : SubSeq(s, d + 1, Len(s))[i] = s[i + d]
      BY <1>1, <1>2
    <2>3. Excess(s, n) = d
      BY <1>2 DEF Excess
    <2> QED
      BY <2>1, <2>2, <2>3 DEF Suffix
  <1>3. CASE ~(Len(s) > n)
    BY <1>1, <1>3 DEF Youngest, Excess, Suffix
  <1> QED
    BY <1>2, <1>3

(* IndexOf finds the first element with the id, if there is one. *)
LEMMA IndexOfFinds ==
  ASSUME NEW S, NEW s \in Seq(S), NEW id
  PROVE  /\ IndexOf(s, id) \in 0 .. Len(s)
         /\ IndexOf(s, id) # 0 => s[IndexOf(s, id)].id = id
         /\ IndexOf(s, id) = 0 => \A i \in 1 .. Len(s) : s[i].id # id
         /\ \A i \in 1 .. Len(s) : s[i].id = id => IndexOf(s, id) =< i
  <1> DEFINE I == {i \in 1 .. Len(s) : s[i].id = id}
  <1>1. IndexOf(s, id) = IF I # {} THEN Min(I) ELSE 0
    BY DEF IndexOf, SelectInSeq
  <1>2. I \subseteq Nat /\ Len(s) \in Nat
    OBVIOUS
  <1>3. CASE I = {}
    BY <1>1, <1>2, <1>3
  <1>4. CASE I # {}
    <2>1. \E x \in I : \A y \in I : ~(<<y, x>> \in OpToRel(<, Nat))
      BY <1>2, <1>4, NatLessThanWellFounded, WFMin
    <2>2. ASSUME NEW x \in Nat, NEW y \in Nat, y < x
          PROVE  <<y, x>> \in OpToRel(<, Nat)
      BY <2>2 DEF OpToRel
    <2>3. \E x \in I : \A y \in I : x =< y
      <3>1. PICK x \in I : \A y \in I : ~(<<y, x>> \in OpToRel(<, Nat))
        BY <2>1
      <3>2. \A y \in I : ~(y < x)
        BY <1>2, <2>2, <3>1
      <3> QED
        BY <1>2, <3>2
    <2>4. Min(I) \in I /\ \A y \in I : Min(I) =< y
      BY <2>3 DEF Min
    <2> QED
      BY <1>1, <1>2, <1>4, <2>4
  <1> QED
    BY <1>3, <1>4

Messages == Incoming \cup Outgoing

LEMMA Shift ==
  ASSUME NEW l \in Nat, NEW d \in 0 .. l, NEW i \in 1 .. l + 1 - d, i # l + 1 - d
  PROVE  i \in 1 .. l - d /\ i + d \in 1 .. l
  OBVIOUS

(* A push drops some of the oldest messages and puts the new one last.     *)
LEMMA PushedIs ==
  ASSUME limit \in Limits, NEW s \in Seq(Messages), NEW m \in Messages
  PROVE  /\ Pushed(s, m) \in Seq(Messages)
         /\ \E d \in 0 .. Len(s) :
              /\ Len(Pushed(s, m)) = Len(s) + 1 - d
              /\ \A i \in 1 .. Len(s) - d : Pushed(s, m)[i] = s[i + d]
              /\ Pushed(s, m)[Len(s) + 1 - d] = m
  <1> DEFINE a == Append(s, m)
  <1>1. limit \in Nat /\ limit > 0
    BY LimitsAssumption
  <1>2. /\ a \in Seq(Messages) /\ Len(s) \in Nat /\ Len(a) = Len(s) + 1
        /\ a[Len(s) + 1] = m /\ \A i \in 1 .. Len(s) : a[i] = s[i]
    OBVIOUS
  <1> HIDE DEF a
  <1> DEFINE d == Excess(a, limit)
  <1>3. Youngest(a, limit) \in Seq(Messages) /\ Suffix(Youngest(a, limit), a, d)
    BY <1>1, <1>2, YoungestSuffix
  <1>4. Pushed(s, m) = Youngest(a, limit)
    BY DEF Pushed, a
  <1>5. d \in 0 .. Len(s)
    BY <1>1, <1>2 DEF Excess
  <1> HIDE DEF d
  <1>6. Len(Youngest(a, limit)) = Len(s) + 1 - d
    BY <1>2, <1>3, <1>5 DEF Suffix
  <1>7. \A i \in 1 .. Len(s) - d : i + d \in 1 .. Len(s) /\ i \in 1 .. Len(a) - d
    BY <1>2, <1>5
  <1>8. \A i \in 1 .. Len(s) - d : Youngest(a, limit)[i] = s[i + d]
    BY <1>2, <1>3, <1>7 DEF Suffix
  <1>9. Youngest(a, limit)[Len(s) + 1 - d] = m
    <2>1. Len(s) + 1 - d \in 1 .. Len(a) - d /\ (Len(s) + 1 - d) + d = Len(s) + 1
      BY <1>2, <1>5
    <2> QED
      BY <1>2, <1>3, <2>1 DEF Suffix
  <1> QED
    BY <1>3, <1>4, <1>5, <1>6, <1>8, <1>9

LEMMA MessageParts ==
  ASSUME NEW m \in Messages
  PROVE  /\ m.seq \in Nat /\ m.id \in MsgIds /\ m.incoming \in BOOLEAN
         /\ ~m.incoming => m.id \in 1 .. MaxSends
         /\ m # Nobody
  <1>1. CASE m \in Incoming
    <2>1. m.seq \in 0 .. MaxAccepted /\ m.incoming = TRUE /\ m.id \in MsgIds
      BY <1>1 DEF Incoming
    <2>2. m.seq \in Nat
      BY <2>1, BoundsAssumption
    <2> QED
      BY <1>1, <2>1, <2>2, NobodyAssumption, Zenon
  <1>2. CASE m \in Outgoing
    <2>1. m.seq = 0 /\ m.incoming = FALSE /\ m.id \in 1 .. MaxSends
      BY <1>2 DEF Outgoing
    <2>2. m.seq \in Nat /\ m.id \in MsgIds
      BY <2>1 DEF MsgIds
    <2> QED
      BY <1>2, <2>1, <2>2, NobodyAssumption, Zenon
  <1> QED
    BY <1>1, <1>2 DEF Messages

(* What an update makes of s: the first message with the id of the call,   *)
(* if there is one, gets the status v, and nothing else changes.           *)
StatusSet(u, s, n, v) ==
  /\ u \in Seq(Messages) /\ Len(u) = Len(s)
  /\ \A j \in 1 .. Len(s) :
       u[j].id = s[j].id /\ u[j].incoming = s[j].incoming /\ u[j].seq = s[j].seq
  /\ \E i \in 0 .. Len(s) :
       /\ \A j \in 1 .. Len(s) : s[j].id = n => i # 0 /\ i =< j
       /\ i # 0 => s[i].id = n /\ u[i].status = v
       /\ \A j \in 1 .. Len(s) : j # i => u[j].status = s[j].status

LEMMA UpdatedIs ==
  ASSUME NEW s \in Seq(Messages), NEW n \in 1 .. MaxSends, NEW v \in {"sent", "failed"}
  PROVE  StatusSet(Updated(s, n, v), s, n, v)
  <1> DEFINE i == IndexOf(s, n)
  <1>1. /\ i \in 0 .. Len(s) /\ Len(s) \in Nat
        /\ i # 0 => s[i].id = n
        /\ \A j \in 1 .. Len(s) : s[j].id = n => i # 0 /\ i =< j
    BY IndexOfFinds
  <1>2. CASE i = 0
    BY <1>1, <1>2 DEF Updated, StatusSet
  <1>3. CASE i # 0
    <2>1. i \in 1 .. Len(s) /\ s[i] \in Messages /\ s[i].id = n
      BY <1>1, <1>3
    <2>2. Updated(s, n, v) = [s EXCEPT ![i] = [s[i] EXCEPT !.status = v]]
      BY <1>3 DEF Updated
    <2> DEFINE m == [s[i] EXCEPT !.status = v]
    <2>3. m \in Messages /\ m.status = v
          /\ m.id = s[i].id /\ m.incoming = s[i].incoming /\ m.seq = s[i].seq
      <3>1. CASE s[i] \in Incoming
        BY <3>1 DEF Messages, Incoming
      <3>2. CASE s[i] \in Outgoing
        BY <3>2 DEF Messages, Outgoing
      <3> QED
        BY <2>1, <3>1, <3>2 DEF Messages
    <2> HIDE DEF i, m
    <2>4. /\ Updated(s, n, v) \in Seq(Messages) /\ Len(Updated(s, n, v)) = Len(s)
          /\ Updated(s, n, v)[i] = m
          /\ \A j \in 1 .. Len(s) : j # i => Updated(s, n, v)[j] = s[j]
      BY <2>1, <2>2, <2>3 DEF m
    <2>5. \A j \in 1 .. Len(s) : /\ Updated(s, n, v)[j].id = s[j].id
                                 /\ Updated(s, n, v)[j].incoming = s[j].incoming
                                 /\ Updated(s, n, v)[j].seq = s[j].seq
      BY <2>3, <2>4
    <2> QED
      BY <1>1, <2>1, <2>3, <2>4, <2>5 DEF StatusSet
  <1> QED
    BY <1>2, <1>3

-----------------------------------------------------------------------------
(* The order of a history.                                                 *)

(* What a later message b has to be after a: received later, or sent under *)
(* an id that a does not have.                                             *)
Apart(a, b) ==
  /\ (a.incoming /\ b.incoming) => a.seq < b.seq
  /\ ~b.incoming => a.id # b.id

Ordered(s) == \A i, j \in 1 .. Len(s) : i < j => Apart(s[i], s[j])

(* From i on, s has a message received under this id, and none received    *)
(* after it.                                                               *)
Newest(s, id, i) ==
  \E k \in i .. Len(s) :
    /\ s[k].incoming /\ s[k].id = id
    /\ \A j \in 1 .. Len(s) : s[j].incoming => j =< k

(* Behind every incoming message of s, and behind every one of any         *)
(* direction with the id, is the newest, so that trimming from the front   *)
(* takes the others first.                                                 *)
Indexed(s, id) ==
  \A i \in 1 .. Len(s) : (s[i].incoming \/ s[i].id = id) => Newest(s, id, i)

LEMMA OrderedPush ==
  ASSUME limit \in Limits, NEW s \in Seq(Messages), NEW m \in Messages, Ordered(s),
         \A i \in 1 .. Len(s) : Apart(s[i], m)
  PROVE  Ordered(Pushed(s, m))
  <1> DEFINE u == Pushed(s, m)
  <1>1. PICK d \in 0 .. Len(s) :
          /\ Len(u) = Len(s) + 1 - d
          /\ \A i \in 1 .. Len(s) - d : u[i] = s[i + d]
          /\ u[Len(s) + 1 - d] = m
    BY PushedIs
  <1>2. Len(s) \in Nat
    OBVIOUS
  <1> HIDE DEF u
  <1>3. ASSUME NEW i \in 1 .. Len(u), NEW j \in 1 .. Len(u), i < j
        PROVE  Apart(u[i], u[j])
    <2>1. i \in 1 .. Len(s) - d /\ i + d \in 1 .. Len(s) /\ u[i] = s[i + d]
      BY <1>1, <1>2, <1>3
    <2>2. CASE j = Len(u)
      BY <1>1, <2>1, <2>2
    <2>3. CASE j # Len(u)
      <3>1. j \in 1 .. Len(s) - d /\ j + d \in 1 .. Len(s) /\ u[j] = s[j + d]
        BY <1>1, <1>2, <2>3
      <3>2. i + d < j + d
        BY <1>2, <1>3
      <3> QED
        BY <2>1, <3>1, <3>2 DEF Ordered
    <2> QED
      BY <2>2, <2>3
  <1> QED
    BY <1>3 DEF Ordered, u

(* A message received makes itself the newest. *)
LEMMA IndexedIncoming ==
  ASSUME limit \in Limits, NEW s \in Seq(Messages), NEW m \in Messages, m.incoming
  PROVE  Indexed(Pushed(s, m), m.id)
  <1> DEFINE u == Pushed(s, m)
  <1>0. PICK d \in 0 .. Len(s) : Len(u) = Len(s) + 1 - d /\ u[Len(s) + 1 - d] = m
    BY PushedIs
  <1>1. Len(u) \in 1 .. Len(u) /\ u[Len(u)] = m
    <2>1. Len(s) \in Nat
      OBVIOUS
    <2> HIDE DEF u
    <2> QED
      BY <1>0, <2>1
  <1> HIDE DEF u
  <1>2. ASSUME NEW i \in 1 .. Len(u) PROVE Newest(u, m.id, i)
    <2>1. Len(u) \in i .. Len(u)
      BY <1>1
    <2> QED
      BY <1>1, <2>1 DEF Newest
  <1> QED
    BY <1>2 DEF Indexed, u

(* A message sent under another id leaves the newest where it is. *)
LEMMA IndexedOutgoing ==
  ASSUME limit \in Limits, NEW s \in Seq(Messages), NEW m \in Messages,
         ~m.incoming, NEW id, m.id # id, Indexed(s, id)
  PROVE  Indexed(Pushed(s, m), id)
  <1> DEFINE u == Pushed(s, m)
  <1>1. PICK d \in 0 .. Len(s) :
          /\ Len(u) = Len(s) + 1 - d
          /\ \A i \in 1 .. Len(s) - d : u[i] = s[i + d]
          /\ u[Len(s) + 1 - d] = m
    BY PushedIs
  <1>2. Len(s) \in Nat
    OBVIOUS
  <1> HIDE DEF u
  <1>3. ASSUME NEW i \in 1 .. Len(u), u[i].incoming \/ u[i].id = id
        PROVE  Newest(u, id, i)
    <2>1. i # Len(s) + 1 - d
      BY <1>1, <1>3
    <2>2. i + d \in 1 .. Len(s) /\ u[i] = s[i + d]
      BY <1>1, <1>2, <2>1
    <2>3. PICK k \in i + d .. Len(s) :
            /\ s[k].incoming /\ s[k].id = id
            /\ \A j \in 1 .. Len(s) : s[j].incoming => j =< k
      BY <1>3, <2>2 DEF Indexed, Newest
    <2>4. /\ k - d \in i .. Len(u) /\ k - d \in 1 .. Len(s) - d /\ (k - d) + d = k
          /\ u[k - d] = s[k]
      BY <1>1, <1>2, <2>2
    <2>5. ASSUME NEW j \in 1 .. Len(u), u[j].incoming PROVE j =< k - d
      <3>1. j # Len(s) + 1 - d
        BY <1>1, <2>5
      <3>2. j \in 1 .. Len(s) - d /\ j + d \in 1 .. Len(s)
        BY <1>1, <1>2, <3>1, Shift
      <3>3. u[j] = s[j + d]
        BY <1>1, <3>2
      <3>4. j + d =< k
        BY <2>3, <2>5, <3>2, <3>3
      <3> QED
        BY <1>2, <3>4
    <2> QED
      BY <2>3, <2>4, <2>5 DEF Newest
  <1> QED
    BY <1>3 DEF Indexed, u

(* A status that is set changes neither. *)
LEMMA SameOrder ==
  ASSUME NEW s, NEW u, NEW n, NEW v, NEW id, StatusSet(u, s, n, v)
  PROVE  /\ Ordered(s) => Ordered(u)
         /\ Indexed(s, id) => Indexed(u, id)
  <1>1. Len(u) = Len(s)
    BY DEF StatusSet
  <1>2. \A j \in 1 .. Len(s) :
          u[j].id = s[j].id /\ u[j].incoming = s[j].incoming /\ u[j].seq = s[j].seq
    BY DEF StatusSet
  <1>3. Ordered(s) => Ordered(u)
    BY <1>1, <1>2 DEF Ordered, Apart
  <1>4. ASSUME Indexed(s, id), NEW i \in 1 .. Len(u), u[i].incoming \/ u[i].id = id
        PROVE  Newest(u, id, i)
    <2>1. PICK k \in i .. Len(s) :
            /\ s[k].incoming /\ s[k].id = id
            /\ \A j \in 1 .. Len(s) : s[j].incoming => j =< k
      BY <1>1, <1>2, <1>4 DEF Indexed, Newest
    <2>2. k \in 1 .. Len(s)
      BY <1>1
    <2> QED
      BY <1>1, <1>2, <2>1, <2>2 DEF Newest
  <1> QED
    BY <1>3, <1>4 DEF Indexed

-----------------------------------------------------------------------------
(* The inductive invariant.                                                *)

(* What a message held from p or sent to p tells of the past: an id of a   *)
(* call has been made by one, an incoming message is the acceptance its    *)
(* receive sequence says, and an outgoing one says sending while the call  *)
(* with its id is in flight.                                               *)
Traced(p, m) ==
  /\ m.id \in 1 .. MaxSends => m.id =< sends
  /\ m.incoming => m.seq < Len(log) /\ log[m.seq + 1] = <<p, m.id>>
  /\ ~m.incoming => (m.status = "sending" <=> <<p, m.id>> \in inflight)

HistoryInv ==
  /\ \A p \in Peers, n \in 1 .. MaxSends : <<p, n>> \in inflight => n =< sends
  /\ \A p \in Peers : \A i \in 1 .. Len(messages[p]) : Traced(p, messages[p][i])
  /\ \A p \in Peers : Ordered(messages[p])

(* The index of a peer keeps up with its history. *)
LatestInv ==
  \A p \in Peers :
    /\ latest[p] \in 1 .. MaxSends => latest[p] =< sends
    /\ Indexed(messages[p], latest[p])

(* The global index is the last acceptance. *)
GlobalInv == global # Nobody => Len(log) > 0 /\ global = log[Len(log)]

(* The cache holds the last acceptances, and they differ. *)
WindowInv ==
  /\ order = Youngest(log, Capacity)
  /\ DedupWindow

TypeInv ==
  /\ messages \in [Peers -> Seq(Messages)]
  /\ latest \in [Peers -> MsgIds \cup {Nobody}]
  /\ global \in (Peers \X MsgIds) \cup {Nobody}
  /\ seen = Range(order)
  /\ limit \in Limits
  /\ sends \in 0 .. MaxSends
  /\ inflight \subseteq Peers \X (1 .. MaxSends)
  /\ log \in Seq(Peers \X MsgIds) /\ Len(log) <= MaxAccepted

CInv == TypeInv /\ HistoryInv /\ LatestInv /\ GlobalInv /\ WindowInv

LEMMA CInit ==
  ASSUME Init
  PROVE  CInv
  <1>1. TypeInv
    BY BoundsAssumption, NobodyAssumption DEF Init, TypeInv, Range
  <1>2. HistoryInv /\ GlobalInv
    BY DEF Init, HistoryInv, GlobalInv, Ordered
  <1>3. LatestInv
    <2>1. Nobody \notin 1 .. MaxSends
      BY NobodyAssumption DEF MsgIds
    <2> QED
      BY <2>1 DEF Init, LatestInv, Indexed
  <1>4. WindowInv
    BY CapacityAssumption DEF Init, WindowInv, Youngest, DedupWindow
  <1> QED
    BY <1>1, <1>2, <1>3, <1>4 DEF CInv

-----------------------------------------------------------------------------
(* The cache.                                                              *)

(* Evicting from the cache or from the whole log leaves the same window.   *)
LEMMA WindowMoves ==
  ASSUME NEW K, NEW s \in Seq(K), NEW k \in K, NEW n \in Nat \ {0}
  PROVE  Youngest(Append(Youngest(s, n), k), n) = Youngest(Append(s, k), n)
  <1> DEFINE y == Youngest(s, n)
             a == Append(y, k)
             b == Append(s, k)
  <1>1. /\ Len(s) \in Nat /\ b \in Seq(K) /\ Len(b) = Len(s) + 1 /\ b[Len(s) + 1] = k
        /\ \A i \in 1 .. Len(s) : b[i] = s[i]
    OBVIOUS
  <1>2. CASE ~(Len(s) > n)
    BY <1>2 DEF Youngest
  <1>3. CASE Len(s) > n
    <2>1. y \in Seq(K) /\ Suffix(y, s, Len(s) - n)
      BY <1>3, YoungestSuffix DEF Excess
    <2>2. Len(y) = n /\ \A i \in 1 .. n : y[i] = s[i + (Len(s) - n)]
      BY <1>1, <1>3, <2>1 DEF Suffix
    <2> HIDE DEF y
    <2>3. /\ a \in Seq(K) /\ Len(a) = n + 1 /\ a[n + 1] = k
          /\ \A i \in 1 .. n : a[i] = y[i]
      BY <2>1, <2>2
    <2> HIDE DEF a, b
    <2>4. Excess(a, n) = 1 /\ Excess(b, n) = Len(s) + 1 - n
      BY <1>1, <1>3, <2>3 DEF Excess
    <2>5. /\ Youngest(a, n) \in Seq(K) /\ Suffix(Youngest(a, n), a, 1)
          /\ Youngest(b, n) \in Seq(K) /\ Suffix(Youngest(b, n), b, Len(s) + 1 - n)
      BY <1>1, <2>3, <2>4, YoungestSuffix
    <2>6. Len(Youngest(a, n)) = n /\ Len(Youngest(b, n)) = n
      BY <1>1, <1>3, <2>3, <2>5 DEF Suffix
    <2>7. ASSUME NEW i \in 1 .. n PROVE Youngest(a, n)[i] = Youngest(b, n)[i]
      <3>1. /\ Youngest(a, n)[i] = a[i + 1]
            /\ Youngest(b, n)[i] = b[i + (Len(s) + 1 - n)]
        BY <1>1, <1>3, <2>3, <2>5 DEF Suffix
      <3>2. CASE i = n
        BY <1>1, <2>3, <3>1, <3>2
      <3>3. CASE i # n
        <4>1. i + 1 \in 1 .. n /\ i + (Len(s) + 1 - n) \in 1 .. Len(s)
          BY <1>1, <1>3, <3>3
        <4>2. a[i + 1] = s[(i + 1) + (Len(s) - n)]
          BY <2>2, <2>3, <4>1
        <4>3. (i + 1) + (Len(s) - n) = i + (Len(s) + 1 - n)
          BY <1>1
        <4> QED
          BY <1>1, <3>1, <4>1, <4>2, <4>3
      <3> QED
        BY <3>2, <3>3
    <2>8. Youngest(a, n) = Youngest(b, n)
      BY <2>5, <2>6, <2>7, SeqEqual
    <2> QED
      BY <2>8 DEF a, b, y
  <1> QED
    BY <1>2, <1>3

(* What the window does not hold lies further back. *)
LEMMA OutsideWindow ==
  ASSUME NEW K, NEW s \in Seq(K), NEW n \in Nat \ {0}, NEW i \in 1 .. Len(s),
         s[i] \notin Range(Youngest(s, n))
  PROVE  Len(s) + 1 - i > n
  <1>1. Len(s) \in Nat
    OBVIOUS
  <1>2. Youngest(s, n) \in Seq(K) /\ Suffix(Youngest(s, n), s, Excess(s, n))
    BY YoungestSuffix
  <1>3. SUFFICES ASSUME Len(s) + 1 - i =< n PROVE FALSE
    BY <1>1
  <1> DEFINE j == i - Excess(s, n)
  <1>4. j \in 1 .. Len(s) - Excess(s, n) /\ j + Excess(s, n) = i
    BY <1>1, <1>3 DEF Excess
  <1>5. j \in 1 .. Len(Youngest(s, n)) /\ Youngest(s, n)[j] = s[i]
    BY <1>1, <1>2, <1>4 DEF Suffix
  <1>6. DOMAIN Youngest(s, n) = 1 .. Len(Youngest(s, n))
    BY <1>2
  <1> QED
    BY <1>5, <1>6 DEF Range

LEMMA WindowStep ==
  ASSUME CInv, NEW p \in Peers, NEW id \in MsgIds, RecordIncoming(p, id)
  PROVE  WindowInv'
  <1> DEFINE k == <<p, id>>
             K == Peers \X MsgIds
  <1>1. /\ log \in Seq(K) /\ k \in K /\ Len(log) \in Nat
        /\ order = Youngest(log, Capacity) /\ k \notin Range(order)
        /\ log' = Append(log, k) /\ order' = Youngest(Append(order, k), Capacity)
    BY DEF CInv, TypeInv, WindowInv, RecordIncoming, Remembered
  <1> HIDE DEF k, K
  <1>2. order' = Youngest(log', Capacity)
    BY <1>1, WindowMoves, CapacityAssumption
  <1>3. /\ Len(log') = Len(log) + 1 /\ log'[Len(log) + 1] = k
        /\ \A i \in 1 .. Len(log) : log'[i] = log[i]
        /\ DOMAIN log' = 1 .. Len(log) + 1 /\ DOMAIN log = 1 .. Len(log)
    BY <1>1
  <1>4. ASSUME NEW i \in DOMAIN log', NEW j \in DOMAIN log', i < j, log'[i] = log'[j]
        PROVE  j - i > Capacity
    <2>1. CASE j # Len(log) + 1
      <3>1. i \in DOMAIN log /\ j \in DOMAIN log /\ log[i] = log[j]
        BY <1>1, <1>3, <1>4, <2>1
      <3> QED
        BY <1>4, <3>1 DEF CInv, WindowInv, DedupWindow
    <2>2. CASE j = Len(log) + 1
      <3>1. i \in 1 .. Len(log) /\ log[i] = k
        BY <1>1, <1>3, <1>4, <2>2
      <3> QED
        BY <1>1, <2>2, <3>1, OutsideWindow, CapacityAssumption
    <2> QED
      BY <2>1, <2>2
  <1> QED
    BY <1>2, <1>4 DEF WindowInv, DedupWindow

-----------------------------------------------------------------------------
(* Every operation keeps the invariant.                                    *)

(* Every message after a push was there before, or is the new one. *)
LEMMA PushedFrom ==
  ASSUME limit \in Limits, NEW s \in Seq(Messages), NEW m \in Messages,
         NEW i \in 1 .. Len(Pushed(s, m))
  PROVE  Pushed(s, m)[i] = m \/ \E j \in 1 .. Len(s) : Pushed(s, m)[i] = s[j]
  <1> DEFINE u == Pushed(s, m)
  <1>1. PICK d \in 0 .. Len(s) :
          /\ Len(u) = Len(s) + 1 - d
          /\ \A k \in 1 .. Len(s) - d : u[k] = s[k + d]
          /\ u[Len(s) + 1 - d] = m
    BY PushedIs
  <1>2. Len(s) \in Nat
    OBVIOUS
  <1> HIDE DEF u
  <1>3. CASE i = Len(s) + 1 - d
    BY <1>1, <1>3 DEF u
  <1>4. CASE i # Len(s) + 1 - d
    <2>1. i \in 1 .. Len(s) - d /\ i + d \in 1 .. Len(s)
      BY <1>1, <1>2, <1>4 DEF u
    <2> QED
      BY <1>1, <2>1 DEF u
  <1> QED
    BY <1>3, <1>4

LEMMA IncomingStep ==
  ASSUME CInv, NEW p \in Peers, NEW id \in Ids \cup 1 .. sends, RecordIncoming(p, id)
  PROVE  CInv'
  <1> DEFINE s == messages[p]
             m == [id |-> id, incoming |-> TRUE, seq |-> Len(log), status |-> "received"]
             u == Pushed(s, m)
  <1>0. id \in MsgIds /\ (id \in 1 .. MaxSends => id =< sends) /\ sends \in Nat
    BY FreshAssumption, BoundsAssumption DEF CInv, TypeInv, MsgIds
  <1>1. /\ Len(log) \in 0 .. MaxAccepted /\ Len(log) + 1 =< MaxAccepted
        /\ log' = Append(log, <<p, id>>) /\ Len(log') = Len(log) + 1
        /\ log'[Len(log) + 1] = <<p, id>> /\ log' \in Seq(Peers \X MsgIds)
        /\ \A i \in 1 .. Len(log) : log'[i] = log[i]
    BY <1>0, BoundsAssumption DEF CInv, TypeInv, RecordIncoming
  <1>2. /\ messages \in [Peers -> Seq(Messages)] /\ s \in Seq(Messages) /\ m \in Messages
        /\ latest \in [Peers -> MsgIds \cup {Nobody}] /\ limit \in Limits
    BY <1>0, <1>1 DEF CInv, TypeInv, Messages, Incoming
  <1>3. /\ messages' = [messages EXCEPT ![p] = u]
        /\ latest' = [latest EXCEPT ![p] = id]
        /\ global' = <<p, id>> /\ seen' = Range(order')
        /\ UNCHANGED <<limit, sends, inflight>>
    BY DEF RecordIncoming, NewLatest, NewGlobal
  <1>4. m.id = id /\ m.incoming = TRUE /\ m.seq = Len(log)
    OBVIOUS
  <1> HIDE DEF m
  <1>5. u \in Seq(Messages)
    BY <1>2, PushedIs
  <1>6. /\ messages'[p] = u /\ \A q \in Peers : q # p => messages'[q] = messages[q]
        /\ latest'[p] = id /\ \A q \in Peers : q # p => latest'[q] = latest[q]
    BY <1>2, <1>3
  <1>7. TypeInv'
    BY <1>0, <1>1, <1>2, <1>3, <1>5 DEF CInv, TypeInv
  <1>9. ASSUME NEW q \in Peers, NEW x \in Messages, Traced(q, x)
        PROVE  /\ x.id \in 1 .. MaxSends => x.id =< sends'
               /\ x.incoming => x.seq < Len(log') /\ log'[x.seq + 1] = <<q, x.id>>
               /\ ~x.incoming => (x.status = "sending" <=> <<q, x.id>> \in inflight')
    <2>1. x.seq \in Nat
      BY MessageParts
    <2> QED
      BY <1>1, <1>3, <1>9, <2>1 DEF Traced
  <1>10. HistoryInv'
    <2>1. ASSUME NEW q \in Peers, NEW i \in 1 .. Len(messages'[q])
          PROVE  Traced(q, messages[q][i])'
      <3>1. CASE q # p
        <4>1. messages'[q] = messages[q] /\ messages[q][i] \in Messages
          BY <1>2, <1>6, <2>1, <3>1
        <4>2. Traced(q, messages[q][i])
          BY <4>1 DEF CInv, HistoryInv
        <4> QED
          BY <1>9, <4>1, <4>2 DEF Traced
      <3>2. CASE q = p /\ u[i] = m
        BY <1>0, <1>1, <1>3, <1>4, <1>6, <3>2 DEF Traced
      <3>3. CASE q = p /\ u[i] # m
        <4>1. PICK j \in 1 .. Len(s) : u[i] = s[j]
          BY <1>2, <1>6, <3>3, PushedFrom
        <4>2. s[j] \in Messages /\ Traced(p, s[j]) /\ messages'[q][i] = s[j]
          BY <1>2, <1>6, <3>3, <4>1 DEF CInv, HistoryInv
        <4> HIDE DEF s, u
        <4> QED
          BY <1>9, <3>3, <4>2 DEF Traced
      <3> QED
        BY <3>1, <3>2, <3>3
    <2>2. Ordered(u)
      <3>1. ASSUME NEW i \in 1 .. Len(s) PROVE Apart(s[i], m)
        BY <1>4 DEF CInv, HistoryInv, Traced, Apart
      <3> QED
        BY <1>2, <3>1, OrderedPush DEF CInv, HistoryInv
    <2>3. \A q \in Peers : Ordered(messages'[q])
      BY <1>6, <2>2 DEF CInv, HistoryInv
    <2>4. \A q \in Peers, n \in 1 .. MaxSends : <<q, n>> \in inflight' => n =< sends'
      BY <1>3 DEF CInv, HistoryInv
    <2> QED
      BY <2>1, <2>3, <2>4 DEF HistoryInv
  <1>11. LatestInv'
    <2>1. Indexed(u, id)
      BY <1>2, <1>4, IndexedIncoming
    <2> HIDE DEF u
    <2> QED
      BY <1>0, <1>3, <1>6, <2>1 DEF CInv, LatestInv
  <1>12. GlobalInv'
    BY <1>1, <1>3 DEF GlobalInv
  <1>13. WindowInv'
    BY <1>0, WindowStep
  <1> QED
    BY <1>7, <1>10, <1>11, <1>12, <1>13 DEF CInv

LEMMA OutgoingStep ==
  ASSUME CInv, NEW p \in Peers, RecordOutgoing(p)
  PROVE  CInv'
  <1> DEFINE s == messages[p]
             n == sends + 1
             m == [id |-> n, incoming |-> FALSE, seq |-> 0, status |-> "sending"]
             u == Pushed(s, m)
  <1>1. /\ n \in 1 .. MaxSends /\ sends \in Nat /\ sends' = n
        /\ inflight' = inflight \cup {<<p, n>>}
        /\ messages' = [messages EXCEPT ![p] = u]
        /\ UNCHANGED <<latest, global, order, seen, limit, log>>
    BY BoundsAssumption DEF CInv, TypeInv, RecordOutgoing
  <1>2. /\ messages \in [Peers -> Seq(Messages)] /\ s \in Seq(Messages) /\ m \in Messages
        /\ limit \in Limits
    BY <1>1 DEF CInv, TypeInv, Messages, Outgoing
  <1>3. \A k \in 1 .. MaxSends : k =< sends => k # n /\ k =< n
    BY <1>1
  <1>4. m.id = n /\ m.incoming = FALSE /\ m.status = "sending"
    OBVIOUS
  <1> HIDE DEF m, n
  <1>5. u \in Seq(Messages)
    BY <1>2, PushedIs
  <1>6. messages'[p] = u /\ \A q \in Peers : q # p => messages'[q] = messages[q]
    BY <1>1, <1>2
  <1>7. TypeInv'
    BY <1>1, <1>2, <1>5 DEF CInv, TypeInv
  <1>8. ASSUME NEW q \in Peers, NEW x, Traced(q, x)
        PROVE  /\ x.id \in 1 .. MaxSends => x.id =< sends'
               /\ x.incoming => x.seq < Len(log') /\ log'[x.seq + 1] = <<q, x.id>>
               /\ ~x.incoming => (x.status = "sending" <=> <<q, x.id>> \in inflight')
               /\ x.id # n
    BY <1>1, <1>3, <1>8 DEF Traced
  <1>9. HistoryInv'
    <2>1. ASSUME NEW q \in Peers, NEW i \in 1 .. Len(messages'[q])
          PROVE  Traced(q, messages[q][i])'
      <3>1. CASE q # p
        <4>1. messages'[q] = messages[q] /\ Traced(q, messages[q][i])
          BY <1>6, <2>1, <3>1 DEF CInv, HistoryInv
        <4> QED
          BY <1>8, <4>1 DEF Traced
      <3>2. CASE q = p /\ u[i] = m
        BY <1>1, <1>4, <1>6, <3>2 DEF Traced
      <3>3. CASE q = p /\ u[i] # m
        <4>1. PICK j \in 1 .. Len(s) : u[i] = s[j]
          BY <1>2, <1>6, <3>3, PushedFrom
        <4>2. Traced(p, s[j]) /\ messages'[q][i] = s[j]
          BY <1>6, <3>3, <4>1 DEF CInv, HistoryInv
        <4> HIDE DEF s, u
        <4> QED
          BY <1>8, <3>3, <4>2 DEF Traced
      <3> QED
        BY <3>1, <3>2, <3>3
    <2>2. Ordered(u)
      <3>1. ASSUME NEW i \in 1 .. Len(s) PROVE Apart(s[i], m)
        BY <1>4, <1>8 DEF CInv, HistoryInv, Apart
      <3> QED
        BY <1>2, <3>1, OrderedPush DEF CInv, HistoryInv
    <2>3. \A q \in Peers : Ordered(messages'[q])
      BY <1>6, <2>2 DEF CInv, HistoryInv
    <2>4. \A q \in Peers, k \in 1 .. MaxSends : <<q, k>> \in inflight' => k =< sends'
      BY <1>1, <1>3 DEF CInv, HistoryInv
    <2> QED
      BY <2>1, <2>3, <2>4 DEF HistoryInv
  <1>10. LatestInv'
    <2>1. \A q \in Peers : latest[q] # n /\ (latest[q] \in 1 .. MaxSends => latest[q] =< n)
      BY <1>1, <1>3 DEF CInv, LatestInv
    <2>2. Indexed(u, latest[p])
      BY <1>2, <1>4, <2>1, IndexedOutgoing DEF CInv, LatestInv
    <2> HIDE DEF u
    <2> QED
      BY <1>1, <1>6, <2>1, <2>2 DEF CInv, LatestInv
  <1>11. GlobalInv' /\ WindowInv'
    BY <1>1 DEF CInv, GlobalInv, WindowInv, DedupWindow
  <1> QED
    BY <1>7, <1>9, <1>10, <1>11 DEF CInv

LEMMA SettleStep ==
  ASSUME CInv, NEW p \in Peers, NEW n \in 1 .. MaxSends, NEW v \in {"sent", "failed"},
         SettleSend(p, n, v)
  PROVE  CInv'
  <1> DEFINE s == messages[p]
             u == Updated(s, n, v)
  <1>1. /\ <<p, n>> \in inflight /\ inflight' = inflight \ {<<p, n>>}
        /\ messages' = [messages EXCEPT ![p] = u]
        /\ UNCHANGED <<latest, global, order, seen, limit, sends, log>>
    BY DEF SettleSend
  <1>2. messages \in [Peers -> Seq(Messages)] /\ s \in Seq(Messages) /\ Len(s) \in Nat
    BY DEF CInv, TypeInv
  <1> HIDE DEF s
  <1>3. StatusSet(u, s, n, v)
    BY <1>2, UpdatedIs, Zenon
  <1> HIDE DEF u
  <1>4. /\ u \in Seq(Messages) /\ Len(u) = Len(s)
        /\ \A j \in 1 .. Len(s) :
             u[j].id = s[j].id /\ u[j].incoming = s[j].incoming /\ u[j].seq = s[j].seq
    BY <1>3 DEF StatusSet
  <1>5. PICK h \in 0 .. Len(s) :
          /\ \A j \in 1 .. Len(s) : s[j].id = n => h # 0 /\ h =< j
          /\ h # 0 => s[h].id = n /\ u[h].status = v
          /\ \A j \in 1 .. Len(s) : j # h => u[j].status = s[j].status
    BY <1>3 DEF StatusSet
  <1>6. /\ messages'[p] = u /\ messages[p] = s
        /\ \A q \in Peers : q # p => messages'[q] = messages[q]
    BY <1>1, <1>2 DEF s
  <1>7. TypeInv'
    BY <1>1, <1>2, <1>4 DEF CInv, TypeInv, s
  <1>8. HistoryInv'
    <2>1. Ordered(s) /\ \A i \in 1 .. Len(s) : Traced(p, s[i])
      BY <1>6 DEF CInv, HistoryInv
    <2>2. ASSUME NEW i \in 1 .. Len(s), ~s[i].incoming
          PROVE  u[i].status = "sending" <=> <<p, s[i].id>> \in inflight'
      <3>1. CASE i = h
        BY <1>1, <1>5, <3>1
      <3>2. CASE i # h
        <4>1. s[i].id # n
          <5>1. SUFFICES ASSUME s[i].id = n PROVE FALSE
            OBVIOUS
          <5>2. h \in 1 .. Len(s) /\ h < i /\ s[h].id = n
            BY <1>2, <1>5, <3>2, <5>1
          <5> QED
            BY <2>1, <2>2, <5>1, <5>2 DEF Ordered, Apart
        <4>2. s[i].status = "sending" <=> <<p, s[i].id>> \in inflight
          BY <2>1, <2>2 DEF Traced
        <4> QED
          BY <1>1, <1>5, <3>2, <4>1, <4>2
      <3> QED
        BY <3>1, <3>2
    <2>3. ASSUME NEW q \in Peers, NEW i \in 1 .. Len(messages'[q])
          PROVE  Traced(q, messages[q][i])'
      <3>1. CASE q # p
        <4>1. messages'[q] = messages[q] /\ Traced(q, messages[q][i])
          BY <1>6, <2>3, <3>1 DEF CInv, HistoryInv
        <4>2. \A k : <<q, k>> \in inflight' <=> <<q, k>> \in inflight
          BY <1>1, <3>1
        <4> QED
          BY <1>1, <4>1, <4>2 DEF Traced
      <3>2. CASE q = p
        <4>1. i \in 1 .. Len(s) /\ messages'[q][i] = u[i]
          BY <1>4, <1>6, <2>3, <3>2
        <4>2. /\ u[i].id \in 1 .. MaxSends => u[i].id =< sends'
              /\ u[i].incoming => u[i].seq < Len(log') /\ log'[u[i].seq + 1] = <<p, u[i].id>>
          BY <1>1, <1>4, <2>1, <4>1 DEF Traced
        <4>3. ~u[i].incoming => (u[i].status = "sending" <=> <<p, u[i].id>> \in inflight')
          BY <1>4, <2>2, <4>1
        <4> QED
          BY <3>2, <4>1, <4>2, <4>3 DEF Traced
      <3> QED
        BY <3>1, <3>2
    <2>4. \A q \in Peers : Ordered(messages'[q])
      BY <1>3, <1>6, SameOrder DEF CInv, HistoryInv
    <2>5. \A q \in Peers, k \in 1 .. MaxSends : <<q, k>> \in inflight' => k =< sends'
      BY <1>1 DEF CInv, HistoryInv
    <2> QED
      BY <2>3, <2>4, <2>5 DEF HistoryInv
  <1>9. LatestInv'
    <2>1. Indexed(u, latest[p])
      BY <1>3, <1>6, SameOrder DEF CInv, LatestInv
    <2> QED
      BY <1>1, <1>6, <2>1 DEF CInv, LatestInv
  <1>10. GlobalInv' /\ WindowInv'
    BY <1>1 DEF CInv, GlobalInv, WindowInv, DedupWindow
  <1> QED
    BY <1>7, <1>8, <1>9, <1>10 DEF CInv

LEMMA CStep ==
  ASSUME CInv, [Next]_vars
  PROVE  CInv'
  <1>1. CASE UNCHANGED vars
    BY <1>1 DEF vars, CInv, TypeInv, HistoryInv, LatestInv, Traced, GlobalInv, WindowInv,
                DedupWindow
  <1>2. ASSUME NEW l \in Limits, SetHistoryLimit(l) PROVE CInv'
    BY <1>2 DEF SetHistoryLimit, CInv, TypeInv, HistoryInv, LatestInv, Traced, GlobalInv,
                WindowInv, DedupWindow
  <1> QED
    BY <1>1, <1>2, IncomingStep, OutgoingStep, SettleStep DEF Next

LEMMA CAlways == Spec => []CInv
  <1>1. Init => CInv
    BY CInit
  <1>2. CInv /\ [Next]_vars => CInv'
    BY CStep
  <1> QED
    BY <1>1, <1>2, PTL DEF Spec

-----------------------------------------------------------------------------
(* The theorems.                                                           *)

(* An index finds a message under its id, if there is one. *)
LEMMA FindFinds ==
  ASSUME NEW s \in Seq(Messages), NEW id
  PROVE  /\ Find(s, id) = Nobody <=> \A i \in 1 .. Len(s) : s[i].id # id
         /\ Find(s, id) # Nobody =>
              \E i \in 1 .. Len(s) : Find(s, id) = s[i] /\ s[i].id = id
  <1> DEFINE k == IndexOf(s, id)
  <1>1. /\ k \in 0 .. Len(s) /\ Len(s) \in Nat
        /\ k # 0 => s[k].id = id
        /\ k = 0 => \A i \in 1 .. Len(s) : s[i].id # id
    BY IndexOfFinds
  <1>2. CASE k = 0
    BY <1>1, <1>2 DEF Find
  <1>3. CASE k # 0
    <2>1. k \in 1 .. Len(s) /\ Find(s, id) = s[k] /\ s[k].id = id
      BY <1>1, <1>3 DEF Find
    <2>2. s[k] # Nobody
      BY <2>1, MessageParts
    <2> HIDE DEF k
    <2> QED
      BY <2>1, <2>2
  <1> QED
    BY <1>2, <1>3

(* Two messages of one history that bear an id of a peer which makes fresh *)
(* ids are incoming and have one receive sequence.                         *)
LEMMA OneAcceptance ==
  ASSUME CInv, NEW p \in Peers, OwnIds(p),
         NEW i \in 1 .. Len(messages[p]), NEW k \in 1 .. Len(log),
         log[k] = <<p, messages[p][i].id>>
  PROVE  messages[p][i].incoming /\ messages[p][i].seq + 1 = k
  <1> DEFINE m == messages[p][i]
  <1>1. m \in Messages /\ DOMAIN log = 1 .. Len(log) /\ Len(log) \in Nat
    BY DEF CInv, TypeInv
  <1>2. m.id \in Ids
    BY <1>1 DEF OwnIds
  <1>3. m.incoming /\ m.seq \in Nat
    BY <1>1, <1>2, FreshAssumption, MessageParts
  <1>4. m.seq < Len(log) /\ log[m.seq + 1] = <<p, m.id>>
    BY <1>3 DEF CInv, HistoryInv, Traced
  <1>5. m.seq + 1 \in DOMAIN log /\ k \in DOMAIN log
    BY <1>1, <1>3, <1>4
  <1>6. log[m.seq + 1] = log[k] /\ log[k][1] = p
    BY <1>4
  <1> HIDE DEF m
  <1>7. m.seq + 1 = k
    BY <1>5, <1>6 DEF OwnIds
  <1> QED
    BY <1>3, <1>7 DEF m

(* The cache and its window are one set of as many entries. *)
LEMMA CacheIs ==
  ASSUME CInv
  PROVE  /\ order \in Seq(Peers \X MsgIds) /\ Len(order) =< Capacity
         /\ Cardinality(Range(order)) = Len(order)
  <1> DEFINE K == Peers \X MsgIds
             d == Excess(log, Capacity)
  <1>1. /\ log \in Seq(K) /\ Len(log) \in Nat /\ Capacity \in Nat
        /\ order = Youngest(log, Capacity) /\ DedupWindow
    BY CapacityAssumption DEF CInv, TypeInv, WindowInv
  <1> HIDE DEF K
  <1>2. order \in Seq(K) /\ Suffix(order, log, d)
    BY <1>1, YoungestSuffix
  <1>3. /\ d \in 0 .. Len(log) /\ Len(order) = Len(log) - d /\ Len(order) =< Capacity
        /\ Len(order) \in Nat
    BY <1>1, <1>2 DEF Suffix, Excess
  <1> HIDE DEF d
  <1>4. \A i \in 1 .. Len(order) : i + d \in 1 .. Len(log) /\ order[i] = log[i + d]
    BY <1>1, <1>2, <1>3 DEF Suffix
  <1>5. DOMAIN log = 1 .. Len(log) /\ DOMAIN order = 1 .. Len(order)
    BY <1>1, <1>2
  <1>6. ASSUME NEW i \in 1 .. Len(order), NEW j \in 1 .. Len(order), i < j
        PROVE  order[i] # order[j]
    <2>1. i + d \in DOMAIN log /\ j + d \in DOMAIN log /\ i + d < j + d
      BY <1>3, <1>4, <1>5, <1>6
    <2>2. ~((j + d) - (i + d) > Capacity)
      BY <1>1, <1>3
    <2> QED
      BY <1>4, <1>1, <2>1, <2>2 DEF DedupWindow
  <1>7. \A i, j \in 1 .. Len(order) : order[i] = order[j] => i = j
    BY <1>3, <1>6
  <1>8. order \in [1 .. Len(order) -> Range(order)]
    <2>1. order = [i \in 1 .. Len(order) |-> order[i]]
      BY <1>2, <1>5
    <2>2. \A i \in 1 .. Len(order) : order[i] \in Range(order)
      BY <1>5 DEF Range
    <2> QED
      BY <2>1, <2>2
  <1>9. order \in Injection(1 .. Len(order), Range(order))
    BY <1>5, <1>7, <1>8 DEF Injection, IsInjective
  <1>10. order \in Surjection(1 .. Len(order), Range(order))
    <2>1. \A x \in Range(order) : \E i \in 1 .. Len(order) : order[i] = x
      BY <1>5 DEF Range
    <2> QED
      BY <1>8, <2>1 DEF Surjection
  <1>11. ExistsBijection(1 .. Len(order), Range(order))
    BY <1>9, <1>10 DEF ExistsBijection, Bijection
  <1>12. Cardinality(Range(order)) = Len(order)
    BY <1>3, <1>11, FS_CountingElements
  <1> QED
    BY <1>2, <1>3, <1>12 DEF K

(* The store is well formed, and BoundedDedupCache keeps its two           *)
(* containers in step: the set has the queue's entries, each once, and     *)
(* never more than the capacity.                                           *)
THEOREM TypeCorrect == Spec => []TypeOK
  <1>1. CInv => TypeOK
    <2> SUFFICES ASSUME CInv PROVE TypeOK
      OBVIOUS
    <2>1. TypeInv /\ messages \in [Peers -> Seq(Incoming \cup Outgoing)]
      BY DEF CInv, TypeInv, Messages
    <2>2. seen = Range(order)
      BY <2>1 DEF TypeInv
    <2>3. Cardinality(seen) = Len(order)
      BY <2>2, CacheIs
    <2> QED
      BY <2>1, <2>2, <2>3, CacheIs DEF TypeInv, TypeOK
  <1> QED
    BY <1>1, CAlways, PTL

(* BoundedDedupCache.insert stores no id of a peer twice within a window   *)
(* of its capacity, whatever number of peers share the cache.              *)
THEOREM Dedup == Spec => []DedupWindow
  <1>1. CInv => DedupWindow
    BY DEF CInv, WindowInv
  <1> QED
    BY <1>1, CAlways, PTL

(* update_outgoing_status gives each held message the outcome of its own   *)
(* send_text call, for any number of concurrent calls, any history limit,  *)
(* any trimming between the two halves of a call and any ids that peers    *)
(* put on their texts.                                                     *)
THEOREM StatusSettles == Spec => []StatusFollowsCall
  <1>1. CInv => StatusFollowsCall
    <2> SUFFICES ASSUME CInv, NEW p \in Peers, NEW m \in Range(messages[p]), ~m.incoming
                 PROVE  m.status = "sending" <=> <<p, m.id>> \in inflight
      BY DEF StatusFollowsCall
    <2>1. messages[p] \in Seq(Messages)
      BY DEF CInv, TypeInv
    <2>2. PICK i \in 1 .. Len(messages[p]) : m = messages[p][i]
      BY <2>1 DEF Range
    <2> QED
      BY <2>2 DEF CInv, HistoryInv, Traced
  <1> QED
    BY <1>1, CAlways, PTL

(* latest_incoming_for has an answer exactly while a message is held from  *)
(* the peer, whatever ids the peers use; and from a peer that makes fresh  *)
(* ids it is, of the messages held, the one received last.                 *)
THEOREM NewestFound == Spec => []LatestForIsNewest
  <1>1. CInv => LatestForIsNewest
    <2> SUFFICES ASSUME CInv, NEW p \in Peers
                 PROVE  /\ LatestIncomingFor(p) = Nobody <=> Held(p) = {}
                        /\ (OwnIds(p) /\ Held(p) # {}) =>
                             /\ LatestIncomingFor(p) \in Held(p)
                             /\ \A h \in Held(p) : h.seq <= LatestIncomingFor(p).seq
      BY DEF LatestForIsNewest
    <2> DEFINE s == messages[p]
               id == latest[p]
    <2>1. s \in Seq(Messages) /\ Len(s) \in Nat
      BY DEF CInv, TypeInv
    <2>2. \A m : m \in Held(p) <=> \E i \in 1 .. Len(s) : m = s[i] /\ s[i].incoming
      BY <2>1 DEF Held, Range
    <2>3. Indexed(s, id) /\ Ordered(s)
      BY DEF CInv, HistoryInv, LatestInv
    <2>4. LatestIncomingFor(p) = IF id = Nobody THEN Nobody ELSE Find(s, id)
      BY DEF LatestIncomingFor
    <2>5. \A i \in 1 .. Len(s) : s[i].id # Nobody
      <3> TAKE i \in 1 .. Len(s)
      <3>1. s[i].id \in MsgIds
        BY <2>1, MessageParts
      <3> QED
        BY <3>1, NobodyAssumption
    <2> HIDE DEF s, id
    <2>8. CASE Held(p) = {}
      <3>1. \A i \in 1 .. Len(s) : ~s[i].incoming
        BY <2>2, <2>8
      <3>2. ASSUME NEW i \in 1 .. Len(s), s[i].id = id PROVE FALSE
        <4>1. PICK k \in i .. Len(s) : s[k].incoming
          BY <2>3, <3>2 DEF Indexed, Newest
        <4> QED
          BY <2>1, <3>1, <4>1
      <3>3. Find(s, id) = Nobody
        BY <2>1, <3>2, FindFinds
      <3> QED
        BY <2>4, <2>8, <3>3
    <2>9. CASE Held(p) # {}
      <3>1. PICK i \in 1 .. Len(s) : s[i].incoming
        BY <2>2, <2>9
      <3>2. PICK k \in i .. Len(s) :
              /\ s[k].incoming /\ s[k].id = id
              /\ \A j \in 1 .. Len(s) : s[j].incoming => j =< k
        BY <2>3, <3>1 DEF Indexed, Newest
      <3>3. k \in 1 .. Len(s) /\ id # Nobody
        BY <2>1, <2>5, <3>1, <3>2
      <3>4. LatestIncomingFor(p) # Nobody /\ LatestIncomingFor(p) = Find(s, id)
        BY <2>1, <2>4, <3>2, <3>3, FindFinds
      <3>5. ASSUME OwnIds(p)
            PROVE  /\ LatestIncomingFor(p) \in Held(p)
                   /\ \A h \in Held(p) : h.seq <= LatestIncomingFor(p).seq
        <4>1. PICK f \in 1 .. Len(s) : LatestIncomingFor(p) = s[f] /\ s[f].id = id
          BY <2>1, <3>4, FindFinds
        <4>2. s[k] \in Messages /\ s[f] \in Messages
          BY <2>1, <3>3
        <4>3. s[k].seq \in Nat /\ s[f].seq \in Nat
          BY <4>2, MessageParts
        <4>4. /\ s[k].seq + 1 \in 1 .. Len(log)
              /\ log[s[k].seq + 1] = <<p, s[k].id>>
          <5>1. Traced(p, s[k]) /\ Len(log) \in Nat
            BY <3>3 DEF CInv, HistoryInv, TypeInv, s
          <5> QED
            BY <3>2, <4>3, <5>1 DEF Traced
        <4>5. log[s[k].seq + 1] = <<p, messages[p][f].id>>
          BY <3>2, <4>1, <4>4 DEF s
        <4>6. s[f].incoming /\ s[f].seq + 1 = s[k].seq + 1
          BY <3>5, <4>1, <4>4, <4>5, OneAcceptance DEF s
        <4>7. s[f].seq = s[k].seq
          BY <4>3, <4>6
        <4>8. ASSUME NEW j \in 1 .. Len(s), s[j].incoming
              PROVE  s[j].seq =< s[k].seq
          <5>1. CASE j = k
            BY <4>3, <5>1
          <5>2. CASE j # k
            <6>1. j < k
              BY <2>1, <3>2, <3>3, <4>8, <5>2
            <6>2. s[j].seq < s[k].seq
              BY <2>3, <3>2, <3>3, <4>8, <6>1 DEF Ordered, Apart
            <6>3. s[j] \in Messages
              BY <2>1
            <6>4. s[j].seq \in Nat
              BY <6>3, MessageParts
            <6> QED
              BY <4>3, <6>2, <6>4
          <5> QED
            BY <5>1, <5>2
        <4> QED
          BY <2>2, <4>1, <4>6, <4>7, <4>8
      <3> QED
        BY <2>9, <3>4, <3>5
    <2> QED
      BY <2>8, <2>9
  <1> QED
    BY <1>1, CAlways, PTL

(* What latest_incoming_global returns from a peer that makes fresh ids is *)
(* the message received last of all: its receive sequence is the last one  *)
(* given out.                                                              *)
THEOREM LastFound == Spec => []LatestGlobalIsLast
  <1>1. CInv => LatestGlobalIsLast
    <2> SUFFICES ASSUME CInv, LatestIncomingGlobal # Nobody, OwnIds(global[1])
                 PROVE  /\ LatestIncomingGlobal.incoming
                        /\ LatestIncomingGlobal.seq + 1 = Len(log)
      BY DEF LatestGlobalIsLast
    <2> DEFINE p == global[1]
               s == messages[p]
    <2>1. global # Nobody /\ LatestIncomingGlobal = Find(s, global[2])
      BY DEF LatestIncomingGlobal
    <2>2. /\ global \in Peers \X MsgIds /\ global = log[Len(log)]
          /\ Len(log) \in 1 .. Len(log)
      BY <2>1 DEF CInv, TypeInv, GlobalInv
    <2>3. p \in Peers /\ global = <<p, global[2]>> /\ s \in Seq(Messages)
      BY <2>2 DEF CInv, TypeInv
    <2> HIDE DEF s
    <2>4. PICK f \in 1 .. Len(s) : LatestIncomingGlobal = s[f] /\ s[f].id = global[2]
      BY <2>1, <2>3, FindFinds
    <2>5. log[Len(log)] = <<p, messages[p][f].id>>
      BY <2>2, <2>3, <2>4 DEF s
    <2> HIDE DEF p
    <2>6. messages[p][f].incoming /\ messages[p][f].seq + 1 = Len(log)
      BY <2>2, <2>3, <2>4, <2>5, OneAcceptance DEF s, p
    <2> QED
      BY <2>4, <2>6 DEF s
  <1> QED
    BY <1>1, CAlways, PTL
=============================================================================
